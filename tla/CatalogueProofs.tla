--------------------------- MODULE CatalogueProofs ---------------------------
(***************************************************************************)
(* Proofs about what Schema promises of the catalogue while no request     *)
(* overlaps one that deletes rows: it stays sound, the reports on it are   *)
(* complete and its exports read back.  All three follow from SaneInv: the *)
(* catalogue is sane, and each request under way commits rows that fit     *)
(* whatever the others have added, or promises a sane catalogue.           *)
(***************************************************************************)
EXTENDS SchemaProofs

-----------------------------------------------------------------------------
(* What a sane catalogue is like stays so, whatever is added, and after a     *)
(* deletion that goes along with all that refers to what is deleted.          *)

\* Columns that keep what they name.
Keeps(k, m) ==
    <<k[1], m>> \in
      {<<"table", "source_id">>, <<"field", "table_id">>, <<"relation", "from_table_id">>,
       <<"relation", "to_table_id">>, <<"relation", "from_field_id">>, <<"unique", "table_id">>,
       <<"item", "form_id">>, <<"item", "relation_id">>, <<"workflow", "table_id">>,
       <<"step", "workflow_id">>, <<"trigger", "table_id">>, <<"sla", "table_id">>,
       <<"feed", "source_table_id">>, <<"user", "role">>, <<"user", "company_id">>,
       <<"company", "parent_id">>, <<"permission", "role">>, <<"fieldperm", "role">>}

\* The ones among them that the database does not look after.
KeptByRequests ==
    {<<"table", "source_id">>, <<"relation", "from_table_id">>, <<"relation", "to_table_id">>,
     <<"relation", "from_field_id">>, <<"item", "relation_id">>, <<"user", "role">>,
     <<"user", "company_id">>, <<"company", "parent_id">>, <<"permission", "role">>,
     <<"fieldperm", "role">>}

\* What is kept is a column, and a foreign key unless the requests see to it.
LEMMA KeptColumns ==
  ASSUME NEW k, NEW m, Keeps(k, m)
  PROVE  m \in Columns(k) /\ (Column(k, m).on = "nothing" => <<k[1], m>> \in KeptByRequests)
<1> USE DEF KeptByRequests
<1>1. CASE k[1] \in {"table", "field", "relation", "unique"}
  BY <1>1, CoreColumns, KindsAre DEF Keeps
<1>2. CASE k[1] \in {"item", "workflow", "permission", "fieldperm"}
  BY <1>2, MoreColumns, KindsAre DEF Keeps
<1>3. CASE k[1] \in {"step", "trigger", "sla", "feed", "user", "company"}
  <2>1. k[1] = "step" => m = "workflow_id" /\ m \in Columns(k) /\ Column(k, m) = Key("workflow")
    BY ModelIs DEF Keeps, Columns, Column, ApprovalStep
  <2>2. k[1] = "trigger" => m = "table_id" /\ m \in Columns(k) /\ Column(k, m) = Key("table")
    BY ModelIs DEF Keeps, Columns, Column, TriggerRule
  <2>3. k[1] = "sla" => m = "table_id" /\ m \in Columns(k) /\ Column(k, m) = Key("table")
    BY ModelIs DEF Keeps, Columns, Column, SlaPolicy
  <2>4. k[1] = "feed" => m = "source_table_id" /\ m \in Columns(k) /\ Column(k, m) = Key("table")
    BY ModelIs DEF Keeps, Columns, Column, Feed
  <2>5. k[1] = "user" => m \in {"role", "company_id"} /\ m \in Columns(k)
    BY ModelIs DEF Keeps, Columns, Column, AppUser
  <2>6. k[1] = "company" => m = "parent_id" /\ m \in Columns(k)
    BY ModelIs DEF Keeps, Columns, Column, Company
  <2> QED BY <1>3, <2>1, <2>2, <2>3, <2>4, <2>5, <2>6, KindsAre
<1>4. k[1] \in {"table", "field", "relation", "unique", "item", "workflow", "permission", "fieldperm",
                "step", "trigger", "sla", "feed", "user", "company"}
  BY DEF Keeps
<1> QED BY <1>1, <1>2, <1>3, <1>4

\* Columns for fields of the table that the row is about.
LEMMA FieldColumns ==
  ASSUME NEW k, NEW m,
         \/ k[1] = "table" /\ m = "display_field_id"
         \/ k[1] = "relation" /\ m \in {"from_field_id", "from_display_field_ids", "to_display_field_ids"}
         \/ k[1] = "unique" /\ m = "field_ids"
         \/ k[1] = "workflow" /\ m = "field_id"
         \/ k[1] = "trigger" /\ m \in {"field_id", "cond_field_id", "set_field_id"}
         \/ k[1] = "sla" /\ m \in {"status_field_id", "cond_field_id", "state_field_id",
                                   "due_field_id", "breach_set_field_id"}
         \/ k[1] = "feed" /\ m \in {"field_id", "cond_field_id"}
  PROVE  m \in Columns(k) /\ Column(k, m).to = "field"
<1>1. CASE k[1] \in {"table", "relation", "unique"}
  BY <1>1, CoreColumns, KindsAre
<1>2. CASE k[1] = "workflow"
  BY <1>2, MoreColumns, KindsAre
<1>3. CASE k[1] = "trigger"
  <2>1. m \in Columns(k) /\ Column(k, m) = Id("field")
    BY <1>3, ModelIs DEF Columns, Column, TriggerRule
  <2> QED BY <2>1, KindsAre
<1>4. CASE k[1] = "sla"
  <2>1. m \in Columns(k) /\ Column(k, m) = Id("field")
    BY <1>4, ModelIs DEF Columns, Column, SlaPolicy
  <2> QED BY <2>1, KindsAre
<1>5. CASE k[1] = "feed"
  <2>1. m \in Columns(k) /\ Column(k, m) = Id("field")
    BY <1>5, ModelIs DEF Columns, Column, Feed
  <2> QED BY <2>1, KindsAre
<1> QED BY <1>1, <1>2, <1>3, <1>4, <1>5

\* Of two catalogues: what is in both of them hangs together in the same way.
Joined(c, c2) ==
    /\ None \notin DOMAIN c2 /\ Gone \notin DOMAIN c2
    /\ \A k \in DOMAIN c \cap DOMAIN c2 :
         /\ k[1] = "field" => c2[k].table_id = c[k].table_id
         /\ k[1] = "relation" => c2[k].from_field_id = c[k].from_field_id

\* A field that is carried over is of the table that it was of.
LEMMA FieldOfJoined ==
  ASSUME NEW c, NEW c2, Joined(c, c2), NEW k, NEW m, Column(k, m).to = "field", NEW v, Refers(c, k, m, v),
         NEW t, FieldOf(c, v, t), NEW w \in {v, None, Gone}
  PROVE  FieldOf(c2, w, t)
  BY DEF Joined, Refers, FieldOf

\* A row that is carried over from one to the other.
Carried(c, c2, k, row, row2) ==
    /\ \A m \in Columns(k) : row2[m] \in {row[m], None, Gone}
    /\ \A m : Keeps(k, m) => row2[m] = row[m]
    /\ k[1] = "item" => \A m \in Columns(k) : row2[m] = None <=> row[m] = None
    /\ k[1] = "field" =>
         /\ row2.related_table_id # None => row.related_table_id # None
         /\ \A r \in RowsIn(c, "relation") : c[r].from_field_id = k => r \in DOMAIN c2
    /\ k[1] = "relation" /\ row.from_field_id \in DOMAIN c \cap DOMAIN c2 =>
         c2[row.from_field_id].related_table_id = c[row.from_field_id].related_table_id

\* The fields and relations that a row names are there.
RefersOK(c, k, row) ==
    \A m \in Columns(k) : Column(k, m).to \in {"field", "relation"} => Refers(c, k, m, row[m])

\* A row that is carried over is as sane as it was.
LEMMA CarriedFrom ==
  ASSUME NEW c, NEW c2, Joined(c, c2), NEW k, NEW row, RefersOK(c, k, row), SaneRow(c, k, row),
         NEW row2, Carried(c, c2, k, row, row2)
  PROVE  SaneRow(c2, k, row2)
<1>1. ASSUME NEW m, m \in Columns(k), Column(k, m).to = "field", NEW t, FieldOf(c, row[m], t)
      PROVE  FieldOf(c2, row2[m], t)
  <2>1. Refers(c, k, m, row[m]) /\ row2[m] \in {row[m], None, Gone}
    BY <1>1 DEF RefersOK, Carried
  <2> QED BY <1>1, <2>1, FieldOfJoined
<1>2. \A m : Keeps(k, m) => row2[m] = row[m]
  BY DEF Carried
<1>3. CASE k[1] = "table"
  <2>1. row2.source_id = row.source_id /\ FieldOf(c2, row2.display_field_id, k)
    BY <1>1, <1>2, <1>3, FieldColumns DEF SaneRow, Keeps
  <2> QED BY <1>3, <2>1 DEF SaneRow
<1>4. CASE k[1] = "field"
  <2>1. ASSUME row2.related_table_id # None
        PROVE  \E r \in RowsIn(c2, "relation") : c2[r].from_field_id = k
    <3>1. PICK r \in RowsIn(c, "relation") : c[r].from_field_id = k
      BY <1>4, <2>1 DEF SaneRow, Carried
    <3>2. r \in DOMAIN c /\ r \in DOMAIN c2 /\ r[1] = "relation"
      BY <1>4, <3>1 DEF Carried, RowsIn
    <3> QED BY <3>1, <3>2 DEF Joined, RowsIn
  <2> QED BY <1>4, <2>1 DEF SaneRow
<1>5. CASE k[1] = "relation"
  <2>1. /\ row2.from_table_id = row.from_table_id /\ row2.to_table_id = row.to_table_id
        /\ row2.from_field_id = row.from_field_id
    BY <1>2, <1>5 DEF Keeps
  <2>2. /\ FieldOf(c2, row2.from_field_id, row.from_table_id)
        /\ FieldOf(c2, row2.from_display_field_ids, row.from_table_id)
        /\ FieldOf(c2, row2.to_display_field_ids, row.to_table_id)
    BY <1>1, <1>5, FieldColumns DEF SaneRow
  <2>3. ASSUME row2.from_field_id \in DOMAIN c2
        PROVE  c2[row2.from_field_id].related_table_id = row2.to_table_id
    <3>1. Refers(c, k, "from_field_id", row.from_field_id)
      BY <1>5, CoreColumns, KindsAre DEF RefersOK
    <3>2. row.from_field_id \in DOMAIN c
      BY <2>1, <2>3, <3>1 DEF Refers, Joined
    <3> QED BY <1>5, <2>1, <2>3, <3>2 DEF SaneRow, Carried
  <2>4. row.from_table_id \notin {None, Gone} /\ row.to_table_id \notin {None, Gone} /\ row.from_field_id # Gone
    BY <1>5 DEF SaneRow
  <2> QED BY <1>5, <2>1, <2>2, <2>3, <2>4 DEF SaneRow
<1>6. CASE k[1] \in {"unique", "workflow"}
  <2>1. row2.table_id = row.table_id
    BY <1>2, <1>6 DEF Keeps
  <2>2. k[1] = "unique" => FieldOf(c2, row2.field_ids, row.table_id)
    BY <1>1, FieldColumns DEF SaneRow
  <2>3. k[1] = "workflow" => FieldOf(c2, row2.field_id, row.table_id)
    BY <1>1, FieldColumns DEF SaneRow
  <2> QED BY <1>6, <2>1, <2>2, <2>3 DEF SaneRow
<1>7. CASE k[1] = "item"
  <2>1. row2.form_id = row.form_id /\ row2.relation_id = row.relation_id
    BY <1>2, <1>7 DEF Keeps
  <2>2. /\ row2.field_id = None <=> row.field_id = None
        /\ row2.parent_field_id = None <=> row.parent_field_id = None
        /\ row2.filter_field_id = None <=> row.filter_field_id = None
    BY <1>7, MoreColumns DEF Carried
  <2>3. ASSUME row2.relation_id \in DOMAIN c2 PROVE c2[row2.relation_id].from_field_id = None
    <3>1. Refers(c, k, "relation_id", row.relation_id) /\ Column(k, "relation_id").to = "relation"
      BY <1>7, MoreColumns, KindsAre DEF RefersOK
    <3>2. row.relation_id \in DOMAIN c /\ row.relation_id[1] = "relation"
      BY <2>1, <2>3, <3>1 DEF Refers, Joined
    <3> QED BY <1>7, <2>1, <2>3, <3>2 DEF SaneRow, Joined
  <2>4. row.form_id # None /\ row.relation_id # Gone
        /\ (row.field_id = None => row.parent_field_id = None /\ row.filter_field_id = None)
    BY <1>7 DEF SaneRow
  <2> QED BY <1>7, <2>1, <2>2, <2>3, <2>4 DEF SaneRow
<1>8. CASE k[1] \in {"step", "user", "company", "permission", "fieldperm"}
  <2>1. /\ k[1] = "step" => row2.workflow_id = row.workflow_id
        /\ k[1] = "user" => row2.role = row.role /\ row2.company_id = row.company_id
        /\ k[1] = "company" => row2.parent_id = row.parent_id
        /\ k[1] \in {"permission", "fieldperm"} => row2.role = row.role
    BY <1>2 DEF Keeps
  <2> QED BY <1>8, <2>1 DEF SaneRow
<1>9. CASE k[1] \in {"trigger", "sla", "feed"}
  <2>1. /\ k[1] \in {"trigger", "sla"} => row2.table_id = row.table_id
        /\ k[1] = "feed" => row2.source_table_id = row.source_table_id
    BY <1>2 DEF Keeps
  <2>2. k[1] = "trigger" => \A m \in {"field_id", "cond_field_id", "set_field_id"} :
                              FieldOf(c2, row2[m], row.table_id)
    BY <1>1, FieldColumns DEF SaneRow
  <2>3. k[1] = "sla" => \A m \in {"status_field_id", "cond_field_id", "state_field_id", "due_field_id",
                                  "breach_set_field_id"} : FieldOf(c2, row2[m], row.table_id)
    BY <1>1, FieldColumns DEF SaneRow
  <2>4. k[1] = "feed" => \A m \in {"field_id", "cond_field_id"} :
                           FieldOf(c2, row2[m], row.source_table_id)
    BY <1>1, FieldColumns DEF SaneRow
  <2> QED BY <1>9, <2>1, <2>2, <2>3, <2>4 DEF SaneRow
<1>10. CASE k[1] \notin {"table", "field", "relation", "unique", "workflow", "item", "step", "user",
                         "company", "permission", "fieldperm", "trigger", "sla", "feed"}
  BY <1>10 DEF SaneRow
<1> QED BY <1>3, <1>4, <1>5, <1>6, <1>7, <1>8, <1>9, <1>10

\* The same of a row whose references are all typed.
LEMMA CarriedIs ==
  ASSUME NEW c, NEW c2, Joined(c, c2), NEW k, NEW row, RowOK(c, k, row), SaneRow(c, k, row),
         NEW row2, Carried(c, c2, k, row, row2)
  PROVE  SaneRow(c2, k, row2)
<1>1. RefersOK(c, k, row)
  BY DEF RefersOK, RowOK
<1> QED BY <1>1, CarriedFrom

\* Nothing of the old is taken away, and fields are what they were.
Grows(c, c2) ==
    /\ Joined(c, c2) /\ DOMAIN c \subseteq DOMAIN c2
    /\ \A k \in DOMAIN c : k[1] = "field" => c2[k].related_table_id = c[k].related_table_id

\* Nothing that is added makes a row less sane.
LEMMA GrownRow ==
  ASSUME NEW c, NEW c2, Grows(c, c2), NEW k, NEW row, RowOK(c, k, row), SaneRow(c, k, row)
  PROVE  SaneRow(c2, k, row)
<1>1. Joined(c, c2)
  BY DEF Grows
<1>2. Carried(c, c2, k, row, row)
  <2>1. k[1] = "relation" => Refers(c, k, "from_field_id", row.from_field_id)
                             /\ Column(k, "from_field_id").to = "field"
    BY CoreColumns, KindsAre DEF RowOK
  <2>2. k[1] = "relation" /\ row.from_field_id \in DOMAIN c \cap DOMAIN c2 =>
          c2[row.from_field_id].related_table_id = c[row.from_field_id].related_table_id
    BY <2>1 DEF Grows, Joined, Refers
  <2>3. \A r \in RowsIn(c, "relation") : r \in DOMAIN c2
    BY DEF Grows, RowsIn
  <2> QED BY <2>2, <2>3 DEF Carried
<1> QED BY <1>1, <1>2, CarriedIs

\* A column belongs to one relation where there are no more of them.
LEMMA SameRelations ==
  ASSUME NEW c, NEW c2, Grows(c, c2), Typed(c), OneRelation(c), RowsIn(c2, "relation") \subseteq DOMAIN c
  PROVE  OneRelation(c2)
<1>1. ASSUME NEW r \in RowsIn(c2, "relation")
      PROVE  /\ r \in RowsIn(c, "relation") /\ c2[r].from_field_id = c[r].from_field_id
             /\ c[r].from_field_id \in DOMAIN c \cup {None, Gone}
  <2>1. r \in DOMAIN c /\ r[1] = "relation"
    BY DEF RowsIn
  <2>2. RowOK(c, r, c[r])
    BY <2>1, TypedRows
  <2>3. Refers(c, r, "from_field_id", c[r].from_field_id)
    BY <2>1, <2>2, CoreColumns DEF RowOK
  <2> QED BY <2>1, <2>3 DEF Refers, Grows, Joined, RowsIn
<1> QED BY <1>1 DEF OneRelation, Grows, Joined

\* Companies that keep their parents form no cycle.
LEMMA SameCompanies ==
  ASSUME NEW c, NEW c2, NoCycle(c), RowsIn(c2, "company") \subseteq DOMAIN c,
         \A k \in RowsIn(c2, "company") : c2[k].parent_id = c[k].parent_id
  PROVE  NoCycle(c2)
<1>1. SUFFICES ASSUME NEW S \in SUBSET RowsIn(c2, "company"), S # {}
               PROVE  \E k \in S : c2[k].parent_id \notin S
  BY DEF NoCycle
<1>2. S \in SUBSET RowsIn(c, "company")
  BY DEF RowsIn
<1>3. PICK k \in S : c[k].parent_id \notin S
  BY <1>1, <1>2 DEF NoCycle
<1> QED BY <1>3

\* A catalogue that grows by sane rows stays sane.
LEMMA SaneGrown ==
  ASSUME NEW c, NEW c2, Typed(c), Sane(c), Grows(c, c2), OneRelation(c2), NoCycle(c2),
         \A k \in DOMAIN c2 : (k \in DOMAIN c /\ c2[k] = c[k]) \/ SaneRow(c2, k, c2[k])
  PROVE  Sane(c2)
<1>1. ASSUME NEW k \in DOMAIN c, c2[k] = c[k] PROVE SaneRow(c2, k, c2[k])
  <2>1. RowOK(c, k, c[k]) /\ SaneRow(c, k, c[k])
    BY TypedRows DEF Sane
  <2> QED BY <1>1, <2>1, GrownRow
<1> QED BY <1>1 DEF Sane

\* The rows that are new or changed are of other classes.
LEMMA SaneBeside ==
  ASSUME NEW c, NEW c2, Typed(c), Sane(c), DOMAIN c \subseteq DOMAIN c2,
         None \notin DOMAIN c2, Gone \notin DOMAIN c2,
         \A k \in DOMAIN c2 :
           \/ k \in DOMAIN c /\ c2[k] = c[k]
           \/ /\ k[1] \notin {"field", "relation", "company"}
              /\ RowOK(c, k, c2[k]) /\ SaneRow(c, k, c2[k])
  PROVE  Sane(c2)
<1>1. Grows(c, c2)
  BY DEF Grows, Joined
<1>2. RowsIn(c2, "relation") \subseteq DOMAIN c /\ RowsIn(c2, "company") \subseteq DOMAIN c
      /\ \A k \in RowsIn(c2, "company") : c2[k].parent_id = c[k].parent_id
  BY DEF RowsIn
<1>3. OneRelation(c2) /\ NoCycle(c2)
  BY <1>1, <1>2, SameRelations, SameCompanies DEF Sane
<1>4. \A k \in DOMAIN c2 : (k \in DOMAIN c /\ c2[k] = c[k]) \/ SaneRow(c2, k, c2[k])
  BY <1>1, GrownRow
<1> QED BY <1>1, <1>3, <1>4, SaneGrown

\* What falls goes along with all that keeps a reference to it.
Released(c, F) ==
    /\ \A k \in DOMAIN c \ F : \A m : <<k[1], m>> \in KeptByRequests => c[k][m] \notin F
    /\ \A r \in RowsIn(c, "relation") \cap F : c[r].from_field_id \notin DOMAIN c \ F

\* ON DELETE SET NULL is not for what a row keeps, nor for an item.
LEMMA NotNulled ==
  ASSUME NEW k, NEW m \in Columns(k), Keeps(k, m) \/ k[1] = "item"
  PROVE  Column(k, m).on # "set null"
<1>1. \A class : Key(class).on # "set null" /\ Id(class).on # "set null" /\ Bare(class).on # "set null"
  BY DEF Key, Id, Bare
<1>2. ASSUME k[1] \in {"table", "field", "relation", "unique"}
      PROVE  Column(k, m) \in {Key("table"), Id("table"), Id("field"), Id("source"), Bare("table")}
  BY <1>2, CoreColumns
<1>3. ASSUME k[1] \in {"item", "workflow", "permission", "fieldperm"}
      PROVE  Column(k, m) \in {Key("form"), Key("table"), Key("field"), Id("field"), Id("relation"),
                               Bare("role"), Bare("form"), Bare("field")}
  BY <1>3, MoreColumns
<1>4. ASSUME k[1] \in {"step", "trigger", "sla", "feed", "user", "company"}
      PROVE  Column(k, m) \in {Key("workflow"), Key("table"), Bare("role"), Id("company")}
  <2>1. Keeps(k, m)
    BY <1>4
  <2>2. k[1] = "step" => Column(k, m) = Key("workflow")
    BY <2>1, ModelIs DEF Column, ApprovalStep, Keeps
  <2>3. k[1] = "trigger" => Column(k, m) = Key("table")
    BY <2>1, ModelIs DEF Column, TriggerRule, Keeps
  <2>4. k[1] = "sla" => Column(k, m) = Key("table")
    BY <2>1, ModelIs DEF Column, SlaPolicy, Keeps
  <2>5. k[1] = "feed" => Column(k, m) = Key("table")
    BY <2>1, ModelIs DEF Column, Feed, Keeps
  <2>6. k[1] = "user" => Column(k, m) \in {Bare("role"), Id("company")}
    BY <2>1, ModelIs DEF Column, AppUser, Keeps
  <2>7. k[1] = "company" => Column(k, m) = Id("company")
    BY <2>1, ModelIs DEF Column, Company, Keeps
  <2> QED BY <1>4, <2>2, <2>3, <2>4, <2>5, <2>6, <2>7
<1>5. k[1] \in {"table", "field", "relation", "unique", "item", "workflow", "permission", "fieldperm",
                "step", "trigger", "sla", "feed", "user", "company"}
  BY DEF Keeps
<1> QED BY <1>1, <1>2, <1>3, <1>4, <1>5

\* A deletion that releases what it deletes leaves the catalogue sane.
LEMMA SaneLess ==
  ASSUME NEW c, CatOK(c), Sane(c), NEW S \in SUBSET DOMAIN c, Released(c, Cascaded(c, S))
  PROVE  Sane(Without(c, S))
<1> DEFINE F == Cascaded(c, S)
           c2 == Without(c, S)
<1>1. /\ CatOK(c2) /\ DOMAIN c2 = DOMAIN c \ F
      /\ \A k \in DOMAIN c2 : \A m \in Columns(k) :
           /\ Column(k, m).on = "cascade" => c2[k][m] = c[k][m]
           /\ c[k][m] \notin F => c2[k][m] = c[k][m]
           /\ c2[k][m] \in {c[k][m], None, Gone}
  BY WithoutIs
<1>2. Typed(c) /\ Typed(c2) /\ F \subseteq DOMAIN c
  BY <1>1, CascadedIs DEF CatOK
<1>12. c2 = [k \in DOMAIN c \ F |->
              [m \in Columns(k) |->
                 IF c[k][m] \notin F THEN c[k][m]
                 ELSE IF Column(k, m).on = "set null" THEN None ELSE Gone]]
  BY DEF Without
<1>13. Released(c, F)
  OBVIOUS
<1>10. ASSUME NEW k \in DOMAIN c2, NEW m \in Columns(k), c[k][m] = None \/ Column(k, m).on # "set null"
      PROVE  c2[k][m] = None <=> c[k][m] = None
  <2>1. None \notin F
    BY <1>2, ForeignIs DEF Typed
  <2>2. c2[k][m] = IF c[k][m] \notin F THEN c[k][m]
                   ELSE IF Column(k, m).on = "set null" THEN None ELSE Gone
    <3> HIDE DEF F, c2
    <3>1. k \in DOMAIN c \ F
      BY <1>1
    <3> QED BY <1>12, <3>1
  <2>3. None # Gone
    BY ForeignIs
  <2> HIDE DEF F, c2
  <2>4. CASE c[k][m] \notin F
    BY <2>2, <2>4
  <2>5. CASE c[k][m] \in F
    BY <1>10, <2>1, <2>2, <2>3, <2>5
  <2> QED BY <2>4, <2>5
<1> HIDE DEF F, c2
<1>3. None \notin DOMAIN c2 /\ Gone \notin DOMAIN c2
  BY <1>2, ForeignIs DEF Typed
<1>4. ASSUME NEW k \in DOMAIN c2, NEW m, Keeps(k, m) PROVE c2[k][m] = c[k][m]
  <2>1. m \in Columns(k) /\ (Column(k, m).on = "nothing" => <<k[1], m>> \in KeptByRequests)
    BY <1>4, KeptColumns
  <2>2. CASE Column(k, m).on = "cascade"
    BY <1>1, <2>1, <2>2
  <2>3. CASE Column(k, m).on = "nothing"
    <3>1. k \in DOMAIN c \ F /\ <<k[1], m>> \in KeptByRequests
      BY <1>1, <2>1, <2>3
    <3>2. c[k][m] \notin F
      BY <1>13, <3>1 DEF Released
    <3> QED BY <1>1, <2>1, <3>2
  <2>4. Column(k, m).on # "set null"
    BY <1>4, <2>1, NotNulled
  <2>5. k[1] \in Classes /\ m \in DOMAIN Model[k[1]] /\ Column(k, m) = Model[k[1]][m]
    BY <1>2, <2>1 DEF Typed, Keys, Columns, Column
  <2>6. Sensible(Column(k, m))
    BY <2>5, ColumnsAre
  <2> QED BY <2>2, <2>3, <2>4, <2>6 DEF Sensible
<1>5. Joined(c, c2)
  <2>1. ASSUME NEW k \in DOMAIN c2, k[1] = "field" PROVE c2[k].table_id = c[k].table_id
    BY <1>4, <2>1 DEF Keeps
  <2>2. ASSUME NEW k \in DOMAIN c2, k[1] = "relation" PROVE c2[k].from_field_id = c[k].from_field_id
    BY <1>4, <2>2 DEF Keeps
  <2> QED BY <1>1, <1>3, <2>1, <2>2 DEF Joined
<1>6. ASSUME NEW k \in DOMAIN c2 PROVE k \in DOMAIN c /\ RowOK(c, k, c[k]) /\ SaneRow(c, k, c[k])
  BY <1>1, <1>2, TypedRows DEF Sane
<1>7. ASSUME NEW k \in DOMAIN c2 PROVE Carried(c, c2, k, c[k], c2[k])
  <2>1. \A m \in Columns(k) : c2[k][m] \in {c[k][m], None, Gone}
    BY <1>1
  <2>2. \A m : Keeps(k, m) => c2[k][m] = c[k][m]
    BY <1>4
  <2>3. ASSUME NEW m \in Columns(k), k[1] = "item" PROVE c2[k][m] = None <=> c[k][m] = None
    <3>1. Column(k, m).on # "set null"
      BY <2>3, NotNulled
    <3> QED BY <1>10, <3>1
  <2>4. ASSUME k[1] = "field"
        PROVE  /\ c2[k].related_table_id # None => c[k].related_table_id # None
               /\ \A r \in RowsIn(c, "relation") : c[r].from_field_id = k => r \in DOMAIN c2
    <3>1. "related_table_id" \in Columns(k)
      BY <2>4, CoreColumns
    <3>2. c2[k].related_table_id # None => c[k].related_table_id # None
      BY <1>10, <3>1
    <3>3. ASSUME NEW r \in RowsIn(c, "relation"), c[r].from_field_id = k, r \notin DOMAIN c2 PROVE FALSE
      <4>1. r \in F /\ k \in DOMAIN c \ F
        BY <1>1, <3>3 DEF RowsIn
      <4> QED BY <1>13, <3>3, <4>1 DEF Released
    <3> QED BY <3>2, <3>3
  <2>5. ASSUME k[1] = "relation", c[k].from_field_id \in DOMAIN c \cap DOMAIN c2
        PROVE  c2[c[k].from_field_id].related_table_id = c[c[k].from_field_id].related_table_id
    <3> DEFINE f == c[k].from_field_id
    <3>1. Refers(c, k, "from_field_id", f) /\ Column(k, "from_field_id").to = "field"
      BY <1>6, <2>5, CoreColumns, KindsAre DEF RowOK
    <3>2. f \in DOMAIN c2 /\ f[1] = "field" /\ "related_table_id" \in Columns(f)
      BY <2>5, <3>1, CoreColumns, ForeignIs, <1>3 DEF Refers
    <3>3. c[f].related_table_id = c[k].to_table_id
      BY <1>6, <2>5 DEF SaneRow
    <3>4. c[k].to_table_id \notin F
      BY <1>1, <1>13, <2>5 DEF Released, KeptByRequests
    <3> HIDE DEF f
    <3> QED BY <1>1, <3>2, <3>3, <3>4 DEF f
  <2> QED BY <2>1, <2>2, <2>3, <2>4, <2>5 DEF Carried
<1>8. OneRelation(c2)
  <2>1. ASSUME NEW r \in RowsIn(c2, "relation")
        PROVE  r \in RowsIn(c, "relation") /\ c2[r].from_field_id = c[r].from_field_id
    BY <1>1, <1>4 DEF RowsIn, Keeps
  <2> QED BY <1>1, <2>1 DEF OneRelation, Sane
<1>9. NoCycle(c2)
  <2>1. RowsIn(c2, "company") \subseteq DOMAIN c
        /\ \A k \in RowsIn(c2, "company") : c2[k].parent_id = c[k].parent_id
    BY <1>1, <1>4 DEF RowsIn, Keeps
  <2> QED BY <2>1, SameCompanies DEF Sane
<1>11. \A k \in DOMAIN c2 : SaneRow(c2, k, c2[k])
  BY <1>5, <1>6, <1>7, CarriedIs
<1> QED BY <1>8, <1>9, <1>11 DEF Sane, c2

\* The row that Create adds: of its optional columns one is set, from the choices.
LEMMA CreatedRow ==
  ASSUME CatOK(cat), topic.each \in Nat, NEW class \in Classes, NEW optional,
         Offers(class, optional), Create(class, optional)
  PROVE  \E k \in Keys \ DOMAIN cat : \E row :
           /\ k[1] = class /\ RowOK(cat, k, row) /\ cat' = With(cat, k, row)
           /\ \A m \in Columns(k) :
                /\ row[m] \in DOMAIN cat \cup {None}
                /\ m \notin Musts(class) \cup optional => row[m] = None
                /\ m \in Musts(class) => row[m] \in DOMAIN cat
<1>1. PICK must \in [Musts(class) -> DOMAIN cat] :
        /\ \A m \in Musts(class) : must[m][1] = Model[class][m].to
        /\ LET k == NewKey(class)
               bare == [m \in DOMAIN Model[class] |->
                          IF m \in Musts(class) THEN must[m] ELSE None] IN
           \/ cat' = With(cat, k, bare)
           \/ \E m \in optional : \E v \in Offered(k, bare, m) :
                cat' = With(cat, k, [bare EXCEPT ![m] = v])
  BY DEF Create
<1> DEFINE k == NewKey(class)
           bare == [m \in DOMAIN Model[class] |-> IF m \in Musts(class) THEN must[m] ELSE None]
           Good(row) ==
             /\ RowOK(cat, k, row)
             /\ \A m \in Columns(k) :
                  /\ row[m] \in DOMAIN cat \cup {None}
                  /\ m \notin Musts(class) \cup optional => row[m] = None
                  /\ m \in Musts(class) => row[m] \in DOMAIN cat
<1>2. k \in Keys \ DOMAIN cat /\ k[1] = class
  BY FreshKey DEF Create
<1>3. Columns(k) = DOMAIN Model[class] /\ \A m : Column(k, m) = Model[class][m]
  BY <1>2 DEF Columns, Column
<1> HIDE DEF k
<1>4. Good(bare)
  <2>1. DOMAIN bare = Columns(k)
    BY <1>3
  <2>2. ASSUME NEW m \in Columns(k)
        PROVE  /\ Refers(cat, k, m, bare[m]) /\ bare[m] \in DOMAIN cat \cup {None}
               /\ m \notin Musts(class) \cup optional => bare[m] = None
               /\ m \in Musts(class) => bare[m] \in DOMAIN cat
    <3>1. CASE m \in Musts(class)
      BY <1>1, <1>3, <3>1 DEF Refers
    <3>2. CASE m \notin Musts(class)
      BY <1>3, <3>2 DEF Refers
    <3> QED BY <3>1, <3>2
  <2> HIDE DEF bare
  <2> QED BY <2>1, <2>2 DEF RowOK
<1>5. ASSUME NEW m \in optional, NEW v \in Offered(k, bare, m)
      PROVE  Good([bare EXCEPT ![m] = v])
  <2>1. v \in DOMAIN cat /\ v[1] = Column(k, m).to
    BY <1>5, OfferedIs DEF Offers
  <2> HIDE DEF bare
  <2>2. DOMAIN [bare EXCEPT ![m] = v] = Columns(k)
        /\ \A x \in Columns(k) : [bare EXCEPT ![m] = v][x] = IF x = m THEN v ELSE bare[x]
    BY <1>4 DEF RowOK
  <2> DEFINE row == [bare EXCEPT ![m] = v]
  <2> HIDE DEF row
  <2>3. DOMAIN row = Columns(k) /\ \A x \in Columns(k) : row[x] = IF x = m THEN v ELSE bare[x]
    BY <2>2 DEF row
  <2>4. Good(row)
    BY <1>4, <1>5, <2>1, <2>3 DEF RowOK, Refers
  <2> QED BY <2>4 DEF row
<1>6. \/ cat' = With(cat, k, bare)
      \/ \E m \in optional : \E v \in Offered(k, bare, m) : cat' = With(cat, k, [bare EXCEPT ![m] = v])
  BY <1>1 DEF k
<1> HIDE DEF bare
<1>7. \E row : Good(row) /\ cat' = With(cat, k, row)
  <2> HIDE DEF Good
  <2> QED BY <1>4, <1>5, <1>6
<1> QED
  BY <1>2, <1>7

\* The row that Edit leaves: what it does not set is as it was, or none now.
LEMMA EditedRow ==
  ASSUME CatOK(cat), NEW class \in Classes, NEW columns, Offers(class, columns), Edit(class, columns)
  PROVE  \E k \in Rows(class) : \E row :
           /\ RowOK(cat, k, row) /\ cat' = [cat EXCEPT ![k] = row]
           /\ \A m \in Columns(k) : \/ row[m] \in {None, cat[k][m]} /\ (row[m] = None => m \in columns \/ cat[k][m] = None)
                                    \/ m \in columns /\ row[m] \in Offered(k, cat[k], m)
<1>1. PICK k \in Rows(class), m \in columns :
        \E v \in Offered(k, cat[k], m) \cup (IF Column(k, m).must THEN {} ELSE {None}) :
          cat' = [cat EXCEPT ![k] =
                    [x \in DOMAIN cat[k] |->
                       CASE x = m -> v
                         [] x # m /\ x \in columns /\ cat[k][x] = Gone -> None
                         [] OTHER -> cat[k][x]]]
  BY DEF Edit
<1>2. PICK v \in Offered(k, cat[k], m) \cup (IF Column(k, m).must THEN {} ELSE {None}) :
          cat' = [cat EXCEPT ![k] =
                    [x \in DOMAIN cat[k] |->
                       CASE x = m -> v
                         [] x # m /\ x \in columns /\ cat[k][x] = Gone -> None
                         [] OTHER -> cat[k][x]]]
  BY <1>1
<1> DEFINE row == [x \in DOMAIN cat[k] |->
                     CASE x = m -> v
                       [] x # m /\ x \in columns /\ cat[k][x] = Gone -> None
                       [] OTHER -> cat[k][x]]
<1>3. k \in DOMAIN cat /\ k[1] = class /\ RowOK(cat, k, cat[k])
  BY TypedRows DEF Rows, RowsIn, CatOK
<1>4. v = None \/ (v \in DOMAIN cat /\ v[1] = Column(k, m).to)
  BY <1>2, OfferedIs DEF Offers
<1>5. ASSUME NEW x \in Columns(k)
      PROVE  row[x] = IF x = m THEN v ELSE IF x \in columns /\ cat[k][x] = Gone THEN None ELSE cat[k][x]
  BY <1>3 DEF RowOK
<1>6. cat' = [cat EXCEPT ![k] = row] /\ DOMAIN row = Columns(k)
  BY <1>2, <1>3 DEF RowOK
<1> HIDE DEF row
<1>7. RowOK(cat, k, row)
  <2>1. ASSUME NEW x \in Columns(k) PROVE Refers(cat, k, x, row[x])
    <3>1. (row[x] = v /\ x = m) \/ row[x] \in {None, cat[k][x]}
      BY <1>5
    <3> QED BY <1>3, <1>4, <3>1 DEF RowOK, Refers
  <2> QED BY <1>6, <2>1 DEF RowOK
<1>8. ASSUME NEW x \in Columns(k)
      PROVE  \/ row[x] \in {None, cat[k][x]} /\ (row[x] = None => x \in columns \/ cat[k][x] = None)
             \/ x \in columns /\ row[x] \in Offered(k, cat[k], x)
  BY <1>1, <1>2, <1>5
<1> QED
  BY <1>6, <1>7, <1>8

\* What Create and Edit are for: all columns but those that tell what a row is of.
Created(class, columns) ==
    /\ class \in Classes \ {"unique", "table", "field", "relation", "item", "workflow",
                            "permission", "fieldperm"}
    /\ Offers(class, columns)
    /\ class \in {"trigger", "sla", "feed"} => columns = {}

Edited(class, columns) ==
    /\ class \in Classes \ {"unique", "table", "field", "relation", "item", "workflow",
                            "permission", "fieldperm", "step"}
    /\ Offers(class, columns)
    /\ class \in {"trigger", "sla"} => "table_id" \notin columns
    /\ class = "feed" => "source_table_id" \notin columns

\* Rows that others hold on to.
Roots == {"source", "table", "field", "relation", "company", "role"}

Plainly ==
    \/ \E class \in Classes \ Roots : Delete(class)
    \/ \E class, columns : Created(class, columns) /\ Create(class, columns)
    \/ \E class, columns : Edited(class, columns) /\ Edit(class, columns)

\* Most of the one-row requests create, edit or delete a row, and nothing more.
LEMMA PlainShapes ==
  ASSUME \/ form_new \/ form_delete \/ form_item_delete
         \/ menu_new \/ menu_edit \/ menu_delete
         \/ dashboard_create \/ dashboard_delete \/ widget_add \/ widget_edit \/ widget_delete
         \/ view_save \/ view_delete
         \/ trigger_create \/ trigger_edit \/ trigger_delete
         \/ sla_policy_create \/ sla_policy_edit \/ sla_policy_delete
         \/ recurring_home \/ recurring_delete \/ maintenance_home \/ maintenance_delete
         \/ mailboxes_home \/ mailbox_edit \/ mailbox_delete
         \/ connection_create \/ connection_delete
         \/ feed_create \/ feed_edit \/ feed_delete
         \/ webhook_create \/ webhook_edit \/ webhook_delete
         \/ pull_create \/ pull_edit \/ pull_delete
         \/ report_save \/ report_delete \/ source_create
         \/ workflow_delete \/ approval_step_add \/ approval_step_delete
         \/ companies_home \/ company_edit
         \/ user_new \/ user_edit \/ user_delete \/ roles
  PROVE  Plainly
<1>1. \A class \in Classes \ Roots : Delete(class) => Plainly
  BY DEF Plainly
<1>2. \A class \in Classes \ {"unique", "table", "field", "relation", "item", "workflow",
                            "permission", "fieldperm"} : Create(class, {}) => Plainly
  BY DEF Plainly, Created, Offers
<1>3. \A class, columns :
        /\ Created(class, columns) /\ Create(class, columns) => Plainly
        /\ Edited(class, columns) /\ Edit(class, columns) => Plainly
  BY DEF Plainly
<1>4. /\ (form_delete => Plainly) /\ (form_item_delete => Plainly) /\ (menu_delete => Plainly)
      /\ (dashboard_delete => Plainly) /\ (widget_delete => Plainly)
  BY <1>1, ClassesAre DEF Roots, form_delete, form_item_delete, menu_delete, dashboard_delete, widget_delete
<1>5. /\ (view_delete => Plainly) /\ (trigger_delete => Plainly) /\ (sla_policy_delete => Plainly)
      /\ (recurring_delete => Plainly) /\ (maintenance_delete => Plainly)
  BY <1>1, ClassesAre DEF Roots, view_delete, trigger_delete, sla_policy_delete, recurring_delete,
     maintenance_delete
<1>6. /\ (mailbox_delete => Plainly) /\ (connection_delete => Plainly) /\ (feed_delete => Plainly)
      /\ (webhook_delete => Plainly) /\ (pull_delete => Plainly)
  BY <1>1, ClassesAre DEF Roots, mailbox_delete, connection_delete, feed_delete, webhook_delete, pull_delete
<1>7. /\ (report_delete => Plainly) /\ (workflow_delete => Plainly)
      /\ (approval_step_delete => Plainly) /\ (user_delete => Plainly)
  BY <1>1, ClassesAre DEF Roots, report_delete, workflow_delete, approval_step_delete, user_delete
<1>8. /\ (form_new => Plainly) /\ (dashboard_create => Plainly) /\ (view_save => Plainly)
      /\ (trigger_create => Plainly)
  <2>1. "form" \in Classes /\ "dashboard" \in Classes /\ "view" \in Classes /\ "trigger" \in Classes
    BY ClassesAre
  <2> QED BY <1>2, <2>1 DEF form_new, dashboard_create, view_save, trigger_create
<1>9. /\ (sla_policy_create => Plainly) /\ (recurring_home => Plainly)
      /\ (connection_create => Plainly) /\ (feed_create => Plainly)
  <2>1. "sla" \in Classes /\ "recurring" \in Classes /\ "connection" \in Classes /\ "feed" \in Classes
    BY ClassesAre
  <2> QED BY <1>2, <2>1 DEF sla_policy_create, recurring_home, connection_create,
     feed_create
<1>10. /\ (webhook_create => Plainly) /\ (pull_create => Plainly) /\ (report_save => Plainly)
      /\ (source_create => Plainly)
  <2>1. "webhook" \in Classes /\ "pull" \in Classes /\ "report" \in Classes /\ "source" \in Classes
    BY ClassesAre
  <2> QED BY <1>2, <2>1 DEF webhook_create, pull_create, report_save, source_create
<1>11. (roles => Plainly)
  <2>1. "role" \in Classes
    BY ClassesAre
  <2> QED BY <1>2, <2>1 DEF roles
<1>12. (menu_new => Plainly) /\ (menu_edit => Plainly)
  <2>1. "menu" \in Classes /\ Offers("menu", DOMAIN MetaMenu)
    BY ClassesAre, ModelIs DEF Offers, MetaMenu
  <2> QED BY <1>3, <2>1 DEF Created, Edited, menu_new, menu_edit
<1>13. (widget_add => Plainly) /\ (widget_edit => Plainly)
  <2>1. "widget" \in Classes /\ Offers("widget", {"table_id"})
    BY ClassesAre, ModelIs DEF Offers, DashboardWidget
  <2> QED BY <1>3, <2>1 DEF Created, Edited, widget_add, widget_edit
<1>14. (maintenance_home => Plainly)
  <2>1. "window" \in Classes /\ Offers("window", DOMAIN MaintenanceWindow)
    BY ClassesAre, ModelIs DEF Offers, MaintenanceWindow
  <2> QED BY <1>3, <2>1 DEF Created, Edited, maintenance_home
<1>15. (mailboxes_home => Plainly) /\ (mailbox_edit => Plainly)
  <2>1. "mailbox" \in Classes /\ Offers("mailbox", DOMAIN Mailbox)
    BY ClassesAre, ModelIs DEF Offers, Mailbox
  <2> QED BY <1>3, <2>1 DEF Created, Edited, mailboxes_home, mailbox_edit
<1>16. (trigger_edit => Plainly)
  <2>1. "trigger" \in Classes /\ Offers("trigger", DOMAIN TriggerRule \ {"table_id"})
    BY ClassesAre, ModelIs DEF Offers, TriggerRule
  <2> QED BY <1>3, <2>1 DEF Created, Edited, trigger_edit
<1>17. (sla_policy_edit => Plainly)
  <2>1. "sla" \in Classes /\ Offers("sla", DOMAIN SlaPolicy \ {"table_id"})
    BY ClassesAre, ModelIs DEF Offers, SlaPolicy
  <2> QED BY <1>3, <2>1 DEF Created, Edited, sla_policy_edit
<1>18. (feed_edit => Plainly)
  <2>1. "feed" \in Classes /\ Offers("feed", DOMAIN Feed \ {"source_table_id"})
    BY ClassesAre, ModelIs DEF Offers, Feed
  <2> QED BY <1>3, <2>1 DEF Created, Edited, feed_edit
<1>19. (webhook_edit => Plainly)
  <2>1. "webhook" \in Classes /\ Offers("webhook", {"user_id"})
    BY ClassesAre, ModelIs DEF Offers, Webhook
  <2> QED BY <1>3, <2>1 DEF Created, Edited, webhook_edit
<1>20. (pull_edit => Plainly)
  <2>1. "pull" \in Classes /\ Offers("pull", DOMAIN PullSource \ {"target_table_id"})
    BY ClassesAre, ModelIs DEF Offers, PullSource
  <2> QED BY <1>3, <2>1 DEF Created, Edited, pull_edit
<1>21. (approval_step_add => Plainly)
  <2>1. "step" \in Classes /\ Offers("step", {"approver_role", "approver_user_id"})
    BY ClassesAre, ModelIs DEF Offers, ApprovalStep
  <2> QED BY <1>3, <2>1 DEF Created, Edited, approval_step_add
<1>22. (companies_home => Plainly) /\ (company_edit => Plainly)
  <2>1. "company" \in Classes /\ Offers("company", DOMAIN Company)
    BY ClassesAre, ModelIs DEF Offers, Company
  <2> QED BY <1>3, <2>1 DEF Created, Edited, companies_home, company_edit
<1>23. (user_new => Plainly) /\ (user_edit => Plainly)
  <2>1. "user" \in Classes /\ Offers("user", {"company_id"}) /\ Offers("user", DOMAIN AppUser)
    BY ClassesAre, ModelIs DEF Offers, AppUser
  <2> QED BY <1>3, <2>1 DEF Created, Edited, user_new, user_edit
<1> QED
  BY <1>4, <1>5, <1>6, <1>7, <1>8, <1>9, <1>10, <1>11, <1>12, <1>13, <1>14, <1>15, <1>16,
     <1>17, <1>18, <1>19, <1>20, <1>21, <1>22, <1>23

\* A sane row is added.
LEMMA SaneWith ==
  ASSUME NEW c, CatOK(c), Sane(c), NEW k \in Keys, k[1] \notin {"field", "relation", "company"}, NEW row,
         RowOK(c, k, row), SaneRow(c, k, row)
  PROVE  Sane(With(c, k, row))
<1> DEFINE c2 == With(c, k, row)
<1>1. /\ DOMAIN c2 = DOMAIN c \cup {k} /\ c2[k] = row
      /\ \A x \in DOMAIN c2 : x # k => x \in DOMAIN c /\ c2[x] = c[x]
  BY DEF With
<1> HIDE DEF c2
<1>2. Typed(c) /\ None \notin DOMAIN c2 /\ Gone \notin DOMAIN c2
  BY <1>1, ForeignIs DEF CatOK, Typed
<1>3. DOMAIN c \subseteq DOMAIN c2
  BY <1>1
<1>4. Sane(c2)
  BY <1>1, <1>2, <1>3, SaneBeside
<1> QED BY <1>4 DEF c2

\* A sane row takes the place of another.
LEMMA SaneChange ==
  ASSUME NEW c, CatOK(c), Sane(c), NEW k \in DOMAIN c, k[1] \notin {"field", "relation", "company"}, NEW row,
         RowOK(c, k, row), SaneRow(c, k, row)
  PROVE  Sane([c EXCEPT ![k] = row])
<1> DEFINE c2 == [c EXCEPT ![k] = row]
<1>1. /\ DOMAIN c2 = DOMAIN c /\ c2[k] = row
      /\ \A x \in DOMAIN c2 : x # k => x \in DOMAIN c /\ c2[x] = c[x]
  OBVIOUS
<1> HIDE DEF c2
<1>2. Typed(c) /\ None \notin DOMAIN c2 /\ Gone \notin DOMAIN c2
  BY <1>1, ForeignIs DEF CatOK, Typed
<1>3. DOMAIN c \subseteq DOMAIN c2
  BY <1>1
<1>4. Sane(c2)
  BY <1>1, <1>2, <1>3, SaneBeside
<1> QED BY <1>4 DEF c2

\* Of the rows that others hold on to, only fields fall with another, their table.
LEMMA RootColumns ==
  ASSUME NEW k, k[1] \in Roots, NEW m \in Columns(k), Column(k, m).on = "cascade"
  PROVE  k[1] = "field" /\ m = "table_id"
<1>1. \A class : Id(class).on # "cascade" /\ Bare(class).on # "cascade"
  BY DEF Id, Bare
<1>2. k[1] \in {"table", "relation"} =>
        Column(k, m) \in {Id("field"), Id("source"), Bare("table")}
  BY CoreColumns
<1>3. k[1] = "field" => m = "table_id" \/ Column(k, m) = Id("table")
  BY CoreColumns
<1>4. k[1] = "company" => Column(k, m) = Id("company")
  BY ModelIs DEF Columns, Column, Company
<1>5. k[1] \notin {"source", "role"}
  BY ModelIs DEF Columns, DataSource, Role
<1> QED BY <1>1, <1>2, <1>3, <1>4, <1>5 DEF Roots

\* Of the rows that others hold on to, what was asked for falls, and the fields of a table.
LEMMA FallsOnly ==
  ASSUME NEW c, CatOK(c), NEW S \in SUBSET DOMAIN c
  PROVE  \A k \in Cascaded(c, S) :
           /\ k \in DOMAIN c
           /\ k \in S \/ k[1] \notin Roots \/ (k[1] = "field" /\ c[k].table_id \in S)
<1> DEFINE X == {k \in DOMAIN c : k \in S \/ k[1] \notin Roots \/ (k[1] = "field" /\ c[k].table_id \in S)}
<1>1. ASSUME NEW k \in DOMAIN c, NEW m \in Columns(k), Column(k, m).on = "cascade", c[k][m] \in X
      PROVE  k \in X
  <2>1. CASE k[1] \in Roots
    <3>1. k[1] = "field" /\ m = "table_id"
      BY <1>1, <2>1, RootColumns
    <3>2. RowOK(c, k, c[k])
      BY TypedRows DEF CatOK
    <3>3. c[k].table_id \in DOMAIN c
      BY <1>1, <3>1
    <3>4. c[k].table_id[1] = "table"
      <4>1. "table_id" \in Columns(k) /\ Column(k, "table_id").to = "table"
        BY <3>1, CoreColumns, KindsAre
      <4>2. None \notin DOMAIN c /\ Gone \notin DOMAIN c
        BY ForeignIs DEF CatOK, Typed
      <4> QED BY <3>2, <3>3, <4>1, <4>2 DEF RowOK, Refers
    <3>5. c[k].table_id \in S
      BY <1>1, <3>1, <3>4 DEF Roots
    <3> QED BY <3>1, <3>5
  <2>2. CASE k[1] \notin Roots
    BY <2>2
  <2> QED BY <2>1, <2>2
<1>2. S \subseteq X
  OBVIOUS
<1> HIDE DEF X
<1>3. Closed(c, X)
  BY <1>1 DEF Closed, Hangs
<1>4. Cascaded(c, S) \subseteq X
  BY <1>2, <1>3, CascadedIs DEF CatOK
<1> QED BY <1>4 DEF X

\* What is kept is of one of these classes.
LEMMA KeptTargets ==
  ASSUME NEW c, CatOK(c), NEW k \in DOMAIN c, NEW m, <<k[1], m>> \in KeptByRequests
  PROVE  /\ m \in Columns(k)
         /\ c[k][m] \in {None, Gone} \/ (c[k][m] \in DOMAIN c /\ c[k][m][1] = Column(k, m).to)
         /\ Column(k, m).to \in Roots
         /\ Column(k, m).to = "source" => k[1] = "table"
         /\ Column(k, m).to = "company" =>
              <<k[1], m>> \in {<<"company", "parent_id">>, <<"user", "company_id">>}
         /\ Column(k, m).to = "relation" => k[1] = "item" /\ m = "relation_id"
         /\ Column(k, m).to = "field" => k[1] = "relation" /\ m = "from_field_id"
         /\ Column(k, m).to = "table" => k[1] = "relation" /\ m \in {"from_table_id", "to_table_id"}
         /\ Column(k, m).to = "role" => k[1] \in {"user", "permission", "fieldperm"} /\ m = "role"
<1>1. m \in Columns(k)
  BY KeptColumns DEF Keeps, KeptByRequests
<1>2. RowOK(c, k, c[k])
  BY TypedRows DEF CatOK
<1>3. \A class : Id(class).to = class /\ Bare(class).to = class
  BY DEF Id, Bare
<1>4. k[1] = "table" => m = "source_id" /\ Column(k, m) = Id("source")
  BY CoreColumns DEF KeptByRequests
<1>5. k[1] = "relation" => \/ m = "from_field_id" /\ Column(k, m) = Id("field")
                           \/ m \in {"from_table_id", "to_table_id"} /\ Column(k, m) = Bare("table")
  BY CoreColumns DEF KeptByRequests
<1>6. k[1] = "item" => m = "relation_id" /\ Column(k, m) = Id("relation")
  BY MoreColumns DEF KeptByRequests
<1>7. k[1] \in {"permission", "fieldperm"} => m = "role" /\ Column(k, m) = Bare("role")
  BY MoreColumns DEF KeptByRequests
<1>8. k[1] = "user" => \/ m = "role" /\ Column(k, m) = Bare("role")
                       \/ m = "company_id" /\ Column(k, m) = Id("company")
  BY ModelIs DEF Column, AppUser, KeptByRequests
<1>9. k[1] = "company" => m = "parent_id" /\ Column(k, m) = Id("company")
  BY ModelIs DEF Column, Company, KeptByRequests
<1>10. k[1] \in {"table", "relation", "item", "permission", "fieldperm", "user", "company"}
  BY DEF KeptByRequests
<1>11. c[k][m] \in {None, Gone} \/ (c[k][m] \in DOMAIN c /\ c[k][m][1] = Column(k, m).to)
  BY <1>1, <1>2 DEF RowOK, Refers
<1>12. /\ k[1] = "table" => Column(k, m).to = "source"
       /\ k[1] = "relation" => \/ m = "from_field_id" /\ Column(k, m).to = "field"
                               \/ m \in {"from_table_id", "to_table_id"} /\ Column(k, m).to = "table"
       /\ k[1] = "item" => m = "relation_id" /\ Column(k, m).to = "relation"
       /\ k[1] \in {"permission", "fieldperm"} => m = "role" /\ Column(k, m).to = "role"
       /\ k[1] = "user" => \/ m = "role" /\ Column(k, m).to = "role"
                           \/ m = "company_id" /\ Column(k, m).to = "company"
       /\ k[1] = "company" => m = "parent_id" /\ Column(k, m).to = "company"
  BY <1>3, <1>4, <1>5, <1>6, <1>7, <1>8, <1>9
<1>13. Column(k, m).to \in Roots
  BY <1>10, <1>12 DEF Roots
<1>14. /\ Column(k, m).to = "source" => k[1] = "table"
       /\ Column(k, m).to = "company" =>
            <<k[1], m>> \in {<<"company", "parent_id">>, <<"user", "company_id">>}
       /\ Column(k, m).to = "relation" => k[1] = "item" /\ m = "relation_id"
       /\ Column(k, m).to = "field" => k[1] = "relation" /\ m = "from_field_id"
       /\ Column(k, m).to = "table" => k[1] = "relation" /\ m \in {"from_table_id", "to_table_id"}
       /\ Column(k, m).to = "role" => k[1] \in {"user", "permission", "fieldperm"} /\ m = "role"
  BY <1>10, <1>12
<1> QED BY <1>1, <1>11, <1>13, <1>14

\* Nothing that is left keeps a reference to what a request deletes.
Free(c, S) ==
    /\ \A k \in DOMAIN c \ S : \A m : <<k[1], m>> \in KeptByRequests =>
         /\ c[k][m] \notin S
         /\ c[k][m] \in RowsIn(c, "field") => c[c[k][m]].table_id \notin S
    /\ \A r \in RowsIn(c, "relation") \cap S : c[r].from_field_id \notin DOMAIN c \ S

\* What nothing keeps is released.
LEMMA FreeReleased ==
  ASSUME NEW c, CatOK(c), NEW S \in SUBSET DOMAIN c, Free(c, S)
  PROVE  Released(c, Cascaded(c, S))
<1> DEFINE F == Cascaded(c, S)
<1>1. S \subseteq F
  BY CascadedIs DEF CatOK
<1>2. \A k \in F : /\ k \in DOMAIN c
                   /\ k \in S \/ k[1] \notin Roots \/ (k[1] = "field" /\ c[k].table_id \in S)
  BY FallsOnly
<1> HIDE DEF F
<1>3. ASSUME NEW k \in DOMAIN c \ F, NEW m, <<k[1], m>> \in KeptByRequests, c[k][m] \in F PROVE FALSE
  <2>1. c[k][m] \notin S /\ (c[k][m] \in RowsIn(c, "field") => c[c[k][m]].table_id \notin S)
    BY <1>1, <1>3 DEF Free
  <2>2. c[k][m] \in DOMAIN c /\ None \notin DOMAIN c /\ Gone \notin DOMAIN c
    BY <1>2, <1>3, ForeignIs DEF CatOK, Typed
  <2>3. c[k][m][1] \in Roots
    BY <1>3, <2>2, KeptTargets
  <2> QED BY <1>2, <1>3, <2>1, <2>2, <2>3 DEF RowsIn
<1>4. ASSUME NEW r \in RowsIn(c, "relation") \cap F PROVE c[r].from_field_id \notin DOMAIN c \ F
  <2>1. r \in S
    BY <1>2, <1>4 DEF RowsIn, Roots
  <2>2. c[r].from_field_id \notin DOMAIN c \ S
    BY <1>4, <2>1 DEF Free
  <2> QED BY <1>1, <2>2
<1> QED BY <1>3, <1>4 DEF Released, F

\* What nothing keeps may be deleted.
LEMMA SaneDeleted ==
  ASSUME NEW c, CatOK(c), Sane(c), NEW S \in SUBSET DOMAIN c, Free(c, S)
  PROVE  Sane(Without(c, S))
  BY FreeReleased, SaneLess

\* What is below a company is in its subtree, and so is the company.
LEMMA SubtreeIs ==
  ASSUME CatOK(cat), NEW r
  PROVE  r \in Subtree(r) /\ \A k \in Rows("company") : cat[k].parent_id \in Subtree(r) => k \in Subtree(r)
<1> DEFINE D == Rows("company")
           N == Cardinality(D)
           U == SUBSET ({r} \cup D)
           More(X) == X \cup {k \in D : cat[k].parent_id \in X}
           step == [X \in U |-> More(X)]
           Walk(f) == f = [n \in 0 .. N |->
                             IF n = 0 THEN {r}
                             ELSE f[n - 1] \cup {k \in D : cat[k].parent_id \in f[n - 1]}]
           down == CHOOSE f : Walk(f)
<1>1. IsFiniteSet(D) /\ N \in Nat
  <2>1. D \in SUBSET DOMAIN cat
    BY DEF Rows, RowsIn
  <2> QED BY <2>1, FS_Subset, FS_CardinalityType DEF CatOK
<1>2. step \in [U -> U] /\ {r} \in U
  OBVIOUS
<1>3. PICK g : IsWalk(g, U, step, {r}, N)
  <2> HIDE DEF step, U, N, D
  <2> QED BY <1>1, <1>2, WalkExists
<1>4. Walk(g)
  <2>1. \A i \in 0 .. N : i # 0 => i - 1 \in 0 .. N
    BY <1>1
  <2> HIDE DEF N
  <2>2. /\ \A i \in 0 .. N : g[i] = IF i = 0 THEN {r} ELSE step[g[i - 1]]
        /\ g \in [0 .. N -> U] /\ \A i \in 0 .. N : g[i] \in U
    <3> HIDE DEF step, U, D
    <3> QED BY <1>3 DEF IsWalk
  <2>3. \A i \in 0 .. N : i # 0 => g[i] = g[i - 1] \cup {k \in D : cat[k].parent_id \in g[i - 1]}
    BY <2>1, <2>2
  <2> HIDE DEF U, step, D
  <2> QED BY <2>2, <2>3
<1>5. Walk(down)
  BY <1>4
<1>6. Subtree(r) = down[N]
  BY DEF Subtree
<1>7. PICK f : f = down
  OBVIOUS
<1>8. /\ f[0] = {r}
      /\ \A i \in 0 .. N : i # 0 => i - 1 \in 0 .. N
      /\ \A i \in 0 .. N : i # 0 => f[i] = More(f[i - 1])
  <2>1. f = [n \in 0 .. N |-> IF n = 0 THEN {r}
                             ELSE f[n - 1] \cup {k \in D : cat[k].parent_id \in f[n - 1]}]
    BY <1>5, <1>7
  <2> HIDE DEF N, D, down
  <2>2. \A i \in 0 .. N : f[i] = IF i = 0 THEN {r}
                              ELSE f[i - 1] \cup {k \in D : cat[k].parent_id \in f[i - 1]}
    BY <2>1
  <2>3. 0 \in 0 .. N /\ \A i \in 0 .. N : i # 0 => i - 1 \in 0 .. N
    BY <1>1
  <2> QED BY <2>2, <2>3
<1> HIDE DEF Walk, down, N, D
<1>9. \A i \in 0 .. N : f[i] \in {X \in U : r \in X}
  <2> DEFINE Y == {X \in U : r \in X}
  <2>1. \A i \in 0 .. N : i # 0 /\ f[i - 1] \in Y => f[i] \in Y
    BY <1>8
  <2>2. f[0] \in Y
    BY <1>8
  <2> HIDE DEF Y
  <2>3. \A i \in 0 .. N : f[i] \in Y
    BY <1>1, <2>1, <2>2, WalkStays
  <2> QED BY <2>3 DEF Y
<1>10. \A i \in 0 .. N : i # 0 => f[i] = step[f[i - 1]]
  BY <1>8, <1>9
<1>11. step[f[N]] = f[N]
  <2>1. \A i \in 0 .. N : f[i] \subseteq step[f[i]] /\ step[f[i]] \subseteq f[i] \cup D
    BY <1>9
  <2>2. IsFiniteSet(D) /\ N = Cardinality(D)
    BY <1>1 DEF N
  <2> HIDE DEF step
  <2> QED BY <1>10, <2>1, <2>2, GrowthEnds
<1>12. N \in 0 .. N /\ Subtree(r) = f[N] /\ f[N] \in U /\ r \in f[N]
  BY <1>1, <1>6, <1>7, <1>9
<1>13. More(f[N]) = f[N]
  BY <1>11, <1>12
<1> QED BY <1>12, <1>13 DEF D

\* A company takes its place below one that is not below it.
LEMMA CompanyMoves ==
  ASSUME CatOK(cat), Sane(cat), NEW k \in Rows("company"), NEW row, RowOK(cat, k, row),
         row.parent_id \in {None, cat[k].parent_id} \/ row.parent_id \in Rows("company") \ Subtree(k)
  PROVE  NoCycle([cat EXCEPT ![k] = row])
<1> DEFINE c2 == [cat EXCEPT ![k] = row]
<1>1. /\ k \in DOMAIN cat /\ k[1] = "company" /\ DOMAIN c2 = DOMAIN cat /\ c2[k] = row
      /\ \A x \in DOMAIN c2 : x # k => c2[x] = cat[x]
  BY DEF Rows, RowsIn
<1> HIDE DEF c2
<1>2. SUFFICES ASSUME NEW S \in SUBSET RowsIn(c2, "company"), S # {}, \A x \in S : c2[x].parent_id \in S
               PROVE  FALSE
  BY DEF NoCycle, c2
<1>3. S \in SUBSET RowsIn(cat, "company") /\ None \notin S
  BY <1>1, ForeignIs DEF RowsIn, CatOK, Typed
<1>4. \A T \in SUBSET RowsIn(cat, "company") : T # {} => \E x \in T : cat[x].parent_id \notin T
  BY DEF Sane, NoCycle
<1>5. CASE k \notin S \/ row.parent_id = cat[k].parent_id
  <2>1. \A x \in S : cat[x].parent_id \in S
    BY <1>1, <1>2, <1>5 DEF RowsIn
  <2> QED BY <1>2, <1>3, <1>4, <2>1
<1>6. CASE k \in S /\ row.parent_id # cat[k].parent_id
  <2> DEFINE T == S \ Subtree(k)
  <2>1. row.parent_id \in S /\ row.parent_id \notin Subtree(k)
    BY <1>1, <1>2, <1>3, <1>6
  <2>2. k \in Subtree(k) /\ \A x \in Rows("company") : cat[x].parent_id \in Subtree(k) => x \in Subtree(k)
    BY SubtreeIs
  <2>3. ASSUME NEW x \in T PROVE cat[x].parent_id \in T
    <3>1. x # k /\ x \in Rows("company") /\ cat[x].parent_id \in S
      BY <1>1, <1>2, <1>3, <2>2 DEF RowsIn, Rows
    <3> QED BY <2>2, <3>1
  <2>4. T # {} /\ T \in SUBSET RowsIn(cat, "company")
    BY <1>3, <2>1
  <2> HIDE DEF T
  <2> QED BY <1>4, <2>3, <2>4
<1> QED BY <1>5, <1>6

\* A company that moves leaves the catalogue sane.
LEMMA SaneCompany ==
  ASSUME CatOK(cat), Sane(cat), NEW k \in Rows("company"), NEW row, RowOK(cat, k, row),
         row.parent_id \in {None, cat[k].parent_id} \/ row.parent_id \in Rows("company") \ Subtree(k)
  PROVE  Sane([cat EXCEPT ![k] = row])
<1> DEFINE c2 == [cat EXCEPT ![k] = row]
<1>1. NoCycle(c2)
  BY CompanyMoves
<1>2. /\ k \in DOMAIN cat /\ k[1] = "company" /\ DOMAIN c2 = DOMAIN cat /\ c2[k] = row
      /\ \A x \in DOMAIN c2 : x # k => c2[x] = cat[x]
  BY DEF Rows, RowsIn
<1> HIDE DEF c2
<1>3. Typed(cat) /\ None \notin DOMAIN cat /\ Gone \notin DOMAIN cat
  BY ForeignIs DEF CatOK, Typed
<1>4. Grows(cat, c2)
  BY <1>2, <1>3 DEF Grows, Joined
<1>5. OneRelation(c2)
  <2>1. RowsIn(c2, "relation") \subseteq DOMAIN cat
    BY <1>2 DEF RowsIn
  <2> QED BY <1>3, <1>4, <2>1, SameRelations DEF Sane
<1>6. SaneRow(c2, k, row)
  <2>1. cat[k].parent_id # Gone
    BY <1>2 DEF Sane, SaneRow
  <2>2. row.parent_id # Gone
    BY <1>3, <2>1, ForeignIs DEF Rows, RowsIn
  <2> QED BY <1>2, <2>2 DEF SaneRow
<1>7. Sane(c2)
  BY <1>1, <1>2, <1>3, <1>4, <1>5, <1>6, SaneGrown
<1> QED BY <1>7 DEF c2

\* A new company has none below it.
LEMMA SaneNewCompany ==
  ASSUME NEW c, CatOK(c), Sane(c), NEW k \in Keys \ DOMAIN c, k[1] = "company", NEW row,
         RowOK(c, k, row), row.parent_id \in DOMAIN c \cup {None}
  PROVE  Sane(With(c, k, row))
<1> DEFINE c2 == With(c, k, row)
<1>1. /\ DOMAIN c2 = DOMAIN c \cup {k} /\ c2[k] = row
      /\ \A x \in DOMAIN c2 : x # k => x \in DOMAIN c /\ c2[x] = c[x]
  BY DEF With
<1> HIDE DEF c2
<1>2. Typed(c) /\ None \notin DOMAIN c2 /\ Gone \notin DOMAIN c2
  BY <1>1, ForeignIs DEF CatOK, Typed
<1>3. Grows(c, c2)
  BY <1>1, <1>2 DEF Grows, Joined
<1>4. OneRelation(c2)
  <2>1. RowsIn(c2, "relation") \subseteq DOMAIN c
    BY <1>1 DEF RowsIn
  <2> QED BY <1>2, <1>3, <2>1, SameRelations DEF Sane
<1>5. NoCycle(c2)
  <2>1. SUFFICES ASSUME NEW S \in SUBSET RowsIn(c2, "company"), S # {},
                        \A x \in S : c2[x].parent_id \in S
                 PROVE  FALSE
    BY DEF NoCycle
  <2> DEFINE T == S \ {k}
  <2>2. T \in SUBSET RowsIn(c, "company")
    BY <1>1 DEF RowsIn
  <2>3. T # {}
    <3>1. k \in S => row.parent_id \in S /\ row.parent_id # k
      BY <1>1, <1>2, <2>1
    <3> QED BY <2>1, <3>1
  <2>4. ASSUME NEW x \in T PROVE c[x].parent_id \in T
    <3>1. x \in DOMAIN c /\ x[1] = "company" /\ c2[x] = c[x]
      BY <1>1, <2>2 DEF RowsIn
    <3>2. RowOK(c, x, c[x])
      BY <1>2, <3>1, TypedRows
    <3>3. "parent_id" \in Columns(x)
      BY <3>1, ModelIs DEF Columns, Company
    <3>4. c[x].parent_id \in DOMAIN c \cup {None, Gone}
      BY <3>2, <3>3 DEF RowOK, Refers
    <3>5. c[x].parent_id \in S
      BY <2>1, <3>1
    <3>6. S \subseteq DOMAIN c2
      BY DEF RowsIn
    <3> QED BY <1>2, <3>4, <3>5, <3>6
  <2> HIDE DEF T
  <2> QED BY <2>2, <2>3, <2>4 DEF Sane, NoCycle
<1>6. SaneRow(c2, k, row)
  <2>1. row.parent_id # Gone
    BY <1>1, <1>2, ForeignIs
  <2> QED BY <2>1 DEF SaneRow
<1>7. Sane(c2)
  BY <1>1, <1>2, <1>3, <1>4, <1>5, <1>6, SaneGrown
<1> QED BY <1>7 DEF c2

\* A deletion of a row that no other holds on to.
LEMMA SaneDelete ==
  ASSUME CatOK(cat), Sane(cat), NEW k \in DOMAIN cat, k[1] \notin Roots
  PROVE  Sane(Without(cat, {k}))
<1>1. ASSUME NEW x \in DOMAIN cat, NEW m, <<x[1], m>> \in KeptByRequests
      PROVE  /\ cat[x][m] # k
             /\ cat[x][m] \in RowsIn(cat, "field") => cat[cat[x][m]].table_id # k
  <2>1. cat[x][m] # k
    <3>1. k # None /\ k # Gone
      BY ForeignIs DEF CatOK, Typed
    <3>2. cat[x][m] \in {None, Gone} \/ cat[x][m][1] \in Roots
      BY <1>1, KeptTargets
    <3> QED BY <3>1, <3>2
  <2>2. ASSUME cat[x][m] \in RowsIn(cat, "field") PROVE cat[cat[x][m]].table_id # k
    <3>1. PICK f \in DOMAIN cat : f = cat[x][m] /\ f[1] = "field"
      BY <2>2 DEF RowsIn
    <3>2. RowOK(cat, f, cat[f]) /\ k # None /\ k # Gone
      BY TypedRows, ForeignIs DEF CatOK, Typed
    <3>3. Refers(cat, f, "table_id", cat[f].table_id)
      BY <3>1, <3>2, CoreColumns DEF RowOK
    <3>4. Column(f, "table_id").to = "table"
      BY <3>1, CoreColumns DEF Key
    <3> QED BY <3>1, <3>2, <3>3, <3>4 DEF Refers, Roots
  <2> QED BY <2>1, <2>2
<1>2. RowsIn(cat, "relation") \cap {k} = {}
  BY DEF RowsIn, Roots
<1>3. Free(cat, {k})
  BY <1>1, <1>2 DEF Free
<1> QED BY <1>3, SaneDeleted

\* The plain requests, by their shapes.
LEMMA SanePlainDelete ==
  ASSUME CatOK(cat), Sane(cat), NEW class \in Classes \ Roots, Delete(class)
  PROVE  Sane(cat')
<1>1. PICK k \in Rows(class) : cat' = Without(cat, {k})
  BY DEF Delete
<1>2. k \in DOMAIN cat /\ k[1] \notin Roots
  BY <1>1 DEF Rows, RowsIn
<1> QED BY <1>1, <1>2, SaneDelete

\* Columns that have to be given.
LEMMA Required ==
  /\ "workflow_id" \in Musts("step")
  /\ Musts("trigger") = {"table_id"} /\ Musts("sla") = {"table_id"}
  /\ Musts("feed") = {"source_table_id", "connection_id"}
<1>. \A class : Key(class).must /\ ~ Id(class).must BY DEF Key, Id
<1> HIDE DEF Key, Id
<1>1. "workflow_id" \in Musts("step")
  BY ModelIs DEF Musts, ApprovalStep
<1>2. Musts("trigger") = {"table_id"}
  BY ModelIs DEF Musts, TriggerRule
<1>3. Musts("sla") = {"table_id"}
  BY ModelIs DEF Musts, SlaPolicy
<1>4. Musts("feed") = {"source_table_id", "connection_id"}
  BY ModelIs DEF Musts, Feed
<1> QED BY <1>1, <1>2, <1>3, <1>4

\* The columns of steps, users and companies.
LEMMA StepColumns ==
  ASSUME NEW k
  PROVE  /\ k[1] = "step" => "workflow_id" \in Columns(k)
         /\ k[1] = "user" => Columns(k) = {"role", "company_id"}
         /\ k[1] = "company" => Columns(k) = {"parent_id"}
  BY ModelIs DEF Columns, ApprovalStep, AppUser, Company

\* A new row is sane: the columns it could be wrong about are none.
LEMMA SanePlainCreate ==
  ASSUME CatOK(cat), Sane(cat), topic.each \in Nat, NEW class, NEW columns, Created(class, columns),
         Create(class, columns)
  PROVE  Sane(cat')
<1>0. PICK k \in Keys \ DOMAIN cat : \E row :
           /\ k[1] = class /\ RowOK(cat, k, row) /\ cat' = With(cat, k, row)
           /\ \A m \in Columns(k) :
                /\ row[m] \in DOMAIN cat \cup {None}
                /\ m \notin Musts(class) \cup columns => row[m] = None
                /\ m \in Musts(class) => row[m] \in DOMAIN cat
  BY CreatedRow DEF Created
<1>1. PICK row :
           /\ k \in Keys \ DOMAIN cat
           /\ k[1] = class /\ RowOK(cat, k, row) /\ cat' = With(cat, k, row)
           /\ \A m \in Columns(k) :
                /\ row[m] \in DOMAIN cat \cup {None}
                /\ m \notin Musts(class) \cup columns => row[m] = None
                /\ m \in Musts(class) => row[m] \in DOMAIN cat
  BY <1>0
<1>2. None \notin DOMAIN cat /\ Gone \notin DOMAIN cat /\ None # Gone
  BY ForeignIs DEF CatOK, Typed
<1>3. CASE class = "company"
  <2>1. row.parent_id \in DOMAIN cat \cup {None}
    BY <1>1, <1>3, StepColumns
  <2> QED BY <1>1, <1>3, <2>1, SaneNewCompany
<1>4. CASE class # "company"
  <2>1. class = "step" => row.workflow_id # None
    BY <1>1, <1>2, Required, StepColumns
  <2>2. class = "user" => row.role # Gone /\ row.company_id # Gone
    BY <1>1, <1>2, StepColumns
  <2>3. class = "trigger" =>
          \A m \in {"field_id", "cond_field_id", "set_field_id"} : FieldOf(cat, row[m], row.table_id)
    <3>1. ASSUME class = "trigger", NEW m \in {"field_id", "cond_field_id", "set_field_id"}
          PROVE  row[m] = None
      <4>1. m \in Columns(k) /\ m \notin Musts(class) \cup columns
        BY <1>1, <3>1, Required, FieldColumns DEF Created
      <4> QED BY <1>1, <4>1
    <3> QED BY <1>2, <3>1 DEF FieldOf
  <2>4. class = "sla" =>
          \A m \in {"status_field_id", "cond_field_id", "state_field_id", "due_field_id",
                    "breach_set_field_id"} : FieldOf(cat, row[m], row.table_id)
    <3>1. ASSUME class = "sla",
                 NEW m \in {"status_field_id", "cond_field_id", "state_field_id", "due_field_id",
                            "breach_set_field_id"}
          PROVE  row[m] = None
      <4>1. m \in Columns(k) /\ m \notin Musts(class) \cup columns
        BY <1>1, <3>1, Required, FieldColumns DEF Created
      <4> QED BY <1>1, <4>1
    <3> QED BY <1>2, <3>1 DEF FieldOf
  <2>5. class = "feed" =>
          \A m \in {"field_id", "cond_field_id"} : FieldOf(cat, row[m], row.source_table_id)
    <3>1. ASSUME class = "feed", NEW m \in {"field_id", "cond_field_id"}
          PROVE  row[m] = None
      <4>1. m \in Columns(k) /\ m \notin Musts(class) \cup columns
        BY <1>1, <3>1, Required, FieldColumns DEF Created
      <4> QED BY <1>1, <4>1
    <3> QED BY <1>2, <3>1 DEF FieldOf
  <2>6. class \notin {"unique", "table", "field", "relation", "item", "workflow",
                      "permission", "fieldperm"}
    BY DEF Created
  <2>7. SaneRow(cat, k, row)
    BY <1>1, <1>4, <2>1, <2>2, <2>3, <2>4, <2>5, <2>6 DEF SaneRow
  <2> QED BY <1>1, <1>4, <2>6, <2>7, SaneWith
<1> QED BY <1>3, <1>4

\* An edited row is sane: a page offers the fields of the row's table only.
LEMMA SanePlainEdit ==
  ASSUME CatOK(cat), Sane(cat), NEW class, NEW columns, Edited(class, columns), Edit(class, columns)
  PROVE  Sane(cat')
<1>0. PICK k \in Rows(class) : \E row :
           /\ RowOK(cat, k, row) /\ cat' = [cat EXCEPT ![k] = row]
           /\ \A m \in Columns(k) :
                \/ row[m] \in {None, cat[k][m]} /\ (row[m] = None => m \in columns \/ cat[k][m] = None)
                \/ m \in columns /\ row[m] \in Offered(k, cat[k], m)
  BY EditedRow DEF Edited
<1>1. PICK row :
           /\ k \in Rows(class)
           /\ RowOK(cat, k, row) /\ cat' = [cat EXCEPT ![k] = row]
           /\ \A m \in Columns(k) :
                \/ row[m] \in {None, cat[k][m]} /\ (row[m] = None => m \in columns \/ cat[k][m] = None)
                \/ m \in columns /\ row[m] \in Offered(k, cat[k], m)
  BY <1>0
<1>2. None \notin DOMAIN cat /\ Gone \notin DOMAIN cat /\ None # Gone
  BY ForeignIs DEF CatOK, Typed
<1>3. k \in DOMAIN cat /\ k[1] = class
  BY <1>1 DEF Rows, RowsIn
<1>4. SaneRow(cat, k, cat[k])
  BY <1>3 DEF Sane
<1>5. columns \cap {"filter_field_id", "to_display_field_ids"} = {}
  BY DEF Edited, Offers
<1>6. CASE class = "company"
  <2>1. "parent_id" \in Columns(k)
    BY <1>3, <1>6, StepColumns
  <2>2. Column(k, "parent_id").to = "company"
    BY <1>3, <1>6, ModelIs DEF Column, Company, Id
  <2>3. Offered(k, cat[k], "parent_id") = Rows("company") \ Subtree(k)
    BY <1>3, <1>6, <2>2 DEF Offered
  <2>4. row.parent_id \in {None, cat[k].parent_id} \/ row.parent_id \in Rows("company") \ Subtree(k)
    BY <1>1, <2>1, <2>3
  <2> QED BY <1>1, <1>6, <2>4, SaneCompany
<1>7. CASE class # "company"
  <2>1. ASSUME NEW m, m \in Columns(k), m \in columns, row[m] \in Offered(k, cat[k], m) PROVE row[m] \in DOMAIN cat
    BY <1>5, <2>1, OfferedIs
  <2>2. class = "user" => row.role # Gone /\ row.company_id # Gone
    <3>1. class = "user" => cat[k].role # Gone /\ cat[k].company_id # Gone
      BY <1>3, <1>4 DEF SaneRow
    <3> QED BY <1>1, <1>2, <1>3, <2>1, <3>1, StepColumns
  <2>3. ASSUME NEW m, m \in Columns(k), Column(k, m).to = "field", class \in {"trigger", "sla", "feed"},
               FieldOf(cat, cat[k][m], TableOf(k, cat[k]))
        PROVE  FieldOf(cat, row[m], TableOf(k, cat[k]))
    <3>1. CASE row[m] \in {None, cat[k][m]}
      BY <1>2, <2>3, <3>1 DEF FieldOf
    <3>2. CASE m \in columns /\ row[m] \in Offered(k, cat[k], m)
      <4>1. row[m] \in FieldsOf(TableOf(k, cat[k]))
        BY <1>3, <1>5, <2>3, <3>2 DEF Offered
      <4> QED BY <4>1 DEF FieldsOf, FieldsIn, FieldOf
    <3> QED BY <1>1, <2>3, <3>1, <3>2
  <2>4. class \in {"trigger", "sla"} => TableOf(k, cat[k]) = cat[k].table_id /\ row.table_id = cat[k].table_id
    <3>1. ASSUME class \in {"trigger", "sla"} PROVE row.table_id = cat[k].table_id
      <4>1. "table_id" \in Columns(k) /\ "table_id" \notin columns
        BY <1>3, <3>1, ModelIs DEF Columns, TriggerRule, SlaPolicy, Edited
      <4> QED BY <1>1, <4>1
    <3> QED BY <1>3, <3>1 DEF TableOf
  <2>5. class = "feed" => TableOf(k, cat[k]) = cat[k].source_table_id /\ row.source_table_id = cat[k].source_table_id
    <3>1. ASSUME class = "feed" PROVE row.source_table_id = cat[k].source_table_id
      <4>1. "source_table_id" \in Columns(k) /\ "source_table_id" \notin columns
        BY <1>3, <3>1, ModelIs DEF Columns, Feed, Edited
      <4> QED BY <1>1, <4>1
    <3> QED BY <1>3, <3>1 DEF TableOf
  <2>6. class = "trigger" =>
          \A m \in {"field_id", "cond_field_id", "set_field_id"} : FieldOf(cat, row[m], row.table_id)
    <3>1. ASSUME class = "trigger", NEW m \in {"field_id", "cond_field_id", "set_field_id"}
          PROVE  FieldOf(cat, row[m], row.table_id)
      <4>1. m \in Columns(k) /\ Column(k, m).to = "field"
        BY <1>3, <3>1, FieldColumns
      <4>2. FieldOf(cat, cat[k][m], TableOf(k, cat[k]))
        BY <1>3, <1>4, <2>4, <3>1 DEF SaneRow
      <4> QED BY <2>3, <2>4, <3>1, <4>1, <4>2
    <3> QED BY <3>1
  <2>7. class = "sla" =>
          \A m \in {"status_field_id", "cond_field_id", "state_field_id", "due_field_id",
                    "breach_set_field_id"} : FieldOf(cat, row[m], row.table_id)
    <3>1. ASSUME class = "sla",
                 NEW m \in {"status_field_id", "cond_field_id", "state_field_id", "due_field_id",
                            "breach_set_field_id"}
          PROVE  FieldOf(cat, row[m], row.table_id)
      <4>1. m \in Columns(k) /\ Column(k, m).to = "field"
        BY <1>3, <3>1, FieldColumns
      <4>2. FieldOf(cat, cat[k][m], TableOf(k, cat[k]))
        BY <1>3, <1>4, <2>4, <3>1 DEF SaneRow
      <4> QED BY <2>3, <2>4, <3>1, <4>1, <4>2
    <3> QED BY <3>1
  <2>8. class = "feed" =>
          \A m \in {"field_id", "cond_field_id"} : FieldOf(cat, row[m], row.source_table_id)
    <3>1. ASSUME class = "feed", NEW m \in {"field_id", "cond_field_id"}
          PROVE  FieldOf(cat, row[m], row.source_table_id)
      <4>1. m \in Columns(k) /\ Column(k, m).to = "field"
        BY <1>3, <3>1, FieldColumns
      <4>2. FieldOf(cat, cat[k][m], TableOf(k, cat[k]))
        BY <1>3, <1>4, <2>5, <3>1 DEF SaneRow
      <4> QED BY <2>3, <2>5, <3>1, <4>1, <4>2
    <3> QED BY <3>1
  <2>9. class \notin {"unique", "table", "field", "relation", "item", "workflow",
                      "permission", "fieldperm", "step"}
    BY DEF Edited
  <2>10. SaneRow(cat, k, row)
    BY <1>3, <1>7, <2>2, <2>6, <2>7, <2>8, <2>9 DEF SaneRow
  <2> QED BY <1>1, <1>3, <1>7, <2>9, <2>10, SaneChange
<1> QED BY <1>6, <1>7

\* The plain requests together.
LEMMA SanePlain ==
  ASSUME CatOK(cat), Sane(cat), topic.each \in Nat, Plainly
  PROVE  Sane(cat')
<1>1. CASE \E class \in Classes \ Roots : Delete(class)
  BY <1>1, SanePlainDelete
<1>2. CASE \E class, columns : Created(class, columns) /\ Create(class, columns)
  BY <1>2, SanePlainCreate
<1>3. CASE \E class, columns : Edited(class, columns) /\ Edit(class, columns)
  BY <1>3, SanePlainEdit
<1> QED BY <1>1, <1>2, <1>3 DEF Plainly

\* The rows that are added all at once are the ones that were asked for.
LEMMA WithAllRows ==
  ASSUME NEW c, topic.each \in Nat, NEW class \in Classes, NEW rows,
         IsFiniteSet(rows), Cardinality(rows) <= Cardinality(FreeKeys(c, class))
  PROVE  LET d == WithAll(c, class, rows) IN
         /\ DOMAIN c \subseteq DOMAIN d /\ \A k \in DOMAIN c : d[k] = c[k]
         /\ \A k \in DOMAIN d \ DOMAIN c : k \in Keys /\ k[1] = class /\ d[k] \in rows
<1> DEFINE key == CHOOSE f \in [rows -> FreeKeys(c, class)] : IsInjective(f)
           d == WithAll(c, class, rows)
<1>1. \A k \in FreeKeys(c, class) : k \in Keys /\ k[1] = class /\ k \notin DOMAIN c
  BY DEF FreeKeys, Keys
<1>2. IsFiniteSet(FreeKeys(c, class))
  BY FreeFinite
<1>3. key \in [rows -> FreeKeys(c, class)] /\ IsInjective(key)
  BY <1>2, Injects
<1>4. d = [k \in DOMAIN c \cup Range(key) |->
             IF k \in DOMAIN c THEN c[k] ELSE CHOOSE row \in rows : key[row] = k]
  BY DEF WithAll
<1> HIDE DEF key, d
<1>5. DOMAIN d = DOMAIN c \cup Range(key) /\ \A k \in DOMAIN c : d[k] = c[k]
  BY <1>4
<1>6. ASSUME NEW k \in DOMAIN d, k \notin DOMAIN c
      PROVE  k \in Keys /\ k[1] = class /\ d[k] \in rows
  <2>1. \E row \in rows : key[row] = k
    BY <1>3, <1>5, <1>6 DEF Range
  <2>2. k \in FreeKeys(c, class)
    BY <1>3, <2>1
  <2>3. d[k] \in rows
    BY <1>4, <1>6, <2>1
  <2> QED BY <1>1, <2>2, <2>3
<1> QED
  BY <1>5, <1>6 DEF d

\* Several sane rows are added.
LEMMA SaneWithAll ==
  ASSUME NEW c, CatOK(c), Sane(c), topic.each \in Nat,
         NEW class \in Classes \ {"unique", "field", "relation", "company"}, NEW rows,
         IsFiniteSet(rows), Cardinality(rows) <= Cardinality(FreeKeys(c, class)),
         \A row \in rows : \A k : k[1] = class => RowOK(c, k, row) /\ SaneRow(c, k, row)
  PROVE  Sane(WithAll(c, class, rows))
<1> DEFINE d == WithAll(c, class, rows)
<1>1. /\ DOMAIN c \subseteq DOMAIN d /\ \A k \in DOMAIN c : d[k] = c[k]
      /\ \A k \in DOMAIN d \ DOMAIN c : k \in Keys /\ k[1] = class /\ d[k] \in rows
  BY WithAllRows
<1> HIDE DEF d
<1>2. Typed(c) /\ None \notin DOMAIN d /\ Gone \notin DOMAIN d
  BY <1>1, ForeignIs DEF CatOK, Typed
<1>3. ASSUME NEW k \in DOMAIN d
      PROVE  \/ k \in DOMAIN c /\ d[k] = c[k]
             \/ /\ k[1] \notin {"field", "relation", "company"}
                /\ RowOK(c, k, d[k]) /\ SaneRow(c, k, d[k])
  BY <1>1
<1>4. Sane(d)
  BY <1>1, <1>2, <1>3, SaneBeside
<1> QED BY <1>4 DEF d

\* A new item: a field, a relation without a column of its own, or a heading.
LEMMA SaneItem ==
  ASSUME NEW c, CatOK(c), NEW k, k[1] = "item", NEW form \in DOMAIN c, NEW m, NEW v,
         \/ m = "form_id" /\ v = form
         \/ m = "field_id" /\ v \in RowsIn(c, "field")
         \/ m = "relation_id" /\ v \in RowsIn(c, "relation") /\ c[v].from_field_id = None
  PROVE  SaneRow(c, k, NewItem(form, m, v))
<1> DEFINE row == NewItem(form, m, v)
<1>1. None \notin DOMAIN c /\ Gone \notin DOMAIN c /\ None # Gone
  BY ForeignIs DEF CatOK, Typed
<1>2. /\ row.form_id = form
      /\ row.field_id = IF m = "field_id" THEN v ELSE None
      /\ row.relation_id = IF m = "relation_id" THEN v ELSE None
      /\ row.parent_field_id = None /\ row.filter_field_id = None
  BY DEF NewItem, MetaFormField
<1> HIDE DEF row
<1>3. row.relation_id # Gone /\ (row.relation_id \in DOMAIN c => c[row.relation_id].from_field_id = None)
  BY <1>1, <1>2 DEF RowsIn
<1>4. form # None
  BY <1>1
<1>5. SaneRow(c, k, row)
  BY <1>2, <1>3, <1>4 DEF SaneRow
<1> QED BY <1>5 DEF row

\* A form is offered the relations that have no column.
LEMMA OfferedRelation ==
  ASSUME NEW k, k[1] = "item", NEW row, NEW r \in Offered(k, row, "relation_id")
  PROVE  r \in RowsIn(cat, "relation") /\ cat[r].from_field_id = None
<1>1. Column(k, "relation_id").to = "relation"
  BY MoreColumns, KindsAre
<1> QED
  BY <1>1, ItemOffered DEF Offered

\* The requests on the items of a form.
LEMMA SaneAddItem ==
  ASSUME CatOK(cat), Sane(cat), topic.each \in Nat, add_form_item
  PROVE  Sane(cat')
<1> DEFINE k == NewKey("item")
<1>1. "item" \in Classes
  BY ClassesAre
<1>2. k \in Keys /\ k[1] = "item"
  BY <1>1, FreshKey DEF add_form_item
<1> HIDE DEF k
<1>3. PICK form \in RowsIn(cat, "form") :
        \/ cat' = With(cat, k, NewItem(form, "form_id", form))
        \/ \E f \in Unused(form) : cat' = With(cat, k, NewItem(form, "field_id", f))
        \/ \E r \in Offered(k, NewItem(form, "form_id", form), "relation_id") :
             cat' = With(cat, k, NewItem(form, "relation_id", r))
  BY DEF add_form_item, k, Rows
<1>4. PICK m, v : /\ cat' = With(cat, k, NewItem(form, m, v))
                  /\ \/ m = "form_id" /\ v = form
                     \/ m = "field_id" /\ v \in RowsIn(cat, "field")
                     \/ m = "relation_id" /\ v \in RowsIn(cat, "relation") /\ cat[v].from_field_id = None
  <2>1. \A f \in Unused(form) : f \in RowsIn(cat, "field")
    BY DEF Unused, FieldsOf, FieldsIn
  <2>2. \A r \in Offered(k, NewItem(form, "form_id", form), "relation_id") :
          r \in RowsIn(cat, "relation") /\ cat[r].from_field_id = None
    BY <1>2, OfferedRelation
  <2> QED BY <1>3, <2>1, <2>2
<1>5. RowOK(cat, k, NewItem(form, m, v))
  BY <1>2, <1>4, ItemRowIs
<1>6. form \in DOMAIN cat
  BY DEF RowsIn
<1>7. SaneRow(cat, k, NewItem(form, m, v))
  BY <1>2, <1>4, <1>6, SaneItem
<1> QED BY <1>2, <1>4, <1>5, <1>7, SaneWith

\* An item that shows a reference gets a parent or a filter.
LEMMA SaneEditItem ==
  ASSUME CatOK(cat), Sane(cat), form_item_edit
  PROVE  Sane(cat')
<1>1. PICK k \in Rows("item"), m \in {"parent_field_id", "filter_field_id"} :
        /\ cat[k].field_id \in DOMAIN cat
        /\ \E v \in (Offered(k, cat[k], m) \ {cat[k].field_id}) \cup {None} :
             cat' = [cat EXCEPT ![k] =
                           [x \in DOMAIN @ |->
                              CASE x = m -> v
                                [] x # m /\ x \in {"parent_field_id", "filter_field_id"}
                                     /\ @[x] = Gone -> None
                                [] OTHER -> @[x]]]
  BY DEF form_item_edit
<1>2. PICK v \in Offered(k, cat[k], m) \cup {None} :
             cat' = [cat EXCEPT ![k] =
                           [x \in DOMAIN @ |->
                              CASE x = m -> v
                                [] x # m /\ x \in {"parent_field_id", "filter_field_id"}
                                     /\ @[x] = Gone -> None
                                [] OTHER -> @[x]]]
  BY <1>1
<1> DEFINE row == [x \in DOMAIN cat[k] |->
                     CASE x = m -> v
                       [] x # m /\ x \in {"parent_field_id", "filter_field_id"}
                            /\ cat[k][x] = Gone -> None
                       [] OTHER -> cat[k][x]]
<1>3. k \in DOMAIN cat /\ k[1] = "item" /\ RowOK(cat, k, cat[k]) /\ SaneRow(cat, k, cat[k])
  BY <1>1, TypedRows DEF Rows, RowsIn, CatOK, Sane
<1>4. /\ Columns(k) = {"form_id", "field_id", "relation_id", "parent_field_id", "filter_field_id"}
      /\ Column(k, m).to = "field" /\ Column(k, m).on = "nothing"
  BY <1>1, <1>3, MoreColumns, KindsAre
<1>5. DOMAIN cat[k] = Columns(k)
  BY <1>3 DEF RowOK
<1>6. /\ DOMAIN row = Columns(k) /\ row[m] = v
      /\ \A x \in Columns(k) : x # m => row[x] \in {cat[k][x], None}
      /\ \A x \in {"form_id", "field_id", "relation_id"} : row[x] = cat[k][x]
  BY <1>1, <1>4, <1>5
<1>7. cat' = [cat EXCEPT ![k] = row]
  BY <1>2, <1>3
<1> HIDE DEF row
<1>8. RowOK(cat, k, row)
  <2>1. v = None \/ (v \in DOMAIN cat /\ v[1] = "field")
    BY <1>2, <1>4, OfferedIs
  <2>2. Refers(cat, k, m, v)
    BY <1>4, <2>1 DEF Refers
  <2>3. ASSUME NEW x \in Columns(k) PROVE Refers(cat, k, x, row[x])
    <3>1. Refers(cat, k, x, cat[k][x]) /\ Refers(cat, k, x, None)
      BY <1>3 DEF RowOK, Refers
    <3> QED BY <1>6, <2>2, <3>1
  <2> QED BY <1>6, <2>3 DEF RowOK
<1>9. None \notin DOMAIN cat
  BY ForeignIs DEF CatOK, Typed
<1>10. SaneRow(cat, k, row)
  <2>1. row.field_id # None
    BY <1>1, <1>6, <1>9
  <2>2. /\ row.form_id = cat[k].form_id /\ row.relation_id = cat[k].relation_id
        /\ cat[k].form_id # None /\ cat[k].relation_id # Gone
        /\ cat[k].relation_id \in DOMAIN cat => cat[cat[k].relation_id].from_field_id = None
    BY <1>3, <1>6 DEF SaneRow
  <2> QED BY <1>3, <2>1, <2>2 DEF SaneRow
<1> QED BY <1>3, <1>7, <1>8, <1>10, SaneChange

\* The items that are generated are sane.
LEMMA SaneItems ==
  ASSUME NEW c, CatOK(c), NEW form \in DOMAIN c, NEW S \in SUBSET RowsIn(c, "field"),
         NEW T \in SUBSET RowsIn(c, "relation"), \A r \in T : c[r].from_field_id = None, NEW rows,
         rows = {NewItem(form, "field_id", f) : f \in S}
                \cup {NewItem(form, "relation_id", r) : r \in T}
  PROVE  \A row \in rows : \A k : k[1] = "item" => SaneRow(c, k, row)
<1>1. ASSUME NEW f \in S, NEW k, k[1] = "item" PROVE SaneRow(c, k, NewItem(form, "field_id", f))
  BY <1>1, SaneItem
<1>2. ASSUME NEW r \in T, NEW k, k[1] = "item" PROVE SaneRow(c, k, NewItem(form, "relation_id", r))
  BY <1>2, SaneItem
<1> QED BY <1>1, <1>2

\* The pages that generate items.
LEMMA SaneAddAll ==
  ASSUME CatOK(cat), Sane(cat), topic.each \in Nat, form_add_all
  PROVE  Sane(cat')
<1>1. PICK form \in Rows("form") :
        /\ RoomFor("item", Cardinality(Generated(form)))
        /\ cat' = WithAll(cat, "item", Generated(form))
  BY DEF form_add_all
<1> DEFINE S == Unused(form)
           T == Offered(<<"item", 0>>, NewItem(form, "form_id", form), "relation_id")
                 \ {cat[i].relation_id : i \in {i \in Rows("item") : cat[i].form_id = form}}
<1>2. S \in SUBSET RowsIn(cat, "field")
  BY DEF Unused, FieldsOf, FieldsIn
<1>3. T \in SUBSET RowsIn(cat, "relation") /\ \A r \in T : cat[r].from_field_id = None
  <2>1. <<"item", 0>>[1] = "item"
    OBVIOUS
  <2> QED BY <2>1, OfferedRelation
<1>4. Generated(form) = {NewItem(form, "field_id", f) : f \in S}
                        \cup {NewItem(form, "relation_id", r) : r \in T}
  BY DEF Generated
<1> HIDE DEF S, T
<1>5. form \in RowsIn(cat, "form") /\ form \in DOMAIN cat
  BY <1>1 DEF Rows, RowsIn
<1>6. /\ IsFiniteSet(Generated(form))
      /\ \A row \in Generated(form) : \A k : k[1] = "item" => RowOK(cat, k, row)
  BY <1>2, <1>3, <1>4, <1>5, ItemsAre
<1>7. \A row \in Generated(form) : \A k : k[1] = "item" => SaneRow(cat, k, row)
  BY <1>2, <1>3, <1>4, <1>5, SaneItems
<1>8. "item" \in Classes \ {"unique", "field", "relation", "company"}
  BY ClassesAre
<1>9. Cardinality(Generated(form)) <= Cardinality(FreeKeys(cat, "item"))
  BY <1>1 DEF RoomFor
<1>10. Sane(WithAll(cat, "item", Generated(form)))
  BY <1>6, <1>7, <1>8, <1>9, SaneWithAll
<1> QED
  BY <1>1, <1>10

\* A new form with items of its own.
LEMMA SaneNewForm ==
  ASSUME CatOK(cat), Sane(cat), topic.each \in Nat, Room("form"), NEW row, NEW k, k = NewKey("form"),
         RowOK(cat, k, row), NEW c, c = With(cat, k, row), NEW items, IsFiniteSet(items),
         Cardinality(items) + 1 <= Cardinality(FreeKeys(cat, "item")),
         \A x \in items : \A i : i[1] = "item" => RowOK(c, i, x) /\ SaneRow(c, i, x)
  PROVE  Sane(WithAll(c, "item", items))
<1>1. k \in Keys /\ k[1] = "form" /\ "item" \in Classes \ {"unique", "field", "relation", "company"}
  <2>1. "form" \in Classes /\ "item" \in Classes \ {"unique", "field", "relation", "company"}
    BY ClassesAre
  <2> QED BY <2>1, FreshKey
<1>2. CatOK(c) /\ FreeKeys(c, "item") = FreeKeys(cat, "item")
  BY NewFormIs
<1>3. SaneRow(cat, k, row)
  BY <1>1 DEF SaneRow
<1>4. Sane(c)
  BY <1>1, <1>3, SaneWith
<1>5. Cardinality(items) <= Cardinality(FreeKeys(c, "item"))
  <2>1. Cardinality(items) \in Nat
    BY FS_CardinalityType
  <2>2. Cardinality(FreeKeys(cat, "item")) \in Nat
    BY FreeFinite, FS_CardinalityType
  <2> QED BY <1>2, <2>1, <2>2
<1> QED BY <1>1, <1>2, <1>4, <1>5, SaneWithAll

\* A form of a table, with all of its items.
LEMMA SaneGenerate ==
  ASSUME CatOK(cat), Sane(cat), topic.each \in Nat, generate_form
  PROVE  Sane(cat')
<1> DEFINE k == NewKey("form")
<1>1. PICK t \in Rows("table") :
        /\ RoomFor("item", Cardinality(GeneratedFor(k, t)) + 1)
        /\ cat' = WithAll(With(cat, k, [table_id |-> t]), "item", GeneratedFor(k, t))
  BY DEF generate_form
<1> DEFINE c == With(cat, k, [table_id |-> t])
           items == GeneratedFor(k, t)
           S == FieldsOf(t)
           T == {r \in Rows("relation") : /\ cat[r].from_field_id = None
                                          /\ t \in {cat[r].from_table_id, cat[r].to_table_id}}
<1>2. k[1] = "form" /\ Room("form") /\ k \notin DOMAIN cat
  <2>1. "form" \in Classes
    BY ClassesAre
  <2> QED BY <2>1, FreshKey DEF generate_form
<1>3. RowOK(cat, k, [table_id |-> t])
  <2>1. Columns(k) = {"table_id"} /\ Column(k, "table_id").to = "table"
    BY <1>2, MoreColumns, KindsAre
  <2> QED BY <1>1, <2>1 DEF RowOK, Refers, Rows, RowsIn
<1>4. items = {NewItem(k, "field_id", f) : f \in S} \cup {NewItem(k, "relation_id", r) : r \in T}
  BY DEF GeneratedFor, NewItem
<1>5. S \in SUBSET RowsIn(cat, "field") /\ T \in SUBSET RowsIn(cat, "relation")
  BY DEF FieldsOf, FieldsIn, Rows
<1>6. \A r \in T : c[r].from_field_id = None
  BY <1>2 DEF With, Rows, RowsIn
<1>7. RoomFor("item", Cardinality(items) + 1) /\ cat' = WithAll(c, "item", items)
  BY <1>1
<1> HIDE DEF S, T, items, k
<1>8. /\ CatOK(c) /\ k \in RowsIn(c, "form")
      /\ S \in SUBSET RowsIn(c, "field") /\ T \in SUBSET RowsIn(c, "relation")
  BY <1>2, <1>3, <1>5, NewFormIs DEF k
<1> HIDE DEF c
<1>9. k \in DOMAIN c
  BY <1>8 DEF RowsIn
<1>10. IsFiniteSet(items) /\ \A row \in items : \A x : x[1] = "item" => RowOK(c, x, row)
  BY <1>4, <1>8, ItemsAre
<1>11. \A row \in items : \A x : x[1] = "item" => SaneRow(c, x, row)
  BY <1>4, <1>6, <1>8, <1>9, SaneItems
<1>12. Cardinality(items) + 1 <= Cardinality(FreeKeys(cat, "item"))
  BY <1>7 DEF RoomFor
<1>13. k = NewKey("form") /\ c = With(cat, k, [table_id |-> t])
  BY DEF k, c
<1>14. Sane(WithAll(c, "item", items))
  BY <1>2, <1>3, <1>10, <1>11, <1>12, <1>13, SaneNewForm
<1> QED BY <1>7, <1>14

\* A copy of a form has copies of its items.
LEMMA SaneDuplicate ==
  ASSUME CatOK(cat), Sane(cat), topic.each \in Nat, form_duplicate
  PROVE  Sane(cat')
<1> DEFINE k == NewKey("form")
           On(form) == {i \in Rows("item") : cat[i].form_id = form}
           Items(form) == {[cat[i] EXCEPT !.form_id = k] : i \in On(form)}
<1>1. PICK form \in Rows("form") :
        /\ RoomFor("item", Cardinality(Items(form)) + 1)
        /\ cat' = WithAll(With(cat, k, cat[form]), "item", Items(form))
  BY DEF form_duplicate
<1> DEFINE c == With(cat, k, cat[form])
           items == Items(form)
           S == On(form)
<1>2. k[1] = "form" /\ Room("form") /\ k \notin DOMAIN cat /\ k \in Keys
  <2>1. "form" \in Classes
    BY ClassesAre
  <2> QED BY <2>1, FreshKey DEF form_duplicate
<1>3. RowOK(cat, k, cat[form])
  <2>1. RowOK(cat, form, cat[form]) /\ form[1] = "form"
    BY <1>1, TypedRows DEF CatOK, Rows, RowsIn
  <2> QED BY <1>2, <2>1 DEF RowOK, Refers, Columns, Column
<1>4. S \in SUBSET DOMAIN cat /\ \A i \in S : i[1] = "item"
  BY DEF Rows, RowsIn
<1>5. k = NewKey("form") /\ RoomFor("item", Cardinality(items) + 1) /\ cat' = WithAll(c, "item", items)
  BY <1>1
<1>6. items = {[cat[i] EXCEPT !.form_id = k] : i \in S}
  OBVIOUS
<1> HIDE DEF k, S, items
<1>7. DOMAIN c = DOMAIN cat \cup {k} /\ \A x \in DOMAIN cat : c[x] = cat[x]
  BY <1>2 DEF With
<1>8. ASSUME NEW i \in S, NEW x, x[1] = "item"
      PROVE  RowOK(c, x, [cat[i] EXCEPT !.form_id = k]) /\ SaneRow(c, x, [cat[i] EXCEPT !.form_id = k])
  <2>1. RowOK(cat, i, cat[i]) /\ i[1] = "item" /\ SaneRow(cat, i, cat[i])
    BY <1>4, TypedRows DEF CatOK, Sane
  <2>2. Columns(x) = Columns(i) /\ \A m : Column(x, m) = Column(i, m)
    BY <1>8, <2>1 DEF Columns, Column
  <2>3. /\ Column(x, "form_id").to = "form" /\ Column(x, "relation_id").to = "relation"
        /\ Columns(x) = {"form_id", "field_id", "relation_id", "parent_field_id", "filter_field_id"}
    BY <1>8, MoreColumns, KindsAre
  <2>4. Refers(c, x, "form_id", k)
    BY <1>2, <1>7, <2>3 DEF Refers
  <2>5. \A m \in Columns(x) : Refers(c, x, m, cat[i][m])
    BY <1>7, <2>1, <2>2 DEF RowOK, Refers
  <2>6. DOMAIN cat[i] = Columns(x)
    BY <2>1, <2>2 DEF RowOK
  <2> DEFINE row == [cat[i] EXCEPT !.form_id = k]
  <2>7. /\ DOMAIN row = Columns(x) /\ row["form_id"] = k
        /\ \A m \in Columns(x) : m # "form_id" => row[m] = cat[i][m]
    BY <2>3, <2>6
  <2> HIDE DEF row
  <2>8. RowOK(c, x, row)
    BY <2>4, <2>5, <2>7 DEF RowOK
  <2>9. SaneRow(c, x, row)
    <3>1. /\ row.form_id = k /\ row.relation_id = cat[i].relation_id /\ row.field_id = cat[i].field_id
          /\ row.parent_field_id = cat[i].parent_field_id
          /\ row.filter_field_id = cat[i].filter_field_id
      BY <2>3, <2>7
    <3>2. k # None
      BY <1>2, ForeignIs
    <3>3. /\ cat[i].relation_id # Gone
          /\ cat[i].relation_id \in DOMAIN cat => cat[cat[i].relation_id].from_field_id = None
          /\ cat[i].field_id = None => cat[i].parent_field_id = None /\ cat[i].filter_field_id = None
      BY <2>1 DEF SaneRow
    <3>4. cat[i].relation_id # k
      BY <1>2, <2>3, <2>5, <1>8, <2>1, ForeignIs DEF Refers, RowOK
    <3> QED BY <1>7, <1>8, <3>1, <3>2, <3>3, <3>4 DEF SaneRow
  <2> QED BY <2>8, <2>9 DEF row
<1>9. IsFiniteSet(items) /\ \A row \in items : \A x : x[1] = "item" => RowOK(c, x, row) /\ SaneRow(c, x, row)
  <2> DEFINE g == [i \in S |-> [cat[i] EXCEPT !.form_id = k]]
  <2>1. g \in Surjection(S, items)
    BY <1>6 DEF Surjection
  <2>2. IsFiniteSet(S)
    BY <1>4, FS_Subset DEF CatOK
  <2> HIDE DEF g
  <2>3. IsFiniteSet(items)
    BY <2>1, <2>2, FS_Surjection
  <2> HIDE DEF c
  <2> QED BY <1>6, <1>8, <2>3
<1>10. Cardinality(items) + 1 <= Cardinality(FreeKeys(cat, "item"))
  BY <1>5 DEF RoomFor
<1> HIDE DEF c
<1>11. c = With(cat, k, cat[form])
  BY DEF c
<1>12. Sane(WithAll(c, "item", items))
  BY <1>2, <1>3, <1>5, <1>9, <1>10, <1>11, SaneNewForm
<1> QED BY <1>5, <1>12

\* A workflow is on a field of its table.
LEMMA SaneWorkflow ==
  ASSUME CatOK(cat), Sane(cat), topic.each \in Nat, workflow_create
  PROVE  Sane(cat')
<1> DEFINE k == NewKey("workflow")
<1>1. PICK f \in Rows("field") : cat' = With(cat, k, [table_id |-> cat[f].table_id, field_id |-> f])
  BY DEF workflow_create
<1>2. k \in Keys /\ k[1] = "workflow" /\ k \notin DOMAIN cat
  <2>1. "workflow" \in Classes
    BY ClassesAre
  <2> QED BY <2>1, FreshKey DEF workflow_create
<1> HIDE DEF k
<1> DEFINE row == [table_id |-> cat[f].table_id, field_id |-> f]
<1>3. CatOK(cat')
  BY WorkflowIs
<1>4. RowOK(cat', k, row)
  <2>1. k \in DOMAIN cat' /\ cat'[k] = row
    BY <1>1 DEF With
  <2>2. RowOK(cat', k, cat'[k])
    BY <1>3, <2>1, TypedRows DEF CatOK
  <2> QED BY <2>1, <2>2
<1>5. RowOK(cat, k, row)
  <2>1. DOMAIN cat' = DOMAIN cat \cup {k}
    BY <1>1 DEF With
  <2>2. \A m \in Columns(k) : Column(k, m).to # "workflow"
    BY <1>2, MoreColumns, KindsAre
  <2> QED BY <1>2, <1>4, <2>1, <2>2 DEF RowOK, Refers
<1>6. SaneRow(cat, k, row)
  BY <1>2 DEF SaneRow, FieldOf
<1> QED BY <1>1, <1>2, <1>5, <1>6, SaneWith

\* A permission names a role that is there.
LEMMA SanePermission ==
  ASSUME CatOK(cat), Sane(cat), topic.each \in Nat, permissions
  PROVE  Sane(cat')
<1> DEFINE k == NewKey("permission")
<1>1. PICK r \in Rows("role"), f \in Rows("form") : cat' = With(cat, k, [role |-> r, form_id |-> f])
  BY DEF permissions
<1>2. k \in Keys /\ k[1] = "permission"
  <2>1. "permission" \in Classes
    BY ClassesAre
  <2> QED BY <2>1, FreshKey DEF permissions
<1> HIDE DEF k
<1>3. /\ Columns(k) = {"role", "form_id"} /\ Column(k, "role").to = "role"
      /\ Column(k, "form_id").to = "form"
  BY <1>2, MoreColumns, KindsAre
<1>4. RowOK(cat, k, [role |-> r, form_id |-> f])
  BY <1>1, <1>3 DEF RowOK, Refers, Rows, RowsIn
<1>5. r # Gone
  BY <1>1, ForeignIs DEF Rows, RowsIn, CatOK, Typed
<1>6. SaneRow(cat, k, [role |-> r, form_id |-> f])
  BY <1>2, <1>5 DEF SaneRow
<1> QED BY <1>1, <1>2, <1>4, <1>6, SaneWith

\* A permission on a field names one, too.
LEMMA SaneFieldPermission ==
  ASSUME CatOK(cat), Sane(cat), topic.each \in Nat, field_permissions
  PROVE  Sane(cat')
<1> DEFINE k == NewKey("fieldperm")
<1>1. PICK r \in Rows("role"), f \in Rows("field") : cat' = With(cat, k, [role |-> r, field_id |-> f])
  BY DEF field_permissions
<1>2. k \in Keys /\ k[1] = "fieldperm"
  <2>1. "fieldperm" \in Classes
    BY ClassesAre
  <2> QED BY <2>1, FreshKey DEF field_permissions
<1> HIDE DEF k
<1>3. /\ Columns(k) = {"role", "field_id"} /\ Column(k, "role").to = "role"
      /\ Column(k, "field_id").to = "field"
  BY <1>2, MoreColumns, KindsAre
<1>4. RowOK(cat, k, [role |-> r, field_id |-> f])
  BY <1>1, <1>3 DEF RowOK, Refers, Rows, RowsIn
<1>5. r # Gone
  BY <1>1, ForeignIs DEF Rows, RowsIn, CatOK, Typed
<1>6. SaneRow(cat, k, [role |-> r, field_id |-> f])
  BY <1>2, <1>5 DEF SaneRow
<1> QED BY <1>1, <1>2, <1>4, <1>6, SaneWith

\* What is kept is never a row of a class that nobody keeps a column for.
LEMMA KeptKeys ==
  ASSUME NEW c, CatOK(c), NEW k \in DOMAIN c, NEW m, <<k[1], m>> \in KeptByRequests, NEW d \in Keys,
         c[k][m] = d
  PROVE  d[1] = Column(k, m).to
<1>1. c[k][m] \in {None, Gone} \/ (c[k][m] \in DOMAIN c /\ c[k][m][1] = Column(k, m).to)
  BY KeptTargets
<1> QED BY <1>1, ForeignIs

\* The table of a field is no row of another class.
LEMMA FieldTable ==
  ASSUME NEW c, CatOK(c), NEW f \in RowsIn(c, "field"), NEW d \in Keys, c[f].table_id = d
  PROVE  d[1] = "table"
<1>1. f \in DOMAIN c /\ f[1] = "field" /\ RowOK(c, f, c[f])
  BY TypedRows DEF CatOK, RowsIn
<1>2. "table_id" \in Columns(f) /\ Column(f, "table_id").to = "table"
  BY <1>1, CoreColumns, KindsAre
<1>3. Refers(c, f, "table_id", d)
  BY <1>1, <1>2 DEF RowOK
<1> QED BY <1>2, <1>3, ForeignIs DEF Refers

\* Without tables and relations, what nobody keeps a reference to is free.
LEMMA FreeUnlessKept ==
  ASSUME NEW c, CatOK(c), NEW S \in SUBSET DOMAIN c, \A d \in S : d[1] \notin {"table", "relation"},
         \A k \in DOMAIN c \ S : \A m : <<k[1], m>> \in KeptByRequests => c[k][m] \notin S
  PROVE  Free(c, S)
<1>1. ASSUME NEW f \in RowsIn(c, "field") PROVE c[f].table_id \notin S
  BY <1>1, FieldTable DEF CatOK, Typed
<1>2. RowsIn(c, "relation") \cap S = {}
  BY DEF RowsIn
<1> QED BY <1>1, <1>2 DEF Free

\* The requests that refuse to delete what is in use.
LEMMA SaneRefusedDeletes ==
  ASSUME CatOK(cat), Sane(cat), source_delete \/ company_delete \/ role_delete
  PROVE  Sane(cat')
<1>1. CASE source_delete
  <2>1. PICK d \in Rows("source") : /\ ~ \E t \in Rows("table") : cat[t].source_id = d
                                    /\ cat' = Without(cat, {d})
    BY <1>1 DEF source_delete
  <2>2. d \in DOMAIN cat /\ d \in Keys /\ d[1] = "source"
    BY <2>1 DEF Rows, RowsIn, CatOK, Typed
  <2>3. ASSUME NEW k \in DOMAIN cat, NEW m, <<k[1], m>> \in KeptByRequests, cat[k][m] = d PROVE FALSE
    <3>1. Column(k, m).to = "source"
      BY <2>2, <2>3, KeptKeys
    <3>2. k[1] = "table" /\ m = "source_id"
      BY <2>3, <3>1, KeptTargets DEF KeptByRequests
    <3> QED BY <2>1, <2>3, <3>2 DEF Rows, RowsIn
  <2>4. Free(cat, {d})
    BY <2>2, <2>3, FreeUnlessKept
  <2> QED BY <2>1, <2>2, <2>4, SaneDeleted
<1>2. CASE company_delete
  <2>1. PICK d \in Rows("company") : /\ ~ \E x \in Rows("company") : cat[x].parent_id = d
                                     /\ ~ \E u \in Rows("user") : cat[u].company_id = d
                                     /\ cat' = Without(cat, {d})
    BY <1>2 DEF company_delete
  <2>2. d \in DOMAIN cat /\ d \in Keys /\ d[1] = "company"
    BY <2>1 DEF Rows, RowsIn, CatOK, Typed
  <2>3. ASSUME NEW k \in DOMAIN cat, NEW m, <<k[1], m>> \in KeptByRequests, cat[k][m] = d PROVE FALSE
    <3>1. Column(k, m).to = "company"
      BY <2>2, <2>3, KeptKeys
    <3>2. <<k[1], m>> \in {<<"company", "parent_id">>, <<"user", "company_id">>}
      BY <2>3, <3>1, KeptTargets
    <3> QED BY <2>1, <2>3, <3>2 DEF Rows, RowsIn
  <2>4. Free(cat, {d})
    BY <2>2, <2>3, FreeUnlessKept
  <2> QED BY <2>1, <2>2, <2>4, SaneDeleted
<1>3. CASE role_delete
  <2>1. PICK r \in Rows("role") :
          /\ ~ \E u \in Rows("user") : cat[u].role = r
          /\ cat' = Without(cat, {r} \cup {p \in Rows("permission") \cup Rows("fieldperm") :
                                             cat[p].role = r})
    BY <1>3 DEF role_delete
  <2> DEFINE S == {r} \cup {p \in Rows("permission") \cup Rows("fieldperm") : cat[p].role = r}
  <2>2. r \in DOMAIN cat /\ r \in Keys /\ r[1] = "role"
    BY <2>1 DEF Rows, RowsIn, CatOK, Typed
  <2>3. /\ S \in SUBSET DOMAIN cat
        /\ \A d \in S : d \in Keys /\ d[1] \in {"role", "permission", "fieldperm"}
    BY <2>2 DEF Rows, RowsIn, CatOK, Typed
  <2>4. ASSUME NEW k \in DOMAIN cat \ S, NEW m, <<k[1], m>> \in KeptByRequests, cat[k][m] \in S PROVE FALSE
    <3>1. PICK d \in S : cat[k][m] = d
      BY <2>4
    <3>2. d[1] = Column(k, m).to
      BY <2>3, <2>4, <3>1, KeptKeys
    <3>3. Column(k, m).to \in Roots
      BY <2>4, KeptTargets
    <3>4. d = r /\ Column(k, m).to = "role"
      BY <2>2, <2>3, <3>1, <3>2, <3>3 DEF Roots, Rows, RowsIn
    <3>5. k[1] \in {"user", "permission", "fieldperm"} /\ m = "role"
      BY <2>4, <3>4, KeptTargets
    <3> QED BY <2>1, <2>4, <3>1, <3>4, <3>5 DEF Rows, RowsIn
  <2>5. cat' = Without(cat, S)
    BY <2>1
  <2> HIDE DEF S
  <2>6. Free(cat, S)
    BY <2>3, <2>4, FreeUnlessKept
  <2> QED BY <2>3, <2>5, <2>6, SaneDeleted
<1> QED BY <1>1, <1>2, <1>3

\* No request of one row leaves the catalogue less sound than it was.
LEMMA SaneOneRow ==
  ASSUME CatOK(cat), Sane(cat), topic.each \in Nat, OneRow
  PROVE  Sane(cat')
<1>1. CASE \/ add_form_item \/ form_item_edit \/ form_add_all \/ generate_form \/ form_duplicate
  BY <1>1, SaneAddItem, SaneEditItem, SaneAddAll, SaneGenerate, SaneDuplicate
<1>2. CASE \/ workflow_create \/ permissions \/ field_permissions
           \/ source_delete \/ company_delete \/ role_delete
  BY <1>2, SaneWorkflow, SanePermission, SaneFieldPermission, SaneRefusedDeletes
<1>3. CASE ~ (\/ add_form_item \/ form_item_edit \/ form_add_all \/ generate_form \/ form_duplicate
              \/ workflow_create \/ permissions \/ field_permissions
              \/ source_delete \/ company_delete \/ role_delete)
  <2>1. Plainly
    BY <1>3, PlainShapes DEF OneRow
  <2> QED BY <2>1, SanePlain
<1> QED BY <1>1, <1>2, <1>3

\* What a commit makes of the catalogue c.
Live(c2, v) == IF v \in DOMAIN c2 \cup {None} THEN v ELSE Gone

After(c, j) ==
    LET left == Without(c, j.del \cap DOMAIN c)
        keys == DOMAIN left \cup DOMAIN j.new
        old(k) == IF k \in DOMAIN j.new THEN j.new[k] ELSE left[k] IN
    [k \in keys |->
       [m \in Columns(k) |->
          LET v == IF k \in DOMAIN j.set /\ m \in DOMAIN j.set[k] THEN j.set[k][m]
                   ELSE old(k)[m] IN
          IF v \in keys \cup {None} THEN v ELSE Gone]]

\* A commit does to the catalogue what After says.
LEMMA CommittedAfter ==
  ASSUME NEW j
  PROVE  Committed(j) = After(cat, j)
  BY DEF Committed, After

\* What a commit does depends on three parts of the request.
LEMMA AfterSame ==
  ASSUME NEW c, NEW j, NEW i, i.new = j.new, i.set = j.set, i.del = j.del
  PROVE  After(c, i) = After(c, j)
  BY DEF After

SetBy(j, k, m) == k \in DOMAIN j.set /\ m \in DOMAIN j.set[k]

\* The rows d that there are then: what is left of the old ones, and the new.
Results(d, left, j) ==
    /\ DOMAIN d = DOMAIN left \cup DOMAIN j.new
    /\ \A k \in DOMAIN d : DOMAIN d[k] = Columns(k)
    /\ \A k \in DOMAIN left : \A m \in Columns(k) : ~ SetBy(j, k, m) => d[k][m] = Live(d, left[k][m])
    /\ \A k \in DOMAIN j.new : \A m \in Columns(k) : ~ SetBy(j, k, m) => d[k][m] = Live(d, j.new[k][m])
    /\ \A k \in DOMAIN d : \A m \in Columns(k) : SetBy(j, k, m) => d[k][m] = Live(d, j.set[k][m])

\* The rows after a commit, column by column.
LEMMA AfterIs ==
  ASSUME NEW c, CatOK(c), NEW j, DOMAIN j.new \cap DOMAIN c = {}
  PROVE  Results(After(c, j), Without(c, j.del \cap DOMAIN c), j)
<1> DEFINE d == After(c, j)
           left == Without(c, j.del \cap DOMAIN c)
<1> DEFINE gone == j.del \cap DOMAIN c
           keys == DOMAIN left \cup DOMAIN j.new
           old(k) == IF k \in DOMAIN j.new THEN j.new[k] ELSE left[k]
           val(k, m) == LET v == IF k \in DOMAIN j.set /\ m \in DOMAIN j.set[k] THEN j.set[k][m]
                                 ELSE old(k)[m] IN
                        IF v \in keys \cup {None} THEN v ELSE Gone
<1>1. DOMAIN left \subseteq DOMAIN c
  <2>1. left = Without(c, gone)
    OBVIOUS
  <2> HIDE DEF gone, left
  <2>2. DOMAIN Without(c, gone) = DOMAIN c \ Cascaded(c, gone)
    BY WithoutIs
  <2> QED BY <2>1, <2>2
<1>2. d = [k \in keys |-> [m \in Columns(k) |-> val(k, m)]]
  BY DEF After
<1> HIDE DEF d, left
<1>3. \A k, m : val(k, m) = IF (IF SetBy(j, k, m) THEN j.set[k][m] ELSE old(k)[m]) \in keys \cup {None}
                          THEN (IF SetBy(j, k, m) THEN j.set[k][m] ELSE old(k)[m]) ELSE Gone
  <2> HIDE DEF keys, old
  <2> QED BY DEF SetBy
<1>4. /\ \A k \in DOMAIN left : k \in keys /\ old(k) = left[k]
      /\ \A k \in DOMAIN j.new : k \in keys /\ old(k) = j.new[k]
  BY <1>1
<1>5. keys = DOMAIN left \cup DOMAIN j.new
  OBVIOUS
<1> HIDE DEF keys, old, val, d, left
<1>6. DOMAIN d = keys
  BY <1>2
<1>7. ASSUME NEW k \in keys
      PROVE  DOMAIN d[k] = Columns(k) /\ \A m \in Columns(k) : d[k][m] = val(k, m)
  BY <1>2
<1>8. ASSUME NEW k \in keys, NEW m \in Columns(k)
      PROVE  d[k][m] = Live(d, IF SetBy(j, k, m) THEN j.set[k][m] ELSE old(k)[m])
  BY <1>3, <1>6, <1>7 DEF Live
<1>9. ASSUME NEW k \in DOMAIN left, NEW m \in Columns(k), ~ SetBy(j, k, m)
      PROVE  d[k][m] = Live(d, left[k][m])
  BY <1>4, <1>8, <1>9
<1>10. ASSUME NEW k \in DOMAIN j.new, NEW m \in Columns(k), ~ SetBy(j, k, m)
       PROVE  d[k][m] = Live(d, j.new[k][m])
  BY <1>4, <1>8, <1>10
<1>11. ASSUME NEW k \in keys, NEW m \in Columns(k), SetBy(j, k, m)
       PROVE  d[k][m] = Live(d, j.set[k][m])
  BY <1>8, <1>11
<1>12. Results(d, left, j)
  BY <1>5, <1>6, <1>7, <1>9, <1>10, <1>11 DEF Results
<1> QED BY <1>12 DEF d, left

\* The same catalogue, but for indexes that are not recorded and labels of tables
\* that are taken away.
Echo(c, c2) ==
    /\ DOMAIN c2 \subseteq DOMAIN c
    /\ \A k \in DOMAIN c \ DOMAIN c2 : k[1] = "unique"
    /\ \A k \in DOMAIN c2 : \A m \in Columns(k) :
         \/ c2[k][m] = c[k][m]
         \/ k[1] = "table" /\ m = "display_field_id" /\ c2[k][m] \in {None, Gone}

\* The fields and relations that rows name are there.
AllRefer(c) ==
    None \notin DOMAIN c /\ Gone \notin DOMAIN c /\ \A k \in DOMAIN c : RefersOK(c, k, c[k])

\* An echo of a sane catalogue is sane.
LEMMA EchoOf ==
  ASSUME NEW c, AllRefer(c), Sane(c), NEW c2, Echo(c, c2)
  PROVE  Sane(c2)
<1>1. None \notin DOMAIN c /\ Gone \notin DOMAIN c
  BY DEF AllRefer
<1>2. ASSUME NEW k \in DOMAIN c2, NEW m \in Columns(k), k[1] # "table"
      PROVE  c2[k][m] = c[k][m]
  BY <1>2 DEF Echo
<1>3. ASSUME NEW k \in DOMAIN c2, k[1] = "relation"
      PROVE  /\ c2[k].from_field_id = c[k].from_field_id
             /\ c[k].from_field_id \in {None, Gone} \/ c[k].from_field_id \in RowsIn(c, "field")
  <2>1. "from_field_id" \in Columns(k) /\ Column(k, "from_field_id").to = "field"
    BY <1>3, CoreColumns, KindsAre
  <2>2. k \in DOMAIN c /\ RefersOK(c, k, c[k])
    BY DEF Echo, AllRefer
  <2>3. Refers(c, k, "from_field_id", c[k].from_field_id)
    BY <2>1, <2>2 DEF RefersOK
  <2>4. c2[k]["from_field_id"] = c[k]["from_field_id"]
    BY <1>2, <1>3, <2>1
  <2> QED BY <2>1, <2>3, <2>4 DEF Refers, RowsIn
<1>4. ASSUME NEW k \in DOMAIN c2, k[1] = "field"
      PROVE  c2[k].table_id = c[k].table_id /\ c2[k].related_table_id = c[k].related_table_id
  BY <1>2, <1>4, CoreColumns
<1>5. RowsIn(c2, "relation") = RowsIn(c, "relation") /\ RowsIn(c2, "company") = RowsIn(c, "company")
      /\ RowsIn(c, "field") \subseteq DOMAIN c2
  BY DEF Echo, RowsIn
<1>6. Joined(c, c2)
  BY <1>1, <1>3, <1>4 DEF Joined, Echo
<1>7. OneRelation(c2)
  <2>1. \A r \in RowsIn(c2, "relation") : /\ r \in RowsIn(c, "relation")
                                          /\ c2[r].from_field_id = c[r].from_field_id
    BY <1>3, <1>5 DEF RowsIn
  <2>2. DOMAIN c2 \subseteq DOMAIN c
    BY DEF Echo
  <2> QED BY <2>1, <2>2 DEF OneRelation, Sane
<1>8. NoCycle(c2)
  <2>1. \A k \in RowsIn(c2, "company") : c2[k].parent_id = c[k].parent_id
    BY <1>2, StepColumns DEF RowsIn
  <2>2. RowsIn(c2, "company") \subseteq DOMAIN c
    BY <1>5 DEF RowsIn
  <2> QED BY <2>1, <2>2, SameCompanies DEF Sane
<1>9. ASSUME NEW k \in DOMAIN c2 PROVE SaneRow(c2, k, c2[k])
  <2>1. k \in DOMAIN c /\ RefersOK(c, k, c[k]) /\ SaneRow(c, k, c[k])
    BY DEF Echo, AllRefer, Sane
  <2>2. \A m \in Columns(k) : c2[k][m] \in {c[k][m], None, Gone}
    BY DEF Echo
  <2>3. ASSUME NEW m, Keeps(k, m) PROVE c2[k][m] = c[k][m]
    <3>1. m \in Columns(k)
      BY <2>3, KeptColumns
    <3>2. k[1] = "table" => m # "display_field_id"
      BY <2>3 DEF Keeps
    <3> QED BY <3>1, <3>2 DEF Echo
  <2>4. k[1] = "item" => \A m \in Columns(k) : c2[k][m] = None <=> c[k][m] = None
    BY <1>2
  <2>5. k[1] = "field" =>
         /\ c2[k].related_table_id # None => c[k].related_table_id # None
         /\ \A r \in RowsIn(c, "relation") : c[r].from_field_id = k => r \in DOMAIN c2
    BY <1>4, <1>5 DEF RowsIn
  <2>6. k[1] = "relation" /\ c[k].from_field_id \in DOMAIN c \cap DOMAIN c2 =>
         c2[c[k].from_field_id].related_table_id = c[c[k].from_field_id].related_table_id
    BY <1>1, <1>3, <1>4 DEF RowsIn
  <2>7. Carried(c, c2, k, c[k], c2[k])
    BY <2>2, <2>3, <2>4, <2>5, <2>6 DEF Carried
  <2> QED BY <1>6, <2>1, <2>7, CarriedFrom
<1> QED BY <1>7, <1>8, <1>9 DEF Sane

\* The same where all references are typed.
LEMMA SaneEcho ==
  ASSUME NEW c, CatOK(c), Sane(c), NEW c2, Echo(c, c2)
  PROVE  Sane(c2)
<1>1. AllRefer(c)
  <2>1. None \notin DOMAIN c /\ Gone \notin DOMAIN c
    BY ForeignIs DEF CatOK, Typed
  <2>2. \A k \in DOMAIN c : RowOK(c, k, c[k])
    BY TypedRows DEF CatOK
  <2> QED BY <2>1, <2>2 DEF AllRefer, RefersOK, RowOK
<1> QED BY <1>1, EchoOf

\* Rows are added, and columns of others set that nothing hangs on.
Adds(c, j) ==
    /\ j.del = {}
    /\ \A k \in DOMAIN j.new : k \in Keys /\ k \notin DOMAIN c /\ k[1] # "company"
    /\ \A k \in DOMAIN j.set : \A m \in DOMAIN j.set[k] :
         \/ k[1] \notin {"field", "relation", "company"}
         \/ k[1] = "relation" /\ m \in Labels
         \/ k[1] = "field" /\ m = "table_id" /\ k \in DOMAIN c /\ j.set[k][m] = c[k][m]

Added(c, d, j) ==
    /\ DOMAIN d = DOMAIN c \cup DOMAIN j.new
    /\ \A k \in DOMAIN c : \A m \in Columns(k) : ~ SetBy(j, k, m) => d[k][m] = c[k][m]
    /\ \A k \in DOMAIN j.new : \A m \in Columns(k) : ~ SetBy(j, k, m) => d[k][m] = Live(d, j.new[k][m])
    /\ \A k \in DOMAIN d : \A m \in Columns(k) : SetBy(j, k, m) => d[k][m] = Live(d, j.set[k][m])
    /\ None \notin DOMAIN d /\ Gone \notin DOMAIN d

\* A commit that deletes nothing adds its rows and sets its columns.
LEMMA AfterAdds ==
  ASSUME NEW c, CatOK(c), NEW j, Adds(c, j)
  PROVE  Added(c, After(c, j), j)
<1> DEFINE d == After(c, j)
<1> DEFINE left == Without(c, j.del \cap DOMAIN c)
<1>1. DOMAIN j.new \cap DOMAIN c = {}
  BY DEF Adds
<1>2. Cascaded(c, j.del \cap DOMAIN c) = {}
  BY LessFalls DEF Adds, CatOK
<1>3. DOMAIN left = DOMAIN c /\ \A k \in DOMAIN left : \A m \in Columns(k) : left[k][m] = c[k][m]
  <2> DEFINE gone == j.del \cap DOMAIN c
  <2>1. left = Without(c, gone) /\ Cascaded(c, gone) = {}
    BY <1>2
  <2> HIDE DEF gone, left
  <2>2. /\ DOMAIN Without(c, gone) = DOMAIN c \ Cascaded(c, gone)
        /\ \A k \in DOMAIN Without(c, gone) : \A m \in Columns(k) :
             c[k][m] \notin Cascaded(c, gone) => Without(c, gone)[k][m] = c[k][m]
    BY WithoutIs
  <2> QED BY <2>1, <2>2
<1> HIDE DEF left
<1>4. Results(d, left, j)
  BY <1>1, AfterIs DEF left
<1> HIDE DEF d
<1>5. ASSUME NEW k \in DOMAIN c, NEW m \in Columns(k) PROVE Live(d, c[k][m]) = c[k][m]
  <2>1. Refers(c, k, m, c[k][m])
    BY TypedRows DEF CatOK, RowOK
  <2> QED BY <1>3, <1>4, <2>1 DEF Refers, Live, Results
<1>6. None \notin DOMAIN d /\ Gone \notin DOMAIN d
  BY <1>3, <1>4, ForeignIs DEF CatOK, Typed, Adds, Results
<1>7. Added(c, d, j)
  BY <1>3, <1>4, <1>5, <1>6 DEF Added, Results
<1> QED BY <1>7 DEF d

\* Such a catalogue has grown.
LEMMA GrowsAfter ==
  ASSUME NEW c, CatOK(c), NEW j, Adds(c, j)
  PROVE  Grows(c, After(c, j))
<1> DEFINE d == After(c, j)
<1>1. Added(c, d, j)
  BY AfterAdds
<1> HIDE DEF d
<1>2. ASSUME NEW k \in DOMAIN c, k[1] = "field"
      PROVE  d[k].table_id = c[k].table_id /\ d[k].related_table_id = c[k].related_table_id
  <2>1. "table_id" \in Columns(k) /\ "related_table_id" \in Columns(k) /\ Column(k, "table_id").to = "table"
    BY <1>2, CoreColumns, KindsAre
  <2>2. ~ SetBy(j, k, "related_table_id")
    BY <1>2 DEF SetBy, Adds
  <2>3. SetBy(j, k, "table_id") => d[k].table_id = c[k].table_id
    <3>1. SetBy(j, k, "table_id") => j.set[k]["table_id"] = c[k].table_id
      BY <1>2 DEF SetBy, Adds
    <3>2. Refers(c, k, "table_id", c[k].table_id)
      BY <2>1, TypedRows DEF CatOK, RowOK
    <3>3. Live(d, c[k].table_id) = c[k].table_id
      BY <1>1, <3>2 DEF Refers, Live, Added
    <3> QED BY <1>1, <2>1, <3>1, <3>3 DEF Added
  <2> QED BY <1>1, <2>1, <2>2, <2>3 DEF Added
<1>3. ASSUME NEW k \in DOMAIN c, k[1] = "relation" PROVE d[k].from_field_id = c[k].from_field_id
  <2>1. "from_field_id" \in Columns(k)
    BY <1>3, CoreColumns
  <2>2. ~ SetBy(j, k, "from_field_id")
    BY <1>3 DEF SetBy, Adds, Labels
  <2> QED BY <1>1, <2>1, <2>2 DEF Added
<1>4. Grows(c, d)
  BY <1>1, <1>2, <1>3 DEF Grows, Joined, Added
<1> QED BY <1>4 DEF d

\* Without a new relation, a column belongs to one as before.
LEMMA NoMoreRelations ==
  ASSUME NEW c, CatOK(c), Sane(c), NEW j, Adds(c, j), \A k \in DOMAIN j.new : k[1] # "relation"
  PROVE  OneRelation(After(c, j))
<1>1. Grows(c, After(c, j)) /\ Added(c, After(c, j), j)
  BY GrowsAfter, AfterAdds
<1>2. RowsIn(After(c, j), "relation") \subseteq DOMAIN c
  BY <1>1 DEF RowsIn, Added
<1> QED BY <1>1, <1>2, SameRelations DEF CatOK, Sane

\* A commit of sane rows leaves the catalogue sane.
LEMMA SaneAdds ==
  ASSUME NEW c, CatOK(c), Sane(c), NEW j, Adds(c, j), NEW d, d = After(c, j), OneRelation(d),
         \A k \in DOMAIN j.new \cup DOMAIN j.set : k \in DOMAIN d => SaneRow(d, k, d[k])
  PROVE  Sane(d)
<1>1. /\ DOMAIN d = DOMAIN c \cup DOMAIN j.new
      /\ \A k \in DOMAIN c : \A m \in Columns(k) : ~ SetBy(j, k, m) => d[k][m] = c[k][m]
      /\ \A k \in DOMAIN d : \A m \in Columns(k) : SetBy(j, k, m) => d[k][m] = Live(d, j.set[k][m])
      /\ None \notin DOMAIN d /\ Gone \notin DOMAIN d
  <2>1. Added(c, d, j)
    BY AfterAdds
  <2> QED BY <2>1 DEF Added
<1>2. Grows(c, d)
  BY GrowsAfter
<1>3. ASSUME NEW k \in DOMAIN c, k[1] = "field" PROVE d[k].related_table_id = c[k].related_table_id
  BY <1>2, <1>3 DEF Grows
<1>4. NoCycle(d)
  <2>1. RowsIn(d, "company") \subseteq DOMAIN c
    BY <1>1 DEF RowsIn, Adds
  <2>2. \A k \in RowsIn(d, "company") : d[k].parent_id = c[k].parent_id
    BY <1>1, <2>1, StepColumns DEF RowsIn, SetBy, Adds
  <2> QED BY <2>1, <2>2, SameCompanies DEF Sane
<1>5. ASSUME NEW k \in DOMAIN c, k \notin DOMAIN j.set PROVE SaneRow(d, k, d[k])
  <2>1. RowOK(c, k, c[k]) /\ SaneRow(c, k, c[k])
    BY TypedRows DEF CatOK, Sane
  <2>2. \A m \in Columns(k) : d[k][m] = c[k][m]
    BY <1>1, <1>5 DEF SetBy
  <2>3. k[1] = "relation" => Refers(c, k, "from_field_id", c[k].from_field_id)
                             /\ Column(k, "from_field_id").to = "field"
    BY <2>1, CoreColumns, KindsAre DEF RowOK
  <2>4. k[1] = "relation" /\ c[k].from_field_id \in DOMAIN c \cap DOMAIN d =>
          d[c[k].from_field_id].related_table_id = c[c[k].from_field_id].related_table_id
    BY <1>1, <1>3, <2>3, ForeignIs DEF Refers
  <2>5. \A r \in RowsIn(c, "relation") : r \in DOMAIN d
    BY <1>1 DEF RowsIn
  <2>6. k[1] = "field" => d[k].related_table_id = c[k].related_table_id
    BY <1>3
  <2>7. \A m : Keeps(k, m) => d[k][m] = c[k][m]
    BY <2>2, KeptColumns
  <2>8. Carried(c, d, k, c[k], d[k])
    BY <2>2, <2>4, <2>5, <2>6, <2>7 DEF Carried
  <2>9. Joined(c, d)
    BY <1>2 DEF Grows
  <2> QED BY <2>1, <2>8, <2>9, CarriedIs
<1>6. \A k \in DOMAIN d : SaneRow(d, k, d[k])
  BY <1>1, <1>5
<1> QED BY <1>4, <1>6 DEF Sane

\* What a request that starts now keeps to: its rows are new, and what it commits
\* leaves the catalogue sound.
Promise(c, j) == DOMAIN j.new \cap DOMAIN c = {} /\ Sane(After(c, j))

\* A request that adds sane rows promises a sane catalogue.
LEMMA PromiseAdds ==
  ASSUME NEW c, CatOK(c), Sane(c), NEW j, Adds(c, j), OneRelation(After(c, j)),
         \A k \in DOMAIN j.new \cup DOMAIN j.set :
           k \in DOMAIN After(c, j) => SaneRow(After(c, j), k, After(c, j)[k])
  PROVE  Promise(c, j)
<1>1. Sane(After(c, j))
  BY SaneAdds
<1> QED BY <1>1 DEF Promise, Adds

\* Columns that no row has had belong to no relation.
LEMMA OneMoreRelation ==
  ASSUME NEW c, CatOK(c), Sane(c), NEW j, Adds(c, j), NEW d, d = After(c, j),
         \A r, s \in RowsIn(d, "relation") :
           /\ r \notin DOMAIN c => d[r].from_field_id \notin DOMAIN c
           /\ r \notin DOMAIN c /\ s \notin DOMAIN c /\ d[r].from_field_id \in DOMAIN d
                /\ d[r].from_field_id = d[s].from_field_id => r = s
  PROVE  OneRelation(d)
<1>1. Added(c, d, j) /\ Grows(c, d)
  BY AfterAdds, GrowsAfter
<1>2. ASSUME NEW r \in RowsIn(d, "relation"), r \in DOMAIN c
      PROVE  /\ r \in RowsIn(c, "relation") /\ d[r].from_field_id = c[r].from_field_id
             /\ c[r].from_field_id \in DOMAIN c \cup {None, Gone}
  <2>1. r[1] = "relation" /\ RowOK(c, r, c[r])
    BY <1>2, TypedRows DEF RowsIn, CatOK
  <2>2. Refers(c, r, "from_field_id", c[r].from_field_id)
    BY <2>1, CoreColumns DEF RowOK
  <2> QED BY <1>1, <1>2, <2>1, <2>2 DEF Refers, Grows, Joined, RowsIn
<1>3. None \notin DOMAIN d /\ Gone \notin DOMAIN d
  BY <1>1 DEF Added
<1>4. ASSUME NEW r \in RowsIn(d, "relation"), NEW s \in RowsIn(d, "relation"),
             d[r].from_field_id \in DOMAIN d, d[r].from_field_id = d[s].from_field_id
      PROVE  r = s
  <2>1. CASE r \in DOMAIN c /\ s \in DOMAIN c
    BY <1>2, <1>3, <1>4, <2>1 DEF Sane, OneRelation
  <2>2. CASE r \in DOMAIN c /\ s \notin DOMAIN c
    BY <1>2, <1>3, <1>4, <2>2
  <2>3. CASE r \notin DOMAIN c /\ s \in DOMAIN c
    BY <1>2, <1>3, <1>4, <2>3
  <2>4. CASE r \notin DOMAIN c /\ s \notin DOMAIN c
    BY <1>4, <2>4
  <2> QED BY <2>1, <2>2, <2>3, <2>4
<1> QED BY <1>4 DEF OneRelation

\* A field for a column of the table t: none, one of its own, or one that comes along.
FieldFor(c, j, f, t) ==
    \/ f \in {None, Gone}
    \/ f \in FieldsIn(c, t)
    \/ f \in DOMAIN j.new /\ f[1] = "field" /\ j.new[f].table_id = t

\* A table that is there, or that comes along.
TableFor(c, j, t) == t \in DOMAIN c \/ (t \in DOMAIN j.new /\ t[1] = "table")

\* A column of a relation that comes along, for no other relation.
ColumnFor(j, r, f) ==
    /\ f \in DOMAIN j.new /\ f[1] = "field"
    /\ j.new[f].table_id = j.new[r].from_table_id
    /\ j.new[f].related_table_id = j.new[r].to_table_id
    /\ \A s \in DOMAIN j.new : s[1] = "relation" /\ j.new[s].from_field_id = f => s = r

\* A row that is added fits what is there and what comes along.
NewFits(c, j, k) ==
    \/ /\ k[1] = "table" /\ FieldFor(c, j, j.new[k].display_field_id, k)
       /\ j.new[k].source_id \in DOMAIN c \cup {None}
    \/ /\ k[1] = "field" /\ TableFor(c, j, j.new[k].table_id)
       /\ j.new[k].related_table_id # None =>
            \E r \in DOMAIN j.new : r[1] = "relation" /\ j.new[r].from_field_id = k
    \/ /\ k[1] = "relation"
       /\ TableFor(c, j, j.new[k].from_table_id) /\ TableFor(c, j, j.new[k].to_table_id)
       /\ j.new[k].from_display_field_ids = None /\ j.new[k].to_display_field_ids = None
       /\ j.new[k].from_field_id # None => ColumnFor(j, k, j.new[k].from_field_id)
    \/ /\ k[1] = "unique" /\ TableFor(c, j, j.new[k].table_id)
       /\ FieldFor(c, j, j.new[k].field_ids, j.new[k].table_id)

\* A column that is set is a label, or gets what it had.
SetFits(c, j, k, m) ==
    /\ k \in DOMAIN c
    /\ \/ k[1] = "table" /\ m = "display_field_id" /\ FieldFor(c, j, j.set[k][m], k)
       \/ k[1] = "table" /\ m = "source_id" /\ j.set[k][m] \in DOMAIN c \cup {None}
       \/ /\ k[1] = "relation" /\ m = "from_display_field_ids"
          /\ FieldFor(c, j, j.set[k][m], c[k].from_table_id)
       \/ /\ k[1] = "relation" /\ m = "to_display_field_ids"
          /\ FieldFor(c, j, j.set[k][m], c[k].to_table_id)
       \/ k[1] = "field" /\ m = "table_id" /\ j.set[k][m] = c[k].table_id

\* A request that only adds, and whose rows fit.
Additive(c, j) ==
    /\ j.del = {}
    /\ \A k \in DOMAIN j.new : k \in Keys /\ NewFits(c, j, k)
    /\ \A k, m : SetBy(j, k, m) => SetFits(c, j, k, m)

\* What was there is there, and hangs together in the same way.
Later(c, c2) ==
    /\ Grows(c, c2)
    /\ \A r \in DOMAIN c : r[1] = "relation" =>
         c2[r].from_table_id = c[r].from_table_id /\ c2[r].to_table_id = c[r].to_table_id

\* Rows that fit still do when others have been added in the meantime.
LEMMA AdditiveLater ==
  ASSUME NEW c, NEW c2, Later(c, c2), NEW j, Additive(c, j)
  PROVE  Additive(c2, j)
<1>1. /\ DOMAIN c \subseteq DOMAIN c2
      /\ \A k \in DOMAIN c : k[1] = "field" => c2[k].table_id = c[k].table_id
      /\ \A k \in DOMAIN c : k[1] = "relation" =>
           c2[k].from_table_id = c[k].from_table_id /\ c2[k].to_table_id = c[k].to_table_id
  BY DEF Later, Grows, Joined
<1>2. \A f, t : FieldFor(c, j, f, t) => FieldFor(c2, j, f, t)
  BY <1>1 DEF FieldFor, FieldsIn, RowsIn
<1>3. \A t : TableFor(c, j, t) => TableFor(c2, j, t)
  BY <1>1 DEF TableFor
<1>4. ASSUME NEW k \in DOMAIN j.new PROVE NewFits(c2, j, k)
  <2>1. NewFits(c, j, k)
    BY DEF Additive
  <2> QED BY <1>1, <1>2, <1>3, <2>1 DEF NewFits
<1>5. ASSUME NEW k, NEW m, SetBy(j, k, m) PROVE SetFits(c2, j, k, m)
  <2>1. SetFits(c, j, k, m)
    BY <1>5 DEF Additive
  <2> QED BY <1>1, <1>2, <2>1 DEF SetFits
<1> QED BY <1>4, <1>5 DEF Additive

\* Without some of the indexes.
Less(new, lost) == [k \in DOMAIN new \ lost |-> new[k]]

\* They fit without an index that is not recorded.
LEMMA AdditiveLess ==
  ASSUME NEW c, NEW j, Additive(c, j), NEW lost, \A k \in lost : k[1] = "unique",
         NEW i, i.new = Less(j.new, lost), i.set = j.set, i.del = j.del
  PROVE  Additive(c, i)
<1>1. DOMAIN i.new = DOMAIN j.new \ lost /\ \A k \in DOMAIN i.new : i.new[k] = j.new[k]
  BY DEF Less
<1>2. \A k \in DOMAIN j.new : k[1] # "unique" => k \in DOMAIN i.new
  BY <1>1
<1>3. \A f, t : FieldFor(c, j, f, t) => FieldFor(c, i, f, t)
  BY <1>1, <1>2 DEF FieldFor
<1>4. \A t : TableFor(c, j, t) => TableFor(c, i, t)
  BY <1>2 DEF TableFor
<1>5. ASSUME NEW k \in DOMAIN i.new PROVE NewFits(c, i, k)
  <2>1. NewFits(c, j, k) /\ i.new[k] = j.new[k]
    BY <1>1 DEF Additive
  <2>2. \A f : ColumnFor(j, k, f) => ColumnFor(i, k, f)
    BY <1>1, <1>2 DEF ColumnFor
  <2>3. \A r \in DOMAIN j.new : r[1] = "relation" => r \in DOMAIN i.new /\ i.new[r] = j.new[r]
    BY <1>1, <1>2
  <2> QED BY <1>3, <1>4, <2>1, <2>2, <2>3 DEF NewFits
<1>6. ASSUME NEW k, NEW m, SetBy(i, k, m) PROVE SetFits(c, i, k, m)
  <2>1. SetFits(c, j, k, m)
    BY <1>6 DEF SetBy, Additive
  <2> QED BY <1>3, <2>1 DEF SetFits
<1> QED BY <1>1, <1>5, <1>6 DEF Additive

\* What a request adds and sets is read column by column.
SameRows(j, i) ==
    /\ i.del = j.del /\ DOMAIN i.new = DOMAIN j.new /\ DOMAIN i.set = DOMAIN j.set
    /\ \A k \in DOMAIN j.new : \A m \in Columns(k) : i.new[k][m] = j.new[k][m]
    /\ \A k \in DOMAIN j.set : /\ DOMAIN i.set[k] = DOMAIN j.set[k]
                               /\ \A m \in DOMAIN j.set[k] : i.set[k][m] = j.set[k][m]

LEMMA AdditiveSame ==
  ASSUME NEW c, NEW j, Additive(c, j), NEW i, SameRows(j, i)
  PROVE  Additive(c, i)
<1>1. /\ \A k \in DOMAIN j.new : k[1] = "table" =>
           i.new[k].display_field_id = j.new[k].display_field_id /\ i.new[k].source_id = j.new[k].source_id
      /\ \A k \in DOMAIN j.new : k[1] = "field" =>
           i.new[k].table_id = j.new[k].table_id /\ i.new[k].related_table_id = j.new[k].related_table_id
      /\ \A k \in DOMAIN j.new : k[1] = "unique" =>
           i.new[k].table_id = j.new[k].table_id /\ i.new[k].field_ids = j.new[k].field_ids
      /\ \A k \in DOMAIN j.new : k[1] = "relation" =>
           /\ i.new[k].from_table_id = j.new[k].from_table_id /\ i.new[k].to_table_id = j.new[k].to_table_id
           /\ i.new[k].from_field_id = j.new[k].from_field_id
           /\ i.new[k].from_display_field_ids = j.new[k].from_display_field_ids
           /\ i.new[k].to_display_field_ids = j.new[k].to_display_field_ids
  BY CoreColumns DEF SameRows
<1>2. \A f, t : FieldFor(c, j, f, t) => FieldFor(c, i, f, t)
  BY <1>1 DEF FieldFor, SameRows
<1>3. \A t : TableFor(c, j, t) => TableFor(c, i, t)
  BY DEF TableFor, SameRows
<1>4. ASSUME NEW k \in DOMAIN i.new PROVE NewFits(c, i, k)
  <2>1. k \in DOMAIN j.new /\ NewFits(c, j, k)
    BY DEF Additive, SameRows
  <2>2. k[1] = "relation" => \A f : ColumnFor(j, k, f) => ColumnFor(i, k, f)
    BY <1>1, <2>1 DEF ColumnFor, SameRows
  <2>3. \A r \in DOMAIN j.new : r[1] = "relation" =>
          r \in DOMAIN i.new /\ i.new[r].from_field_id = j.new[r].from_field_id
    BY <1>1 DEF SameRows
  <2>4. CASE k[1] = "table"
    BY <1>1, <1>2, <2>1, <2>4 DEF NewFits
  <2>5. CASE k[1] = "field"
    BY <1>1, <1>3, <2>1, <2>3, <2>5 DEF NewFits
  <2>6. CASE k[1] = "relation"
    BY <1>1, <1>3, <2>1, <2>2, <2>6 DEF NewFits
  <2>7. CASE k[1] = "unique"
    BY <1>1, <1>2, <1>3, <2>1, <2>7 DEF NewFits
  <2> QED BY <2>1, <2>4, <2>5, <2>6, <2>7 DEF NewFits
<1>5. ASSUME NEW k, NEW m, SetBy(i, k, m) PROVE SetFits(c, i, k, m)
  <2>1. SetBy(j, k, m) /\ i.set[k][m] = j.set[k][m]
    BY <1>5 DEF SetBy, SameRows
  <2>2. SetFits(c, j, k, m)
    BY <2>1 DEF Additive
  <2> QED BY <1>2, <2>1, <2>2 DEF SetFits
<1>6. i.del = {} /\ \A k \in DOMAIN i.new : k \in Keys
  BY DEF Additive, SameRows
<1> QED BY <1>4, <1>5, <1>6 DEF Additive

\* Nothing fits everywhere.
LEMMA AdditiveNothing ==
  ASSUME NEW c, NEW j, j.new = Nothing, j.set = Nothing, j.del = {}
  PROVE  Additive(c, j)
<1>1. DOMAIN j.new = {} /\ DOMAIN j.set = {}
  BY DEF Nothing
<1> QED BY <1>1 DEF Additive, SetBy

\* Rows that fit leave a sane catalogue, and one that is a later one.
LEMMA AdditiveSane ==
  ASSUME NEW c, CatOK(c), Sane(c), NEW j, Additive(c, j), DOMAIN j.new \cap DOMAIN c = {}
  PROVE  Sane(After(c, j)) /\ Later(c, After(c, j))
<1> DEFINE d == After(c, j)
<1>1. /\ \A k \in DOMAIN j.new : k \in Keys /\ k \notin DOMAIN c /\ NewFits(c, j, k)
      /\ \A k, m : SetBy(j, k, m) => SetFits(c, j, k, m)
  BY DEF Additive
<1>2. Adds(c, j)
  <2>1. \A k \in DOMAIN j.new : k[1] # "company"
    BY <1>1 DEF NewFits
  <2>2. ASSUME NEW k \in DOMAIN j.set, NEW m \in DOMAIN j.set[k] PROVE SetFits(c, j, k, m)
    BY <1>1 DEF SetBy
  <2> QED BY <1>1, <2>1, <2>2 DEF Adds, SetFits, Labels, Additive
<1>3. Added(c, d, j) /\ Grows(c, d) /\ d = After(c, j)
  BY <1>2, AfterAdds, GrowsAfter
<1> HIDE DEF d
<1>4. /\ DOMAIN d = DOMAIN c \cup DOMAIN j.new /\ None \notin DOMAIN d /\ Gone \notin DOMAIN d
      /\ None # Gone
      /\ \A k \in DOMAIN j.new : \A m \in Columns(k) : d[k][m] = Live(d, j.new[k][m])
      /\ \A k \in DOMAIN c : \A m \in Columns(k) :
           d[k][m] = IF SetBy(j, k, m) THEN Live(d, j.set[k][m]) ELSE c[k][m]
  BY <1>1, <1>3, ForeignIs DEF Added, SetFits
<1>5. \A v : Live(d, v) = IF v \in DOMAIN d \cup {None} THEN v ELSE Gone
  BY DEF Live
<1>6. ASSUME NEW t, TableFor(c, j, t) PROVE t \in DOMAIN d /\ Live(d, t) = t
  BY <1>4, <1>5, <1>6 DEF TableFor
<1>7. ASSUME NEW f \in DOMAIN j.new, f[1] = "field"
      PROVE  /\ f \in DOMAIN d /\ d[f].table_id = j.new[f].table_id
             /\ d[f].related_table_id = Live(d, j.new[f].related_table_id)
  <2>1. TableFor(c, j, j.new[f].table_id)
    BY <1>1, <1>7 DEF NewFits
  <2>2. "table_id" \in Columns(f) /\ "related_table_id" \in Columns(f)
    BY <1>7, CoreColumns
  <2> QED BY <1>4, <1>6, <2>1, <2>2
<1>8. ASSUME NEW f, NEW t, FieldFor(c, j, f, t) PROVE FieldOf(d, Live(d, f), t)
  <2>1. CASE f \in {None, Gone}
    BY <1>4, <1>5, <2>1 DEF FieldOf
  <2>2. CASE f \in FieldsIn(c, t)
    <3>1. f \in DOMAIN c /\ f[1] = "field" /\ c[f].table_id = t
      BY <2>2 DEF FieldsIn, RowsIn
    <3>2. f \in DOMAIN d /\ d[f].table_id = t
      BY <1>3, <3>1 DEF Grows, Joined
    <3> QED BY <1>5, <3>2 DEF FieldOf
  <2>3. CASE f \in DOMAIN j.new /\ f[1] = "field" /\ j.new[f].table_id = t
    BY <1>5, <1>7, <2>3 DEF FieldOf
  <2> QED BY <1>8, <2>1, <2>2, <2>3 DEF FieldFor
<1>9. ASSUME NEW r \in DOMAIN j.new, r[1] = "relation"
      PROVE  /\ d[r].from_table_id = j.new[r].from_table_id /\ d[r].from_table_id \in DOMAIN d
             /\ d[r].to_table_id = j.new[r].to_table_id /\ d[r].to_table_id \in DOMAIN d
             /\ d[r].from_field_id = j.new[r].from_field_id
             /\ d[r].from_field_id # None => ColumnFor(j, r, d[r].from_field_id)
             /\ d[r].from_display_field_ids = None /\ d[r].to_display_field_ids = None
  <2>1. /\ TableFor(c, j, j.new[r].from_table_id) /\ TableFor(c, j, j.new[r].to_table_id)
        /\ j.new[r].from_display_field_ids = None /\ j.new[r].to_display_field_ids = None
        /\ j.new[r].from_field_id # None => ColumnFor(j, r, j.new[r].from_field_id)
    BY <1>1, <1>9 DEF NewFits
  <2>2. Columns(r) = {"from_table_id", "to_table_id", "from_field_id",
                      "from_display_field_ids", "to_display_field_ids"}
    BY <1>9, CoreColumns
  <2>3. j.new[r].from_field_id \in DOMAIN d \cup {None}
    BY <1>4, <2>1 DEF ColumnFor
  <2>4. /\ Live(d, j.new[r].from_table_id) = j.new[r].from_table_id /\ j.new[r].from_table_id \in DOMAIN d
        /\ Live(d, j.new[r].to_table_id) = j.new[r].to_table_id /\ j.new[r].to_table_id \in DOMAIN d
        /\ Live(d, j.new[r].from_field_id) = j.new[r].from_field_id /\ Live(d, None) = None
    BY <1>5, <1>6, <2>1, <2>3
  <2>5. \A m \in Columns(r) : d[r][m] = Live(d, j.new[r][m])
    BY <1>4
  <2> QED BY <2>1, <2>2, <2>4, <2>5
<1>10. ASSUME NEW k \in DOMAIN j.new PROVE SaneRow(d, k, d[k])
  <2>1. NewFits(c, j, k) /\ k \in DOMAIN d /\ \A m \in Columns(k) : d[k][m] = Live(d, j.new[k][m])
    BY <1>1, <1>4
  <2>2. CASE k[1] = "table"
    <3>1. FieldFor(c, j, j.new[k].display_field_id, k) /\ j.new[k].source_id \in DOMAIN c \cup {None}
      BY <2>1, <2>2 DEF NewFits
    <3>2. d[k].display_field_id = Live(d, j.new[k].display_field_id)
          /\ d[k].source_id = Live(d, j.new[k].source_id)
      BY <2>1, <2>2, CoreColumns
    <3>3. d[k].source_id # Gone
      BY <1>4, <1>5, <3>1, <3>2
    <3> QED BY <1>8, <2>2, <3>1, <3>2, <3>3 DEF SaneRow
  <2>3. CASE k[1] = "field"
    <3>1. ASSUME d[k].related_table_id # None
          PROVE  \E r \in RowsIn(d, "relation") : d[r].from_field_id = k
      <4>1. j.new[k].related_table_id # None
        BY <1>5, <1>7, <2>3, <3>1
      <4>2. PICK r \in DOMAIN j.new : r[1] = "relation" /\ j.new[r].from_field_id = k
        BY <2>1, <2>3, <4>1 DEF NewFits
      <4> QED BY <1>4, <1>9, <4>2 DEF RowsIn
    <3> QED BY <2>3, <3>1 DEF SaneRow
  <2>4. CASE k[1] = "relation"
    <3> DEFINE f == d[k].from_field_id
    <3>1. /\ d[k].from_table_id \notin {None, Gone} /\ d[k].to_table_id \notin {None, Gone}
          /\ FieldOf(d, None, d[k].from_table_id) /\ FieldOf(d, None, d[k].to_table_id)
      BY <1>4, <1>9, <2>4 DEF FieldOf
    <3>2. CASE f = None
      BY <1>4, <1>9, <2>4, <3>1, <3>2 DEF SaneRow, FieldOf
    <3>3. CASE f # None
      <4>1. /\ f \in DOMAIN j.new /\ f[1] = "field" /\ j.new[f].table_id = d[k].from_table_id
            /\ j.new[f].related_table_id = d[k].to_table_id
        BY <1>9, <2>4, <3>3 DEF ColumnFor
      <4>2. f \in DOMAIN d /\ d[f].table_id = d[k].from_table_id
            /\ d[f].related_table_id = d[k].to_table_id /\ f # Gone
        BY <1>4, <1>5, <1>7, <1>9, <2>4, <4>1
      <4> QED BY <1>9, <2>4, <3>1, <4>2 DEF SaneRow, FieldOf
    <3> QED BY <3>2, <3>3
  <2>5. CASE k[1] = "unique"
    <3>1. TableFor(c, j, j.new[k].table_id) /\ FieldFor(c, j, j.new[k].field_ids, j.new[k].table_id)
      BY <2>1, <2>5 DEF NewFits
    <3>2. d[k].table_id = j.new[k].table_id /\ d[k].field_ids = Live(d, j.new[k].field_ids)
      BY <1>6, <2>1, <2>5, <3>1, CoreColumns
    <3> QED BY <1>8, <2>5, <3>1, <3>2 DEF SaneRow
  <2> QED BY <2>1, <2>2, <2>3, <2>4, <2>5 DEF NewFits
<1>11. ASSUME NEW k \in DOMAIN c, k \in DOMAIN j.set PROVE SaneRow(d, k, d[k])
  <2>1. RowOK(c, k, c[k]) /\ SaneRow(d, k, c[k])
    BY <1>3, GrownRow, TypedRows DEF CatOK, Sane
  <2>2. \A m \in Columns(k) : d[k][m] = IF SetBy(j, k, m) THEN Live(d, j.set[k][m]) ELSE c[k][m]
    BY <1>4
  <2>3. CASE k[1] = "table"
    <3>1. Columns(k) = {"display_field_id", "source_id"}
      BY <2>3, CoreColumns
    <3>2. SetBy(j, k, "display_field_id") => FieldFor(c, j, j.set[k]["display_field_id"], k)
      BY <1>1, <2>3 DEF SetFits
    <3>3. SetBy(j, k, "source_id") => j.set[k]["source_id"] \in DOMAIN c \cup {None}
      BY <1>1, <2>3 DEF SetFits
    <3>4. FieldOf(d, d[k].display_field_id, k)
      BY <1>8, <2>1, <2>2, <2>3, <3>1, <3>2 DEF SaneRow
    <3>5. d[k].source_id # Gone
      BY <1>4, <1>5, <2>1, <2>2, <2>3, <3>1, <3>3 DEF SaneRow
    <3> QED BY <2>3, <3>4, <3>5 DEF SaneRow
  <2>4. CASE k[1] = "relation"
    <3>1. Columns(k) = {"from_table_id", "to_table_id", "from_field_id",
                        "from_display_field_ids", "to_display_field_ids"}
      BY <2>4, CoreColumns
    <3>2. /\ SetBy(j, k, "from_display_field_ids") =>
               FieldFor(c, j, j.set[k]["from_display_field_ids"], c[k].from_table_id)
          /\ SetBy(j, k, "to_display_field_ids") =>
               FieldFor(c, j, j.set[k]["to_display_field_ids"], c[k].to_table_id)
          /\ \A m : SetBy(j, k, m) => m \in Labels
      BY <1>1, <2>4 DEF SetFits, Labels
    <3>3. /\ d[k].from_table_id = c[k].from_table_id /\ d[k].to_table_id = c[k].to_table_id
          /\ d[k].from_field_id = c[k].from_field_id
      BY <2>2, <3>1, <3>2 DEF Labels
    <3>4. FieldOf(d, d[k].from_display_field_ids, c[k].from_table_id)
      BY <1>8, <2>1, <2>2, <2>4, <3>1, <3>2 DEF SaneRow
    <3>5. FieldOf(d, d[k].to_display_field_ids, c[k].to_table_id)
      BY <1>8, <2>1, <2>2, <2>4, <3>1, <3>2 DEF SaneRow
    <3> QED BY <2>1, <2>4, <3>3, <3>4, <3>5 DEF SaneRow
  <2>5. CASE k[1] = "field"
    <3>1. "related_table_id" \in Columns(k)
      BY <2>5, CoreColumns
    <3>2. ~ SetBy(j, k, "related_table_id")
      BY <1>1, <2>5 DEF SetFits
    <3>3. d[k].related_table_id = c[k].related_table_id
      BY <2>2, <3>1, <3>2
    <3> QED BY <2>1, <2>5, <3>3 DEF SaneRow
  <2>6. CASE k[1] \notin {"table", "relation", "field"}
    <3>1. \A m \in Columns(k) : d[k][m] = c[k][m]
      BY <1>1, <2>2, <2>6 DEF SetFits
    <3>2. SaneRow(c, k, c[k]) /\ Joined(c, d)
      BY <1>3 DEF Sane, Grows
    <3>3. \A m : Keeps(k, m) => d[k][m] = c[k][m]
      BY <3>1, KeptColumns
    <3>4. Carried(c, d, k, c[k], d[k])
      BY <2>6, <3>1, <3>3 DEF Carried
    <3> QED BY <2>1, <3>2, <3>4, CarriedIs
  <2> QED BY <2>3, <2>4, <2>5, <2>6
<1>12. OneRelation(d)
  <2>1. ASSUME NEW r \in RowsIn(d, "relation"), r \notin DOMAIN c
        PROVE  /\ r \in DOMAIN j.new /\ d[r].from_field_id \notin DOMAIN c
               /\ d[r].from_field_id = j.new[r].from_field_id
               /\ d[r].from_field_id # None => ColumnFor(j, r, d[r].from_field_id)
    <3>1. r \in DOMAIN j.new /\ r[1] = "relation"
      BY <1>4, <2>1 DEF RowsIn
    <3>2. None \notin DOMAIN c
      BY <1>4
    <3> QED BY <1>1, <1>9, <3>1, <3>2 DEF ColumnFor
  <2>2. ASSUME NEW r \in RowsIn(d, "relation"), NEW s \in RowsIn(d, "relation"),
               r \notin DOMAIN c, s \notin DOMAIN c,
               d[r].from_field_id \in DOMAIN d, d[r].from_field_id = d[s].from_field_id
        PROVE  r = s
    <3>1. ColumnFor(j, r, d[r].from_field_id) /\ s \in DOMAIN j.new /\ s[1] = "relation"
          /\ j.new[s].from_field_id = d[r].from_field_id
      BY <1>4, <2>1, <2>2 DEF RowsIn
    <3> QED BY <3>1 DEF ColumnFor
  <2> QED BY <1>2, <1>3, <2>1, <2>2, OneMoreRelation
<1>13. Sane(d)
  <2>1. \A k \in DOMAIN j.new \cup DOMAIN j.set : k \in DOMAIN d => SaneRow(d, k, d[k])
    BY <1>4, <1>10, <1>11
  <2> QED BY <1>2, <1>3, <1>12, <2>1, SaneAdds
<1>14. Later(c, d)
  <2>1. ASSUME NEW r \in DOMAIN c, r[1] = "relation"
        PROVE  d[r].from_table_id = c[r].from_table_id /\ d[r].to_table_id = c[r].to_table_id
    <3>1. "from_table_id" \in Columns(r) /\ "to_table_id" \in Columns(r)
      BY <2>1, CoreColumns
    <3>2. ~ SetBy(j, r, "from_table_id") /\ ~ SetBy(j, r, "to_table_id")
      BY <1>1, <2>1 DEF SetFits
    <3> QED BY <1>4, <3>1, <3>2
  <2> QED BY <1>3, <2>1 DEF Later
<1> QED BY <1>13, <1>14 DEF d

\* The names and ids that are given are of no row.
LEMMA NameIsNew ==
  ASSUME topic.each \in Nat, NEW class \in Classes, NEW t, NEW k \in Names(class, t)
  PROVE  k \in Keys /\ k[1] = class /\ k \notin DOMAIN cat
  BY NamesAre

\* The parts of a new request.
LEMMA AskedIs ==
  ASSUME NEW by, NEW todo, NEW new, NEW set, NEW del
  PROVE  LET j == Asked(by, todo, new, set, del) IN
         /\ j.by = by /\ j.todo = todo /\ j.new = new /\ j.set = set /\ j.del = del
  BY DEF Asked

\* A request that is made, and what comes of it.
Makes(d) ==
    \E by, todo, new, set, del :
      /\ by \notin Whole /\ Start(d, by, todo, new, set, del)
      /\ IF del = {} THEN Additive(cat, Asked(by, todo, new, set, del))
         ELSE Promise(cat, Asked(by, todo, new, set, del))

\* A request that sets nothing: its rows fit when each does.
LEMMA OnlyNew ==
  ASSUME NEW c, NEW j, j.set = Nothing, j.del = {}, \A k \in DOMAIN j.new : k \in Keys /\ NewFits(c, j, k)
  PROVE  Additive(c, j)
  BY DEF Additive, SetBy, Nothing

\* A request that adds nothing and sets columns of one row.
LEMMA OnlySet ==
  ASSUME NEW c, NEW j, j.new = Nothing, j.del = {}, NEW k,
         \A x, m : SetBy(j, x, m) => x = k, \A m : SetBy(j, k, m) => SetFits(c, j, k, m)
  PROVE  Additive(c, j)
  BY DEF Additive, Nothing

\* The requests of a designer, one by one: what each adds fits, and each deletion
\* promises a sane catalogue.
LEMMA SaneTableNew ==
  ASSUME CatOK(cat), Sane(cat), topic.each \in Nat, NEW d \in Designers, table_new(d)
  PROVE  Makes(d)
<1> DEFINE Made(t, s) == Row(t, [display_field_id |-> None, source_id |-> s])
<1>1. PICK t \in NewTables, s \in Rows("source") \cup {None} :
        \/ \E todo : Start(d, "table_new", todo, Made(t, s), Nothing, {})
        \/ \E f \in Names("field", None) : \E todo :
             Start(d, "table_new", todo, Both(Made(t, s), Row(f, Field(t, None))), Nothing, {})
  BY DEF table_new
<1> DEFINE table == Made(t, s)
<1>2. t \in Keys /\ t[1] = "table" /\ t \notin DOMAIN cat
  BY <1>1, NameIsNew, CoreClasses DEF NewTables
<1>3. DOMAIN table = {t} /\ table[t].display_field_id = None /\ table[t].source_id = s
      /\ s \in DOMAIN cat \cup {None}
  BY <1>1 DEF Row, Rows, RowsIn
<1> HIDE DEF Made, table
<1>4. ASSUME NEW todo, Start(d, "table_new", todo, table, Nothing, {}) PROVE Makes(d)
  <2> DEFINE j == Asked("table_new", todo, table, Nothing, {})
  <2>1. j.new = table /\ j.set = Nothing /\ j.del = {}
    BY AskedIs
  <2> HIDE DEF j
  <2>2. NewFits(cat, j, t)
    BY <1>2, <1>3, <2>1 DEF NewFits, FieldFor
  <2>3. Additive(cat, j)
    BY <1>2, <1>3, <2>1, <2>2, OnlyNew
  <2> QED BY <1>4, <2>3 DEF Makes, Whole, j
<1>5. ASSUME NEW f \in Names("field", None), NEW todo,
             Start(d, "table_new", todo, Both(table, Row(f, Field(t, None))), Nothing, {})
      PROVE  Makes(d)
  <2> DEFINE new == Both(table, Row(f, Field(t, None)))
             j == Asked("table_new", todo, new, Nothing, {})
  <2>1. f \in Keys /\ f[1] = "field"
    BY NameIsNew, CoreClasses
  <2>2. /\ DOMAIN new = {t, f} /\ new[t] = table[t]
        /\ new[f].table_id = t /\ new[f].related_table_id = None
    BY <1>2, <1>3, <2>1 DEF Both, Row, Field
  <2>3. j.new = new /\ j.set = Nothing /\ j.del = {}
    BY AskedIs
  <2> HIDE DEF new, j
  <2>4. NewFits(cat, j, t) /\ NewFits(cat, j, f)
    BY <1>2, <1>3, <2>1, <2>2, <2>3 DEF NewFits, FieldFor, TableFor
  <2>5. Additive(cat, j)
    BY <1>2, <2>1, <2>2, <2>3, <2>4, OnlyNew
  <2> QED BY <1>5, <2>5 DEF Makes, Whole, j, new
<1> QED BY <1>1, <1>4, <1>5 DEF table

\* A new table whose display field comes with it.
LEMMA SaneTableFromCsv ==
  ASSUME CatOK(cat), Sane(cat), topic.each \in Nat, NEW d \in Designers, table_from_csv(d)
  PROVE  Makes(d)
<1> DEFINE New(t, f) == Both(Row(t, [display_field_id |-> f, source_id |-> None]), Row(f, Field(t, None)))
           Todo(t, f) == <<Flush, Build({Table(t), ColumnOf(New(t, f), f)}), Commit>>
<1>1. PICK t \in NewTables, f \in Names("field", None) :
        Start(d, "table_from_csv", Todo(t, f), New(t, f), Nothing, {})
  BY DEF table_from_csv
<1> DEFINE new == New(t, f)
           j == Asked("table_from_csv", Todo(t, f), new, Nothing, {})
<1>2. t \in Keys /\ t[1] = "table"
  BY <1>1, NameIsNew, CoreClasses DEF NewTables
<1>3. f \in Keys /\ f[1] = "field"
  BY <1>1, NameIsNew, CoreClasses
<1>4. /\ DOMAIN new = {t, f} /\ new[t].display_field_id = f /\ new[t].source_id = None
      /\ new[f].table_id = t /\ new[f].related_table_id = None
  BY <1>2, <1>3 DEF Both, Row, Field
<1>5. j.new = new /\ j.set = Nothing /\ j.del = {}
  BY AskedIs
<1> HIDE DEF New, Todo, new, j
<1>6. NewFits(cat, j, t) /\ NewFits(cat, j, f)
  BY <1>2, <1>3, <1>4, <1>5 DEF NewFits, FieldFor, TableFor
<1>7. Additive(cat, j)
  BY <1>2, <1>3, <1>4, <1>5, <1>6, OnlyNew
<1> QED BY <1>1, <1>7 DEF Makes, Whole, j, new

\* A new field may become the display field of its table.
LEMMA SaneFieldAdd ==
  ASSUME CatOK(cat), Sane(cat), topic.each \in Nat, NEW d \in Designers, field_add(d)
  PROVE  Makes(d)
<1> DEFINE New(t, f) == Row(f, Field(t, None))
           Todo(t, f) == <<Flush, Build({ColumnOf(New(t, f), f)}), Commit>>
<1>1. PICK t, f, set :
        /\ t \in OwnTables /\ f \in Names("field", t) /\ set \in {SetOf(t, "display_field_id", f), Nothing}
        /\ Start(d, "field_add", Todo(t, f), New(t, f), set, {})
  BY DEF field_add
<1> DEFINE new == New(t, f)
           j == Asked("field_add", Todo(t, f), new, set, {})
<1>2. t \in DOMAIN cat /\ t[1] = "table"
  BY <1>1 DEF OwnTables, Rows, RowsIn
<1>3. f \in Keys /\ f[1] = "field"
  BY <1>1, NameIsNew, CoreClasses
<1>4. DOMAIN new = {f} /\ new[f].table_id = t /\ new[f].related_table_id = None
  BY DEF Row, Field
<1>5. j.new = new /\ j.set = set /\ j.del = {}
  BY AskedIs
<1>6. \A k, m : SetBy(j, k, m) => k = t /\ m = "display_field_id" /\ j.set[k][m] = f
  BY <1>1, <1>5 DEF SetBy, SetOf, Nothing
<1> HIDE DEF New, Todo, new, j
<1>7. NewFits(cat, j, f) /\ FieldFor(cat, j, f, t)
  BY <1>2, <1>3, <1>4, <1>5 DEF NewFits, FieldFor, TableFor
<1>8. \A k, m : SetBy(j, k, m) => SetFits(cat, j, k, m)
  BY <1>2, <1>6, <1>7 DEF SetFits
<1>9. Additive(cat, j)
  BY <1>3, <1>4, <1>5, <1>7, <1>8 DEF Additive
<1> QED BY <1>1, <1>9 DEF Makes, Whole, j, new

\* A new constraint is on a field of its table.
LEMMA SaneUniqueAdd ==
  ASSUME CatOK(cat), Sane(cat), topic.each \in Nat, NEW d \in Designers, unique_add(d)
  PROVE  Makes(d)
<1> DEFINE New(t, u, f) == Row(u, [table_id |-> t, field_ids |-> f])
           Todo(t, u, f) == <<Build({IndexOf(New(t, u, f), u)}), Commit>>
<1>1. PICK t, u, f :
        /\ t \in OwnTables /\ u \in Names("unique", None) /\ f \in FieldsOf(t)
        /\ Start(d, "unique_add", Todo(t, u, f), New(t, u, f), Nothing, {})
  BY DEF unique_add
<1> DEFINE new == New(t, u, f)
           j == Asked("unique_add", Todo(t, u, f), new, Nothing, {})
<1>2. t \in DOMAIN cat /\ f \in FieldsIn(cat, t)
  BY <1>1 DEF OwnTables, FieldsOf, Rows, RowsIn
<1>3. u \in Keys /\ u[1] = "unique"
  BY <1>1, NameIsNew, CoreClasses
<1>4. DOMAIN new = {u} /\ new[u].table_id = t /\ new[u].field_ids = f
  BY DEF Row
<1>5. j.new = new /\ j.set = Nothing /\ j.del = {}
  BY AskedIs
<1> HIDE DEF New, Todo, new, j
<1>6. NewFits(cat, j, u)
  BY <1>2, <1>3, <1>4, <1>5 DEF NewFits, FieldFor, TableFor
<1>7. Additive(cat, j)
  BY <1>3, <1>4, <1>5, <1>6, OnlyNew
<1> QED BY <1>1, <1>7 DEF Makes, Whole, j, new

\* A new column comes with the relation it belongs to.
LEMMA SaneRelationM1 ==
  ASSUME CatOK(cat), Sane(cat), topic.each \in Nat, NEW d \in Designers, relation_new_m1(d)
  PROVE  Makes(d)
<1> DEFINE New(a, b, r, f) == Both(Row(f, Field(a, b)), Row(r, Relation(a, b, f)))
           Todo(a, b, f) == <<Flush, Build({ColumnOf(Row(f, Field(a, b)), f)}), Commit>>
<1>1. PICK a, b, r, f :
        /\ a \in OwnTables /\ b \in Rows("table") /\ r \in Names("relation", None) /\ f \in Names("field", a)
        /\ Start(d, "relation_new_m1", Todo(a, b, f), New(a, b, r, f), Nothing, {})
  BY DEF relation_new_m1
<1> DEFINE new == New(a, b, r, f)
           j == Asked("relation_new_m1", Todo(a, b, f), new, Nothing, {})
<1>2. a \in DOMAIN cat /\ b \in DOMAIN cat
  BY <1>1 DEF OwnTables, Rows, RowsIn
<1>3. r \in Keys /\ r[1] = "relation"
  BY <1>1, NameIsNew, CoreClasses
<1>4. f \in Keys /\ f[1] = "field"
  BY <1>1, NameIsNew, CoreClasses
<1>5. /\ DOMAIN new = {f, r} /\ new[f].table_id = a /\ new[f].related_table_id = b
      /\ new[r].from_table_id = a /\ new[r].to_table_id = b /\ new[r].from_field_id = f
      /\ new[r].from_display_field_ids = None /\ new[r].to_display_field_ids = None
  BY <1>3, <1>4 DEF Both, Row, Field, Relation
<1>6. j.new = new /\ j.set = Nothing /\ j.del = {}
  BY AskedIs
<1> HIDE DEF New, Todo, new, j
<1>7. ColumnFor(j, r, f)
  BY <1>4, <1>5, <1>6 DEF ColumnFor
<1>8. NewFits(cat, j, f) /\ NewFits(cat, j, r)
  BY <1>2, <1>3, <1>4, <1>5, <1>6, <1>7 DEF NewFits, TableFor
<1>9. Additive(cat, j)
  BY <1>3, <1>4, <1>5, <1>6, <1>8, OnlyNew
<1> QED BY <1>1, <1>9 DEF Makes, Whole, j, new

\* A many-to-many relation has no column.
LEMMA SaneRelationMn ==
  ASSUME CatOK(cat), Sane(cat), topic.each \in Nat, NEW d \in Designers, relation_new_mn(d)
  PROVE  Makes(d)
<1> DEFINE New(a, b, r) == Row(r, Relation(a, b, None))
           Todo(a, b, r) == <<Build({JunctionOf(New(a, b, r), r)}), Commit>>
<1>1. PICK a, b, r :
        /\ a \in Rows("table") /\ b \in Rows("table") /\ r \in Names("relation", None)
        /\ Start(d, "relation_new_mn", Todo(a, b, r), New(a, b, r), Nothing, {})
  BY DEF relation_new_mn
<1> DEFINE new == New(a, b, r)
           j == Asked("relation_new_mn", Todo(a, b, r), new, Nothing, {})
<1>2. a \in DOMAIN cat /\ b \in DOMAIN cat
  BY <1>1 DEF Rows, RowsIn
<1>3. r \in Keys /\ r[1] = "relation"
  BY <1>1, NameIsNew, CoreClasses
<1>4. /\ DOMAIN new = {r} /\ new[r].from_table_id = a /\ new[r].to_table_id = b
      /\ new[r].from_field_id = None
      /\ new[r].from_display_field_ids = None /\ new[r].to_display_field_ids = None
  BY DEF Row, Relation
<1>5. j.new = new /\ j.set = Nothing /\ j.del = {}
  BY AskedIs
<1> HIDE DEF New, Todo, new, j
<1>6. NewFits(cat, j, r)
  BY <1>2, <1>3, <1>4, <1>5 DEF NewFits, TableFor
<1>7. Additive(cat, j)
  BY <1>3, <1>4, <1>5, <1>6, OnlyNew
<1> QED BY <1>1, <1>7 DEF Makes, Whole, j, new

\* A field that gets another name stays where it is.
LEMMA SaneFieldEdit ==
  ASSUME CatOK(cat), Sane(cat), NEW d \in Designers, field_edit(d)
  PROVE  Makes(d)
<1> DEFINE Todo(f) == <<Flush, Rename({ColumnOf(cat, f)}), Commit>>
           Set(f) == SetOf(f, "table_id", cat[f].table_id)
<1>1. PICK f : /\ f \in Rows("field")
               /\ Start(d, "field_edit", Todo(f), Nothing, Set(f), {})
  BY DEF field_edit
<1> DEFINE j == Asked("field_edit", Todo(f), Nothing, Set(f), {})
<1>2. f \in DOMAIN cat /\ f[1] = "field"
  BY <1>1 DEF Rows, RowsIn
<1>3. j.new = Nothing /\ j.set = Set(f) /\ j.del = {}
  BY AskedIs
<1>4. \A x, m : SetBy(j, x, m) => x = f /\ m = "table_id" /\ j.set[x][m] = cat[f].table_id
  BY <1>3 DEF SetBy, SetOf
<1> HIDE DEF Todo, Set, j
<1>5. Additive(cat, j)
  BY <1>2, <1>3, <1>4, OnlySet DEF SetFits
<1> QED BY <1>1, <1>5 DEF Makes, Whole, j

\* The display field that is chosen is the table's own, or gone.
LEMMA SaneDisplayField ==
  ASSUME CatOK(cat), Sane(cat), NEW d \in Designers, set_display_field(d)
  PROVE  Makes(d)
<1> DEFINE Set(t, f) == SetOf(t, "display_field_id", f)
<1>1. PICK t, f : /\ t \in Rows("table") /\ f \in FieldsOf(t) \cup {Gone}
                  /\ Start(d, "set_display_field", <<Commit>>, Nothing, Set(t, f), {})
  BY DEF set_display_field
<1> DEFINE j == Asked("set_display_field", <<Commit>>, Nothing, Set(t, f), {})
<1>2. t \in DOMAIN cat /\ t[1] = "table"
  BY <1>1 DEF Rows, RowsIn
<1>3. j.new = Nothing /\ j.set = Set(t, f) /\ j.del = {}
  BY AskedIs
<1>4. \A x, m : SetBy(j, x, m) => x = t /\ m = "display_field_id" /\ j.set[x][m] = f
  BY <1>3 DEF SetBy, SetOf
<1> HIDE DEF j
<1>5. FieldFor(cat, j, f, t)
  BY <1>1 DEF FieldFor, FieldsOf
<1>6. Additive(cat, j)
  BY <1>2, <1>3, <1>4, <1>5, OnlySet DEF SetFits
<1> QED BY <1>1, <1>6 DEF Makes, Whole, j

\* Nothing is set that was not so before.
LEMMA SaneTableFlags ==
  ASSUME CatOK(cat), Sane(cat), NEW d \in Designers, table_flags(d)
  PROVE  Makes(d)
<1> DEFINE Set(t) == SetOf(t, "source_id", cat[t].source_id)
<1>1. PICK t, todo : /\ t \in Rows("table")
                     /\ Start(d, "table_flags", todo, Nothing, Set(t), {})
  BY DEF table_flags
<1> DEFINE j == Asked("table_flags", todo, Nothing, Set(t), {})
<1>2. t \in DOMAIN cat /\ t[1] = "table" /\ "source_id" \in Columns(t)
  BY <1>1, CoreColumns DEF Rows, RowsIn
<1>3. j.new = Nothing /\ j.set = Set(t) /\ j.del = {}
  BY AskedIs
<1>4. \A x, m : SetBy(j, x, m) => x = t /\ m = "source_id" /\ j.set[x][m] = cat[t].source_id
  BY <1>3 DEF SetBy, SetOf
<1> HIDE DEF j
<1>5. cat[t].source_id \in DOMAIN cat \cup {None}
  <2>1. RowOK(cat, t, cat[t]) /\ SaneRow(cat, t, cat[t])
    BY <1>2, TypedRows DEF CatOK, Sane
  <2> QED BY <1>2, <2>1 DEF RowOK, Refers, SaneRow
<1>6. Additive(cat, j)
  BY <1>2, <1>3, <1>4, <1>5, OnlySet DEF SetFits
<1> QED BY <1>1, <1>6 DEF Makes, Whole, j

\* The labels that are chosen are of the tables of the relation.
LEMMA SaneRelationEdit ==
  ASSUME CatOK(cat), Sane(cat), NEW d \in Designers, relation_edit(d)
  PROVE  Makes(d)
<1> DEFINE Set(r, to, from) == Row(r, [to_display_field_ids |-> to, from_display_field_ids |-> from])
<1>1. PICK r, to, from :
        /\ r \in Rows("relation") /\ to \in FieldsOf(cat[r].to_table_id) \cup {None}
        /\ from \in FieldsOf(cat[r].from_table_id) \cup {None}
        /\ Start(d, "relation_edit", <<Commit>>, Nothing, Set(r, to, from), {})
  BY DEF relation_edit
<1> DEFINE j == Asked("relation_edit", <<Commit>>, Nothing, Set(r, to, from), {})
<1>2. r \in DOMAIN cat /\ r[1] = "relation"
  BY <1>1 DEF Rows, RowsIn
<1>3. j.new = Nothing /\ j.set = Set(r, to, from) /\ j.del = {}
  BY AskedIs
<1>4. /\ \A x, m : SetBy(j, x, m) => x = r /\ m \in Labels
      /\ j.set[r]["to_display_field_ids"] = to /\ j.set[r]["from_display_field_ids"] = from
  BY <1>3 DEF SetBy, Row, Labels
<1> HIDE DEF Set, j
<1>5. FieldFor(cat, j, to, cat[r].to_table_id) /\ FieldFor(cat, j, from, cat[r].from_table_id)
  BY <1>1 DEF FieldFor, FieldsOf
<1>6. Additive(cat, j)
  BY <1>2, <1>3, <1>4, <1>5, OnlySet DEF SetFits, Labels
<1> QED BY <1>1, <1>6 DEF Makes, Whole, j

\* The fields of a copy are copies, and so are those that it names.
LEMMA SaneTableDuplicate ==
  ASSUME CatOK(cat), Sane(cat), topic.each \in Nat, NEW d \in Designers, table_duplicate(d)
  PROVE  Makes(d)
<1>1. PICK src \in OwnTables, t \in NewTables :
         LET scalars == {f \in FieldsOf(src) : cat[f].related_table_id = None}
             uniques == {u \in Rows("unique") : cat[u].table_id = src /\ cat[u].field_ids \in scalars}
             field == CHOOSE g \in [scalars -> FreeIds("field")] : IsInjective(g)
             index == CHOOSE g \in [uniques -> FreeIds("unique")] : IsInjective(g)
             CopyOf(f) == IF f \in scalars THEN field[f] ELSE None
             copies == [f \in Range(field) |-> Field(t, None)]
             constraints == [k \in Range(index) |->
                               LET u == CHOOSE u \in uniques : index[u] = k IN
                               [table_id |-> t, field_ids |-> CopyOf(cat[u].field_ids)]] IN
         /\ Cardinality(scalars) <= Cardinality(FreeIds("field"))
         /\ Cardinality(uniques) <= Cardinality(FreeIds("unique"))
         /\ Start(d, "table_duplicate",
                  <<Flush, Build({Table(t)} \cup {ColumnOf(copies, f) : f \in DOMAIN copies})>>
                  \o Each({IndexOf(constraints, u) : u \in DOMAIN constraints}, OrSkip)
                  \o <<Commit>>,
                  Both(Row(t, [display_field_id |-> CopyOf(cat[src].display_field_id),
                               source_id |-> cat[src].source_id]), Both(copies, constraints)),
                  Nothing, {})
  BY DEF table_duplicate
<1> DEFINE scalars == {f \in FieldsOf(src) : cat[f].related_table_id = None}
           uniques == {u \in Rows("unique") : cat[u].table_id = src /\ cat[u].field_ids \in scalars}
           field == CHOOSE g \in [scalars -> FreeIds("field")] : IsInjective(g)
           index == CHOOSE g \in [uniques -> FreeIds("unique")] : IsInjective(g)
           CopyOf(f) == IF f \in scalars THEN field[f] ELSE None
           copies == [f \in Range(field) |-> Field(t, None)]
           constraints == [k \in Range(index) |->
                             [table_id |-> t,
                              field_ids |-> CopyOf(cat[CHOOSE u \in uniques : index[u] = k].field_ids)]]
           todo == <<Flush, Build({Table(t)} \cup {ColumnOf(copies, f) : f \in DOMAIN copies})>>
                   \o Each({IndexOf(constraints, u) : u \in DOMAIN constraints}, OrSkip)
                   \o <<Commit>>
           row == [display_field_id |-> CopyOf(cat[src].display_field_id),
                   source_id |-> cat[src].source_id]
           new == Both(Row(t, row), Both(copies, constraints))
           j == Asked("table_duplicate", todo, new, Nothing, {})
<1>2. /\ Cardinality(scalars) <= Cardinality(FreeIds("field"))
      /\ Cardinality(uniques) <= Cardinality(FreeIds("unique"))
  BY <1>1
<1>3. Start(d, "table_duplicate", todo, new, Nothing, {})
  BY <1>1
<1>4. t \in Keys /\ t[1] = "table" /\ t \notin DOMAIN cat
  BY <1>1, NameIsNew, CoreClasses DEF NewTables
<1>5. src \in DOMAIN cat /\ src[1] = "table"
  BY <1>1, RowsAre DEF OwnTables
<1>6. IsFiniteSet(scalars) /\ IsFiniteSet(uniques)
  <2>1. scalars \in SUBSET DOMAIN cat /\ uniques \in SUBSET DOMAIN cat
    BY DEF FieldsOf, FieldsIn, Rows, RowsIn
  <2> QED BY <2>1, FS_Subset DEF CatOK
<1> HIDE DEF scalars, uniques
<1>7. field \in [scalars -> FreeIds("field")] /\ Range(field) \subseteq FreeIds("field")
  BY <1>2, <1>6, FreeIdsAre, CoreClasses, InjectionIs
<1>8. Range(index) \subseteq FreeIds("unique")
  BY <1>2, <1>6, FreeIdsAre, CoreClasses, InjectionIs
<1> HIDE DEF field, index
<1>9. \A f : CopyOf(f) \in Range(field) \cup {None}
  BY <1>7 DEF Range
<1> HIDE DEF CopyOf
<1>10. /\ \A k \in Range(field) : k \in Keys /\ k[1] = "field" /\ k \notin DOMAIN cat
       /\ \A k \in Range(index) : k \in Keys /\ k[1] = "unique" /\ k \notin DOMAIN cat
  BY <1>7, <1>8, FreeIdsAre, CoreClasses DEF FreeIds
<1>11. /\ DOMAIN copies = Range(field) /\ \A k \in Range(field) : copies[k] = Field(t, None)
       /\ DOMAIN constraints = Range(index)
       /\ \A k \in Range(index) : /\ constraints[k].table_id = t
                                  /\ constraints[k].field_ids \in Range(field) \cup {None}
  BY <1>9
<1>12. row.display_field_id \in Range(field) \cup {None} /\ row.source_id \in DOMAIN cat \cup {None}
  <2>1. RowOK(cat, src, cat[src]) /\ SaneRow(cat, src, cat[src]) /\ "source_id" \in Columns(src)
    BY <1>5, TypedRows, CoreColumns DEF CatOK, Sane
  <2>2. cat[src].source_id \in DOMAIN cat \cup {None}
    BY <1>5, <2>1 DEF RowOK, Refers, SaneRow
  <2> QED BY <1>9, <2>2
<1> HIDE DEF copies, constraints, row
<1>13. /\ DOMAIN new = {t} \cup Range(field) \cup Range(index) /\ new[t] = row
       /\ \A k \in Range(field) : new[k] = Field(t, None)
       /\ \A k \in Range(index) : new[k] = constraints[k]
  BY <1>4, <1>10, <1>11 DEF Both, Row
<1>14. j.new = new /\ j.set = Nothing /\ j.del = {}
  BY AskedIs
<1> HIDE DEF new, j, todo
<1>15. NewFits(cat, j, t)
  BY <1>4, <1>10, <1>12, <1>13, <1>14 DEF NewFits, FieldFor, Field
<1>16. ASSUME NEW k \in Range(field) PROVE NewFits(cat, j, k)
  BY <1>4, <1>10, <1>13, <1>14 DEF NewFits, TableFor, Field
<1>17. ASSUME NEW k \in Range(index) PROVE NewFits(cat, j, k)
  <2>1. /\ j.new[k].table_id = t /\ j.new[k].field_ids \in Range(field) \cup {None}
        /\ \A f \in Range(field) : j.new[f].table_id = t
    BY <1>11, <1>13, <1>14 DEF Field
  <2> QED BY <1>4, <1>10, <1>13, <1>14, <2>1 DEF NewFits, TableFor, FieldFor
<1>18. Additive(cat, j)
  BY <1>4, <1>10, <1>13, <1>14, <1>15, <1>16, <1>17, OnlyNew
<1> QED BY <1>3, <1>18 DEF Makes, Whole, j

\* What is adopted: a column x that is mapped, and with a relation when it is a key.
ColumnTaken(x, mapped, new) ==
    /\ x \in Foreign /\ x[1] = "column" /\ x[2] \in mapped
    /\ x[3] \in DOMAIN new /\ new[x[3]] = Field(x[2], x[4])

KeyTaken(x, mapped, new) ==
    /\ ColumnTaken(x, mapped, new) /\ x[4] \in mapped
    /\ RelationFor(x) \in DOMAIN new /\ new[RelationFor(x)] = Relation(x[2], x[4], x[3])

AdoptedRow(k, new, mapped) ==
    /\ k \in Keys
    /\ \/ /\ k[1] = "table" /\ new[k].source_id = None
          /\ \/ new[k].display_field_id = None
             \/ \E x : ColumnTaken(x, mapped, new) /\ x[2] = k /\ x[3] = new[k].display_field_id
       \/ /\ k[1] = "field"
          /\ \E x : ColumnTaken(x, mapped, new) /\ x[3] = k /\ (x[4] = None \/ KeyTaken(x, mapped, new))
       \/ k[1] = "relation" /\ \E x : KeyTaken(x, mapped, new) /\ RelationFor(x) = k

Adopted(new, mapped) == \A k \in DOMAIN new : AdoptedRow(k, new, mapped)

\* A column has a name of its own, and so has the relation for it.
LEMMA ColumnNames ==
  ASSUME NEW x \in Foreign, NEW y \in Foreign, x[1] = "column", y[1] = "column"
  PROVE  (x[3] = y[3] => x = y) /\ (RelationFor(x) = RelationFor(y) => x = y)
<1>1. x[3] = y[3] => x = y
  BY SchemaAssumption
<1>2. x[3] \in Keys /\ y[3] \in Keys /\ x[3][1] = "field" /\ y[3][1] = "field"
  BY ForeignColumns
<1>3. x[3] = <<"field", x[3][2]>> /\ y[3] = <<"field", y[3][2]>>
  BY <1>2 DEF Keys
<1>4. RelationFor(x) = RelationFor(y) => x[3][2] = y[3][2]
  BY DEF RelationFor
<1> QED BY <1>1, <1>3, <1>4

\* The rows of tables that are adopted.
LEMMA TakenTables ==
  ASSUME NEW S \in SUBSET External, NEW shown,
         \A t \in S : shown[t] \in {None} \cup {x[3] : x \in ForeignOf(t, FALSE)}
  PROVE  LET new == AdoptedTables(S, shown) IN
         /\ S \subseteq DOMAIN new /\ Adopted(new, S)
         /\ \A k \in DOMAIN new : k[1] # "relation"
         /\ \A x \in Foreign : x[1] = "column" /\ x[4] # None => x[3] \notin DOMAIN new
<1> DEFINE scalars == UNION {ForeignOf(t, FALSE) : t \in S}
           tables == [t \in S |-> [display_field_id |-> shown[t], source_id |-> None]]
           fields == [f \in {x[3] : x \in scalars} |->
                        LET x == CHOOSE x \in scalars : x[3] = f IN Field(x[2], x[4])]
           new == AdoptedTables(S, shown)
<1>1. \A t : \A x \in ForeignOf(t, FALSE) : x \in Foreign /\ x[1] = "column" /\ x[2] = t /\ x[4] = None
  BY DEF ForeignOf, ForeignFields
<1>2. ASSUME NEW x \in scalars
      PROVE  x \in Foreign /\ x[1] = "column" /\ x[2] \in S /\ x[4] = None
  <2>1. PICK t \in S : x \in ForeignOf(t, FALSE)
    OBVIOUS
  <2> QED BY <1>1, <2>1
<1>3. \A t \in S : ForeignOf(t, FALSE) \subseteq scalars
  OBVIOUS
<1> HIDE DEF scalars
<1>4. new = Both(tables, fields)
  BY DEF AdoptedTables, scalars
<1>5. \A t \in S : t \in Keys /\ t[1] = "table"
  BY ForeignIs
<1>6. ASSUME NEW x \in scalars
      PROVE  x[3] \in DOMAIN fields /\ fields[x[3]] = Field(x[2], x[4]) /\ x[3] \in Keys /\ x[3][1] = "field"
  <2>1. \A y \in scalars : y[3] = x[3] => y = x
    BY <1>2, ColumnNames
  <2>2. (CHOOSE y \in scalars : y[3] = x[3]) = x
    BY <2>1
  <2>3. x[3] \in {y[3] : y \in scalars}
    OBVIOUS
  <2>4. x[3] \in Keys /\ x[3][1] = "field"
    BY <1>2, ForeignColumns
  <2> QED BY <2>2, <2>3, <2>4
<1>7. \A f \in DOMAIN fields : \E x \in scalars : x[3] = f
  OBVIOUS
<1>8. DOMAIN tables = S /\ \A t \in S : tables[t].source_id = None /\ tables[t].display_field_id = shown[t]
  OBVIOUS
<1> HIDE DEF tables, fields, new
<1>9. /\ DOMAIN new = S \cup DOMAIN fields /\ \A t \in S : new[t] = tables[t]
      /\ \A f \in DOMAIN fields : new[f] = fields[f]
  BY <1>4, <1>5, <1>6, <1>7, <1>8 DEF Both
<1>10. \A x \in scalars : ColumnTaken(x, S, new)
  BY <1>2, <1>6, <1>9 DEF ColumnTaken
<1>11. ASSUME NEW t \in S
       PROVE  \/ new[t].display_field_id = None
              \/ \E x : ColumnTaken(x, S, new) /\ x[2] = t /\ x[3] = new[t].display_field_id
  <2>1. new[t].display_field_id = shown[t]
    BY <1>8, <1>9
  <2>2. CASE shown[t] # None
    <3>1. PICK x \in ForeignOf(t, FALSE) : x[3] = shown[t]
      BY <2>2
    <3> QED BY <1>1, <1>3, <1>10, <2>1, <3>1
  <2> QED BY <2>1, <2>2
<1>12. ASSUME NEW f \in DOMAIN fields
       PROVE  /\ f \in Keys /\ f[1] = "field"
              /\ \E x : ColumnTaken(x, S, new) /\ x[3] = f /\ x[4] = None
  BY <1>2, <1>6, <1>7, <1>10
<1>13. Adopted(new, S)
  BY <1>5, <1>8, <1>9, <1>11, <1>12 DEF Adopted, AdoptedRow
<1>14. ASSUME NEW x \in Foreign, x[1] = "column", x[4] # None PROVE x[3] \notin DOMAIN new
  <2>1. x[3] \in Keys /\ x[3][1] = "field"
    BY <1>14, ForeignColumns
  <2>2. x[3] \notin DOMAIN fields
    BY <1>2, <1>7, <1>14, ColumnNames
  <2> QED BY <1>5, <1>9, <2>1, <2>2
<1>15. \A k \in DOMAIN new : k[1] # "relation"
  BY <1>5, <1>9, <1>12
<1>16. S \subseteq DOMAIN new
  BY <1>9
<1> QED BY <1>13, <1>14, <1>15, <1>16 DEF new

\* The rows of foreign keys that are adopted.
LEMMA TakenKeys ==
  ASSUME NEW mapped
  PROVE  LET new == AdoptedRelations(mapped) IN
         /\ Adopted(new, mapped)
         /\ \A k \in DOMAIN new : /\ k[1] # "table"
                                  /\ k[1] = "field" => \E x \in Foreign : /\ x[1] = "column" /\ x[3] = k
                                                                          /\ x[4] # None
<1> DEFINE keys == {x \in UNION {ForeignOf(t, TRUE) : t \in mapped} :
                      x[4] \in mapped /\ x[3] \notin DOMAIN cat}
           fields == [f \in {x[3] : x \in keys} |->
                        LET x == CHOOSE x \in keys : x[3] = f IN Field(x[2], x[4])]
           relations == [r \in {RelationFor(x) : x \in keys} |->
                           LET x == CHOOSE x \in keys : RelationFor(x) = r IN
                           Relation(x[2], x[4], x[3])]
           new == AdoptedRelations(mapped)
<1>1. new = Both(fields, relations)
  BY DEF AdoptedRelations
<1>2. \A x \in keys : /\ x \in Foreign /\ x[1] = "column" /\ x[2] \in mapped /\ x[4] \in mapped
                      /\ x[4] # None
  BY DEF ForeignOf, ForeignFields
<1> HIDE DEF keys
<1>3. ASSUME NEW x \in keys
      PROVE  /\ x[3] \in DOMAIN fields /\ fields[x[3]] = Field(x[2], x[4])
             /\ RelationFor(x) \in DOMAIN relations
             /\ relations[RelationFor(x)] = Relation(x[2], x[4], x[3])
             /\ x[3] \in Keys /\ x[3][1] = "field"
             /\ RelationFor(x) \in Keys /\ RelationFor(x)[1] = "relation"
  <2>1. \A y \in keys : y[3] = x[3] \/ RelationFor(y) = RelationFor(x) => y = x
    BY <1>2, ColumnNames
  <2>2. (CHOOSE y \in keys : y[3] = x[3]) = x
    BY <2>1
  <2>3. (CHOOSE y \in keys : RelationFor(y) = RelationFor(x)) = x
    BY <2>1
  <2>4. x[3] \in {y[3] : y \in keys} /\ RelationFor(x) \in {RelationFor(y) : y \in keys}
    OBVIOUS
  <2>5. /\ x[3] \in Keys /\ x[3][1] = "field"
        /\ RelationFor(x) \in Keys /\ RelationFor(x)[1] = "relation"
    BY <1>2, ForeignColumns
  <2> QED BY <2>2, <2>3, <2>4, <2>5
<1>4. /\ \A f \in DOMAIN fields : \E x \in keys : x[3] = f
      /\ \A r \in DOMAIN relations : \E x \in keys : RelationFor(x) = r
  OBVIOUS
<1> HIDE DEF fields, relations, new
<1>5. /\ DOMAIN new = DOMAIN fields \cup DOMAIN relations
      /\ \A f \in DOMAIN fields : new[f] = fields[f]
      /\ \A r \in DOMAIN relations : new[r] = relations[r]
  BY <1>1, <1>3, <1>4 DEF Both
<1>6. \A x \in keys : KeyTaken(x, mapped, new)
  BY <1>2, <1>3, <1>5 DEF KeyTaken, ColumnTaken
<1>7. ASSUME NEW f \in DOMAIN fields
      PROVE  /\ f \in Keys /\ f[1] = "field" /\ \E x : KeyTaken(x, mapped, new) /\ x[3] = f
             /\ \E x \in Foreign : x[1] = "column" /\ x[3] = f /\ x[4] # None
  BY <1>2, <1>3, <1>4, <1>6
<1>8. ASSUME NEW r \in DOMAIN relations
      PROVE  r \in Keys /\ r[1] = "relation" /\ \E x : KeyTaken(x, mapped, new) /\ RelationFor(x) = r
  BY <1>3, <1>4, <1>6
<1>9. \A x : KeyTaken(x, mapped, new) => ColumnTaken(x, mapped, new)
  BY DEF KeyTaken
<1>10. Adopted(new, mapped)
  BY <1>5, <1>7, <1>8, <1>9 DEF Adopted, AdoptedRow
<1> QED BY <1>5, <1>7, <1>8, <1>10 DEF new

\* Both of them together.
LEMMA TakenBoth ==
  ASSUME NEW S, NEW mapped, S \subseteq mapped, NEW a, NEW b, Adopted(a, S), Adopted(b, mapped),
         \A k \in DOMAIN b : k \notin DOMAIN a
  PROVE  Adopted(Both(a, b), mapped)
<1> DEFINE new == Both(a, b)
<1>1. /\ DOMAIN new = DOMAIN a \cup DOMAIN b /\ \A k \in DOMAIN a : new[k] = a[k]
      /\ \A k \in DOMAIN b : new[k] = b[k]
  BY DEF Both
<1> HIDE DEF new
<1>2. /\ \A x : ColumnTaken(x, S, a) \/ ColumnTaken(x, mapped, b) => ColumnTaken(x, mapped, new)
      /\ \A x : KeyTaken(x, S, a) \/ KeyTaken(x, mapped, b) => KeyTaken(x, mapped, new)
  BY <1>1 DEF KeyTaken, ColumnTaken
<1>3. ASSUME NEW k \in DOMAIN a PROVE AdoptedRow(k, new, mapped)
  <2>1. AdoptedRow(k, a, S) /\ new[k] = a[k]
    BY <1>1 DEF Adopted
  <2> QED BY <1>2, <2>1 DEF AdoptedRow
<1>4. ASSUME NEW k \in DOMAIN b PROVE AdoptedRow(k, new, mapped)
  <2>1. AdoptedRow(k, b, mapped) /\ new[k] = b[k]
    BY <1>1 DEF Adopted
  <2> QED BY <1>2, <2>1 DEF AdoptedRow
<1>5. Adopted(new, mapped)
  BY <1>1, <1>3, <1>4 DEF Adopted
<1> QED BY <1>5 DEF new

\* What is adopted is sane.
LEMMA PromiseAdopted ==
  ASSUME CatOK(cat), Sane(cat), NEW j, j.set = Nothing, j.del = {}, NEW mapped, Adopted(j.new, mapped),
         \A t \in mapped : t \in DOMAIN cat \cup DOMAIN j.new, DOMAIN j.new \cap DOMAIN cat = {}
  PROVE  Promise(cat, j)
<1> DEFINE c2 == After(cat, j)
           new == j.new
<1>1. \A k, m : ~ SetBy(j, k, m)
  BY DEF SetBy, Nothing
<1>2. Adds(cat, j)
  BY DEF Adds, Adopted, AdoptedRow, Nothing
<1>3. Added(cat, c2, j)
  BY <1>2, AfterAdds
<1>4. c2 = After(cat, j) /\ DOMAIN j.set = {}
  BY DEF Nothing
<1> HIDE DEF c2
<1>5. /\ DOMAIN c2 = DOMAIN cat \cup DOMAIN new
      /\ None \notin DOMAIN c2 /\ Gone \notin DOMAIN c2 /\ None # Gone
      /\ \A k \in DOMAIN new : \A m \in Columns(k) : c2[k][m] = Live(c2, new[k][m])
      /\ \A v \in DOMAIN c2 \cup {None} : Live(c2, v) = v
  BY <1>1, <1>3, ForeignIs DEF Added, Live
<1>6. ASSUME NEW x, ColumnTaken(x, mapped, new)
      PROVE  /\ x[3] \in DOMAIN new /\ x[3][1] = "field" /\ x \in Foreign /\ x[1] = "column"
             /\ c2[x[3]].table_id = x[2] /\ c2[x[3]].related_table_id = Live(c2, x[4])
             /\ x[2] \in DOMAIN c2
  <2>1. /\ x \in Foreign /\ x[1] = "column" /\ x[2] \in mapped /\ x[3] \in DOMAIN new
        /\ new[x[3]] = Field(x[2], x[4])
    BY <1>6 DEF ColumnTaken
  <2>2. x[3][1] = "field"
    BY <2>1, ForeignColumns
  <2>3. "table_id" \in Columns(x[3]) /\ "related_table_id" \in Columns(x[3])
    BY <2>2, CoreColumns
  <2>4. new[x[3]].table_id = x[2] /\ new[x[3]].related_table_id = x[4]
    BY <2>1 DEF Field
  <2>5. x[2] \in DOMAIN c2
    BY <1>5, <2>1
  <2> QED BY <1>5, <2>1, <2>2, <2>3, <2>4, <2>5
<1>7. ASSUME NEW x, KeyTaken(x, mapped, new)
      PROVE  /\ ColumnTaken(x, mapped, new) /\ c2[x[3]].related_table_id = x[4]
             /\ RelationFor(x) \in RowsIn(c2, "relation")
             /\ c2[RelationFor(x)].from_table_id = x[2] /\ c2[RelationFor(x)].to_table_id = x[4]
             /\ c2[RelationFor(x)].from_field_id = x[3]
             /\ c2[RelationFor(x)].from_display_field_ids = None
             /\ c2[RelationFor(x)].to_display_field_ids = None
             /\ x[2] \in DOMAIN c2 /\ x[3] \in DOMAIN c2 /\ x[4] \in DOMAIN c2
  <2> DEFINE r == RelationFor(x)
             row == Relation(x[2], x[4], x[3])
  <2>1. ColumnTaken(x, mapped, new) /\ x[4] \in mapped /\ r \in DOMAIN new /\ new[r] = row
    BY <1>7 DEF KeyTaken
  <2>2. r[1] = "relation"
    BY <1>6, <2>1, ForeignColumns
  <2>3. /\ row.from_table_id = x[2] /\ row.to_table_id = x[4] /\ row.from_field_id = x[3]
        /\ row.from_display_field_ids = None /\ row.to_display_field_ids = None
    BY DEF Relation
  <2> HIDE DEF r, row
  <2>4. x[2] \in DOMAIN c2 /\ x[3] \in DOMAIN c2 /\ x[4] \in DOMAIN c2
    BY <1>5, <1>6, <2>1
  <2>5. /\ c2[r].from_table_id = x[2] /\ c2[r].to_table_id = x[4] /\ c2[r].from_field_id = x[3]
        /\ c2[r].from_display_field_ids = None /\ c2[r].to_display_field_ids = None
    BY <1>5, <2>1, <2>2, <2>3, <2>4, CoreColumns
  <2>6. r \in RowsIn(c2, "relation")
    BY <1>5, <2>1, <2>2 DEF RowsIn
  <2> QED BY <1>5, <1>6, <2>1, <2>4, <2>5, <2>6 DEF r
<1>8. ASSUME NEW k \in DOMAIN new, k[1] = "relation"
      PROVE  \E x : KeyTaken(x, mapped, new) /\ RelationFor(x) = k
  <2>1. AdoptedRow(k, new, mapped)
    BY DEF Adopted
  <2> QED BY <1>8, <2>1 DEF AdoptedRow
<1>9. OneRelation(c2)
  <2>1. ASSUME NEW r \in RowsIn(c2, "relation"), r \notin DOMAIN cat
        PROVE  \E x : KeyTaken(x, mapped, new) /\ RelationFor(x) = r
    BY <1>5, <1>8, <2>1 DEF RowsIn
  <2>2. ASSUME NEW r \in RowsIn(c2, "relation"), r \notin DOMAIN cat
        PROVE  c2[r].from_field_id \notin DOMAIN cat
    <3>1. PICK x : KeyTaken(x, mapped, new) /\ RelationFor(x) = r
      BY <2>1, <2>2
    <3> QED BY <1>6, <1>7, <3>1
  <2>3. ASSUME NEW r \in RowsIn(c2, "relation"), NEW s \in RowsIn(c2, "relation"),
               r \notin DOMAIN cat, s \notin DOMAIN cat, c2[r].from_field_id = c2[s].from_field_id
        PROVE  r = s
    <3>1. PICK x : KeyTaken(x, mapped, new) /\ RelationFor(x) = r
      BY <2>1, <2>3
    <3>2. PICK y : KeyTaken(y, mapped, new) /\ RelationFor(y) = s
      BY <2>1, <2>3
    <3>3. x[3] = y[3]
      BY <1>7, <2>3, <3>1, <3>2
    <3>4. x \in Foreign /\ y \in Foreign /\ x[1] = "column" /\ y[1] = "column"
      BY <1>6, <1>7, <3>1, <3>2
    <3> QED BY <3>1, <3>2, <3>3, <3>4, ColumnNames
  <2> QED BY <1>2, <1>4, <2>2, <2>3, OneMoreRelation
<1>10. ASSUME NEW k \in DOMAIN new PROVE SaneRow(c2, k, c2[k])
  <2>1. AdoptedRow(k, new, mapped)
    BY DEF Adopted
  <2>2. CASE k[1] = "table"
    <3>1. c2[k].source_id = None
      BY <1>5, <2>1, <2>2, CoreColumns DEF AdoptedRow
    <3>2. c2[k].display_field_id = Live(c2, new[k].display_field_id)
      BY <1>5, <2>2, CoreColumns
    <3>3. FieldOf(c2, c2[k].display_field_id, k)
      <4>1. CASE new[k].display_field_id = None
        BY <1>5, <3>2, <4>1 DEF FieldOf
      <4>2. CASE new[k].display_field_id # None
        <5>1. PICK x : ColumnTaken(x, mapped, new) /\ x[2] = k /\ x[3] = new[k].display_field_id
          BY <2>1, <2>2, <4>2 DEF AdoptedRow
        <5> QED BY <1>5, <1>6, <3>2, <5>1 DEF FieldOf
      <4> QED BY <4>1, <4>2
    <3> QED BY <1>5, <2>2, <3>1, <3>3 DEF SaneRow
  <2>3. CASE k[1] = "field"
    <3>1. PICK x : ColumnTaken(x, mapped, new) /\ x[3] = k /\ (x[4] = None \/ KeyTaken(x, mapped, new))
      BY <2>1, <2>3 DEF AdoptedRow
    <3>2. CASE x[4] = None
      <4>1. c2[k].related_table_id = None
        BY <1>5, <1>6, <3>1, <3>2
      <4> QED BY <2>3, <4>1 DEF SaneRow
    <3>3. CASE KeyTaken(x, mapped, new)
      <4>1. \E r \in RowsIn(c2, "relation") : c2[r].from_field_id = k
        BY <1>7, <3>1, <3>3
      <4> QED BY <2>3, <4>1 DEF SaneRow
    <3> QED BY <3>1, <3>2, <3>3
  <2>4. CASE k[1] = "relation"
    <3>1. PICK x : KeyTaken(x, mapped, new) /\ RelationFor(x) = k
      BY <1>8, <2>4
    <3>2. /\ c2[k].from_table_id = x[2] /\ c2[k].to_table_id = x[4] /\ c2[k].from_field_id = x[3]
          /\ c2[k].from_display_field_ids = None /\ c2[k].to_display_field_ids = None
          /\ x[2] \in DOMAIN c2 /\ x[3] \in DOMAIN c2 /\ x[4] \in DOMAIN c2
          /\ c2[x[3]].related_table_id = x[4] /\ c2[x[3]].table_id = x[2]
      BY <1>6, <1>7, <3>1
    <3>3. x[2] \notin {None, Gone} /\ x[4] \notin {None, Gone} /\ x[3] # Gone
      BY <1>5, <3>2
    <3> QED BY <1>5, <2>4, <3>2, <3>3 DEF SaneRow, FieldOf
  <2> QED BY <2>1, <2>2, <2>3, <2>4 DEF AdoptedRow
<1> QED BY <1>2, <1>4, <1>9, <1>10, PromiseAdds DEF c2

\* What is adopted is new, and its tables are there.
LEMMA SaneAdopt ==
  ASSUME CatOK(cat), Sane(cat), NEW d \in Designers, adopt_run(d)
  PROVE  \E new : /\ Start(d, "adopt_run", <<Commit>>, new, Nothing, {})
                  /\ Promise(cat, Asked("adopt_run", <<Commit>>, new, Nothing, {}))
<1>1. PICK S \in SUBSET (External \ DOMAIN cat), related \in BOOLEAN :
       \E shown \in [S -> {None} \cup {x[3] : x \in UNION {ForeignOf(t, FALSE) : t \in S}}] :
         LET mapped == S \cup (External \cap DOMAIN cat)
             new == Both(AdoptedTables(S, shown),
                         IF related THEN AdoptedRelations(mapped) ELSE Nothing) IN
         /\ \A t \in S : shown[t] \in {None} \cup {x[3] : x \in ForeignOf(t, FALSE)}
         /\ new # Nothing /\ DOMAIN new \cap DOMAIN cat = {}
         /\ Start(d, "adopt_run", <<Commit>>, new, Nothing, {})
  BY DEF adopt_run
<1>2. PICK shown \in [S -> {None} \cup {x[3] : x \in UNION {ForeignOf(t, FALSE) : t \in S}}] :
         LET mapped == S \cup (External \cap DOMAIN cat)
             new == Both(AdoptedTables(S, shown),
                         IF related THEN AdoptedRelations(mapped) ELSE Nothing) IN
         /\ \A t \in S : shown[t] \in {None} \cup {x[3] : x \in ForeignOf(t, FALSE)}
         /\ new # Nothing /\ DOMAIN new \cap DOMAIN cat = {}
         /\ Start(d, "adopt_run", <<Commit>>, new, Nothing, {})
  BY <1>1
<1> DEFINE mapped == S \cup (External \cap DOMAIN cat)
           tables == AdoptedTables(S, shown)
           more == IF related THEN AdoptedRelations(mapped) ELSE Nothing
           new == Both(tables, more)
           j == Asked("adopt_run", <<Commit>>, new, Nothing, {})
<1>3. /\ \A t \in S : shown[t] \in {None} \cup {x[3] : x \in ForeignOf(t, FALSE)}
      /\ Start(d, "adopt_run", <<Commit>>, new, Nothing, {}) /\ DOMAIN new \cap DOMAIN cat = {}
  BY <1>2
<1>4. /\ S \subseteq DOMAIN tables /\ Adopted(tables, S)
      /\ \A k \in DOMAIN tables : k[1] # "relation"
      /\ \A x \in Foreign : x[1] = "column" /\ x[4] # None => x[3] \notin DOMAIN tables
  BY <1>3, TakenTables
<1>5. /\ Adopted(more, mapped)
      /\ \A k \in DOMAIN more : /\ k[1] # "table"
                                /\ k[1] = "field" => \E x \in Foreign : /\ x[1] = "column" /\ x[3] = k
                                                                        /\ x[4] # None
  <2>1. CASE related
    <3>1. more = AdoptedRelations(mapped)
      BY <2>1
    <3> HIDE DEF more, mapped
    <3> QED BY <3>1, TakenKeys
  <2>2. CASE ~ related
    BY <2>2 DEF Adopted, Nothing
  <2> QED BY <2>1, <2>2
<1>6. S \subseteq mapped /\ \A t \in mapped : t \in S \/ t \in DOMAIN cat
  OBVIOUS
<1> HIDE DEF tables, more, mapped
<1>7. \A k \in DOMAIN more : k \notin DOMAIN tables
  <2>1. \A k \in DOMAIN tables : k[1] \in {"table", "field"}
    BY <1>4 DEF Adopted, AdoptedRow
  <2>2. \A k \in DOMAIN more : k[1] \in {"field", "relation"}
    BY <1>5 DEF Adopted, AdoptedRow
  <2> QED BY <1>4, <1>5, <2>1, <2>2
<1>8. Adopted(new, mapped)
  BY <1>4, <1>5, <1>6, <1>7, TakenBoth
<1>9. DOMAIN tables \subseteq DOMAIN new
  BY DEF Both
<1>10. j.new = new /\ j.set = Nothing /\ j.del = {}
  BY AskedIs
<1> HIDE DEF new, j
<1>11. Promise(cat, j)
  BY <1>3, <1>4, <1>6, <1>8, <1>9, <1>10, PromiseAdopted
<1> QED BY <1>3, <1>11 DEF j

\* A request that deletes what nothing that is left keeps; labels may be taken away.
Deletes(j) ==
    /\ j.new = Nothing /\ j.del \subseteq DOMAIN cat /\ Free(cat, j.del)
    /\ \A k, m : SetBy(j, k, m) => k[1] = "table" /\ m = "display_field_id" /\ j.set[k][m] = None

\* A deletion of what nothing keeps promises a sane catalogue.
LEMMA PromiseLess ==
  ASSUME CatOK(cat), Sane(cat), NEW j, Deletes(j)
  PROVE  Promise(cat, j)
<1> DEFINE c2 == After(cat, j)
           left == Without(cat, j.del)
<1>1. j.del \cap DOMAIN cat = j.del /\ DOMAIN j.new = {}
  BY DEF Deletes, Nothing
<1>2. Sane(left)
  <2>1. j.del \in SUBSET DOMAIN cat /\ Free(cat, j.del)
    BY DEF Deletes
  <2> QED BY <2>1, SaneDeleted
<1>3. CatOK(left)
  BY WithoutIs
<1>4. Results(c2, left, j)
  BY <1>1, AfterIs
<1> HIDE DEF c2, left
<1>5. DOMAIN c2 = DOMAIN left /\ None \notin DOMAIN left /\ Gone \notin DOMAIN left
  BY <1>1, <1>3, <1>4, ForeignIs DEF Results, CatOK, Typed
<1>6. ASSUME NEW k \in DOMAIN c2, NEW m \in Columns(k)
      PROVE  \/ c2[k][m] = left[k][m]
             \/ k[1] = "table" /\ m = "display_field_id" /\ c2[k][m] \in {None, Gone}
  <2>1. CASE SetBy(j, k, m)
    <3>1. c2[k][m] = Live(c2, None) /\ k[1] = "table" /\ m = "display_field_id"
      BY <1>4, <2>1 DEF Results, Deletes
    <3> QED BY <3>1 DEF Live
  <2>2. CASE ~ SetBy(j, k, m)
    <3>1. c2[k][m] = Live(c2, left[k][m])
      BY <1>4, <1>5, <2>2 DEF Results
    <3>2. RowOK(left, k, left[k])
      BY <1>3, <1>5, TypedRows DEF CatOK
    <3> QED BY <1>5, <3>1, <3>2 DEF RowOK, Refers, Live
  <2> QED BY <2>1, <2>2
<1>7. Echo(left, c2)
  BY <1>5, <1>6 DEF Echo
<1>8. Sane(c2)
  BY <1>2, <1>3, <1>7, SaneEcho
<1> QED BY <1>1, <1>8 DEF Promise, c2

\* Nothing is set but labels, and nothing in the rows that go is kept.
LEMMA DeletesIs ==
  ASSUME NEW by, NEW todo, NEW set, NEW del \in SUBSET DOMAIN cat, Free(cat, del),
         \A k \in DOMAIN set : \A m \in DOMAIN set[k] :
           k[1] = "table" /\ m = "display_field_id" /\ set[k][m] = None
  PROVE  Deletes(Asked(by, todo, Nothing, set, del))
  BY DEF Deletes, Asked, SetBy

\* The deletions: what is left keeps nothing of what goes.
LEMMA SaneTableDelete ==
  ASSUME CatOK(cat), Sane(cat), NEW d \in Designers, table_delete(d)
  PROVE  Makes(d)
<1>1. PICK t, todo : /\ t \in Rows("table")
                     /\ ~ \E r \in Rows("relation") : t \in {cat[r].from_table_id, cat[r].to_table_id}
                     /\ Start(d, "table_delete", todo, Nothing, Nothing, {t})
  BY DEF table_delete
<1>2. t \in DOMAIN cat /\ t \in Keys /\ t[1] = "table" /\ t # None /\ t # Gone
  BY <1>1, RowsAre
<1>3. ASSUME NEW k \in DOMAIN cat, NEW m, <<k[1], m>> \in KeptByRequests PROVE cat[k][m] # t
  <2>1. SUFFICES ASSUME cat[k][m] = t PROVE FALSE
    OBVIOUS
  <2>2. Column(k, m).to = "table"
    BY <1>2, <1>3, <2>1, KeptKeys
  <2>3. k[1] = "relation" /\ m \in {"from_table_id", "to_table_id"}
    BY <1>3, <2>2, KeptTargets
  <2> QED BY <1>1, <2>1, <2>3 DEF Rows, RowsIn
<1>4. ASSUME NEW k \in DOMAIN cat, NEW m, <<k[1], m>> \in KeptByRequests, cat[k][m] \in RowsIn(cat, "field")
      PROVE  cat[cat[k][m]].table_id # t
  <2>1. cat[k][m] \in DOMAIN cat /\ cat[k][m][1] = "field"
    BY <1>4 DEF RowsIn
  <2>2. Column(k, m).to = "field"
    BY <1>4, <2>1, KeptTargets, ForeignIs DEF CatOK, Typed
  <2>3. k[1] = "relation" /\ m = "from_field_id"
    BY <1>4, <2>2, KeptTargets
  <2>4. cat[cat[k][m]].table_id = cat[k].from_table_id
    BY <2>1, <2>3 DEF Sane, SaneRow, FieldOf
  <2> QED BY <1>1, <2>3, <2>4 DEF Rows, RowsIn
<1>5. RowsIn(cat, "relation") \cap {t} = {}
  BY <1>2 DEF RowsIn
<1>6. Free(cat, {t})
  BY <1>3, <1>4, <1>5 DEF Free
<1>7. Promise(cat, Asked("table_delete", todo, Nothing, Nothing, {t}))
  <2>1. \A k \in DOMAIN Nothing : FALSE
    BY DEF Nothing
  <2> QED BY <1>2, <1>6, <2>1, DeletesIs, PromiseLess
<1> QED BY <1>1, <1>7 DEF Makes, Whole

\* The relation of a column goes with its field.
LEMMA SaneFieldDelete ==
  ASSUME CatOK(cat), Sane(cat), NEW d \in Designers, field_delete(d)
  PROVE  Makes(d)
<1>0. PICK t \in OwnTables, f \in Rows("field") : \E g \in Namesakes(f, t) :
        Start(d, "field_delete", <<Drop({ColumnOf(cat, g)}), Commit>>, Nothing,
              NoLongerShown(f, t), {f} \cup RelationOf(f))
  BY DEF field_delete
<1>1. PICK todo : Start(d, "field_delete", todo, Nothing, NoLongerShown(f, t), {f} \cup RelationOf(f))
  BY <1>0
<1> DEFINE S == {f} \cup RelationOf(f)
<1>2. f \in DOMAIN cat /\ f \in Keys /\ f[1] = "field" /\ f # None /\ f # Gone
  BY <1>0, RowsAre
<1>3. /\ S \in SUBSET DOMAIN cat /\ \A x \in S : x \in Keys /\ x[1] \in {"field", "relation"}
      /\ \A x \in S : x[1] = "field" => x = f
      /\ \A r \in DOMAIN cat : r[1] = "relation" => (r \in S <=> cat[r].from_field_id = f)
  BY <1>2 DEF RelationOf, Rows, RowsIn, CatOK, Typed
<1> HIDE DEF S
<1>4. ASSUME NEW k \in DOMAIN cat \ S, NEW m, <<k[1], m>> \in KeptByRequests PROVE cat[k][m] \notin S
  <2>1. SUFFICES ASSUME NEW x \in S, cat[k][m] = x PROVE FALSE
    OBVIOUS
  <2>2. x[1] = Column(k, m).to
    BY <1>3, <1>4, <2>1, KeptKeys
  <2>6. /\ Column(k, m).to \in Roots
        /\ Column(k, m).to = "relation" => k[1] = "item" /\ m = "relation_id"
        /\ Column(k, m).to = "field" => k[1] = "relation" /\ m = "from_field_id"
    BY <1>4, KeptTargets
  <2>3. CASE x[1] = "field"
    <3>1. k[1] = "relation" /\ m = "from_field_id"
      BY <2>2, <2>3, <2>6
    <3> QED BY <1>3, <2>1, <2>3, <3>1
  <2>4. CASE x[1] = "relation"
    <3>1. k[1] = "item" /\ m = "relation_id"
      BY <2>2, <2>4, <2>6
    <3>2. cat[x].from_field_id = None
      BY <1>3, <2>1, <3>1 DEF Sane, SaneRow
    <3> QED BY <1>2, <1>3, <2>4, <3>2
  <2> QED BY <1>3, <2>3, <2>4
<1>5. ASSUME NEW g \in RowsIn(cat, "field") PROVE cat[g].table_id \notin S
  BY <1>3, FieldTable
<1>6. \A r \in RowsIn(cat, "relation") \cap S : cat[r].from_field_id = f /\ f \in S
  BY <1>3 DEF RowsIn, S
<1>7. Free(cat, S)
  BY <1>4, <1>5, <1>6 DEF Free
<1>8. \A k \in DOMAIN NoLongerShown(f, t) : \A m \in DOMAIN NoLongerShown(f, t)[k] :
        k[1] = "table" /\ m = "display_field_id" /\ NoLongerShown(f, t)[k][m] = None
  BY DEF NoLongerShown, OwnTables, Rows, RowsIn
<1>9. Promise(cat, Asked("field_delete", todo, Nothing, NoLongerShown(f, t), S))
  <2> DEFINE set == NoLongerShown(f, t)
  <2>1. \A k \in DOMAIN set : \A m \in DOMAIN set[k] :
          k[1] = "table" /\ m = "display_field_id" /\ set[k][m] = None
    BY <1>8
  <2> HIDE DEF set
  <2>2. Deletes(Asked("field_delete", todo, Nothing, set, S))
    BY <1>3, <1>7, <2>1, DeletesIs
  <2> QED BY <2>2, PromiseLess DEF set
<1>10. S # {}
  BY DEF S
<1> QED BY <1>1, <1>9, <1>10 DEF Makes, Whole, S

\* Nothing refers to a constraint.
LEMMA SaneUniqueDelete ==
  ASSUME CatOK(cat), Sane(cat), NEW d \in Designers, unique_delete(d)
  PROVE  Makes(d)
<1>0. PICK u \in Rows("unique") : \E todo : Start(d, "unique_delete", todo, Nothing, Nothing, {u})
  BY DEF unique_delete
<1>1. PICK todo : u \in Rows("unique") /\ Start(d, "unique_delete", todo, Nothing, Nothing, {u})
  BY <1>0
<1>2. u \in DOMAIN cat /\ u \in Keys /\ u[1] = "unique"
  BY <1>1, RowsAre
<1>3. ASSUME NEW k \in DOMAIN cat, NEW m, <<k[1], m>> \in KeptByRequests PROVE cat[k][m] # u
  BY <1>2, <1>3, KeptKeys, KeptTargets DEF Roots
<1>4. Free(cat, {u})
  BY <1>2, <1>3, FreeUnlessKept
<1>5. Promise(cat, Asked("unique_delete", todo, Nothing, Nothing, {u}))
  <2>1. \A k \in DOMAIN Nothing : FALSE
    BY DEF Nothing
  <2> QED BY <1>2, <1>4, <2>1, DeletesIs, PromiseLess
<1> QED BY <1>1, <1>5 DEF Makes, Whole

\* The column's field and the items go with a relation.
LEMMA SaneRelationDelete ==
  ASSUME CatOK(cat), Sane(cat), NEW d \in Designers, relation_delete(d)
  PROVE  Makes(d)
<1> DEFINE Set(r) == {r} \cup FieldOfRelation(cat, r) \cup {i \in Rows("item") : cat[i].relation_id = r}
<1>0. PICK r \in Rows("relation") : \E todo :
        Start(d, "relation_delete", todo, Nothing, Nothing, Set(r))
  BY DEF relation_delete
<1>1. PICK todo :
           /\ r \in Rows("relation")
           /\ Start(d, "relation_delete", todo, Nothing, Nothing, Set(r))
  BY <1>0
<1> DEFINE S == Set(r)
<1>2. r \in DOMAIN cat /\ r \in Keys /\ r[1] = "relation" /\ r # None /\ r # Gone
  BY <1>1, RowsAre
<1>3. /\ S \in SUBSET DOMAIN cat /\ \A x \in S : x \in Keys /\ x[1] \in {"relation", "field", "item"}
      /\ \A x \in S : /\ x[1] = "relation" => x = r
                      /\ x[1] = "field" => x = cat[r].from_field_id
      /\ \A i \in DOMAIN cat : i[1] = "item" /\ cat[i].relation_id = r => i \in S
      /\ r \in S
      /\ cat[r].from_field_id \in RowsIn(cat, "field") => cat[r].from_field_id \in S
  BY <1>2 DEF FieldOfRelation, Rows, RowsIn, CatOK, Typed
<1> HIDE DEF S
<1>4. ASSUME NEW k \in DOMAIN cat \ S, NEW m, <<k[1], m>> \in KeptByRequests PROVE cat[k][m] \notin S
  <2>1. SUFFICES ASSUME NEW x \in S, cat[k][m] = x PROVE FALSE
    OBVIOUS
  <2>2. x[1] = Column(k, m).to
    BY <1>3, <1>4, <2>1, KeptKeys
  <2>6. /\ Column(k, m).to \in Roots
        /\ Column(k, m).to = "relation" => k[1] = "item" /\ m = "relation_id"
        /\ Column(k, m).to = "field" => k[1] = "relation" /\ m = "from_field_id"
    BY <1>4, KeptTargets
  <2>3. CASE x[1] = "relation"
    <3>1. k[1] = "item" /\ m = "relation_id"
      BY <2>2, <2>3, <2>6
    <3> QED BY <1>3, <2>1, <2>3, <3>1
  <2>4. CASE x[1] = "field"
    <3>1. k[1] = "relation" /\ m = "from_field_id"
      BY <2>2, <2>4, <2>6
    <3>2. cat[k].from_field_id = cat[r].from_field_id /\ cat[k].from_field_id \in DOMAIN cat
      BY <1>3, <2>1, <2>4, <3>1
    <3>3. k \in RowsIn(cat, "relation") /\ r \in RowsIn(cat, "relation")
      BY <1>2, <3>1 DEF RowsIn
    <3>4. k = r
      BY <3>2, <3>3 DEF Sane, OneRelation
    <3> QED BY <1>3, <3>4
  <2>5. CASE x[1] = "item"
    BY <2>2, <2>5, <2>6 DEF Roots
  <2> QED BY <1>3, <2>3, <2>4, <2>5
<1>5. ASSUME NEW g \in RowsIn(cat, "field") PROVE cat[g].table_id \notin S
  BY <1>3, FieldTable
<1>6. ASSUME NEW x \in RowsIn(cat, "relation") \cap S PROVE cat[x].from_field_id \notin DOMAIN cat \ S
  <2>1. x = r
    BY <1>3 DEF RowsIn
  <2>2. "from_field_id" \in Columns(r) /\ Column(r, "from_field_id").to = "field"
    BY <1>2, CoreColumns, KindsAre
  <2>3. Refers(cat, r, "from_field_id", cat[r].from_field_id)
    BY <1>2, <2>2, TypedRows DEF CatOK, RowOK
  <2>4. cat[r].from_field_id \in DOMAIN cat => cat[r].from_field_id \in RowsIn(cat, "field")
    BY <2>2, <2>3, ForeignIs DEF Refers, RowsIn, CatOK, Typed
  <2> QED BY <1>3, <2>1, <2>4
<1>7. Free(cat, S)
  BY <1>4, <1>5, <1>6 DEF Free
<1>8. Promise(cat, Asked("relation_delete", todo, Nothing, Nothing, S))
  <2>1. \A k \in DOMAIN Nothing : FALSE
    BY DEF Nothing
  <2> QED BY <1>3, <1>7, <2>1, DeletesIs, PromiseLess
<1> QED BY <1>1, <1>8 DEF Makes, Whole, S

-----------------------------------------------------------------------------
(* Files: what is read of one leaves the catalogue as sound as it was.        *)

\* What the columns are for: users and roles are written as they are.
Pointed(m, to) ==
    /\ m \in RawColumns => to \in {"user", "role"}
    /\ m \notin RawColumns => to \in {"source", "table", "field", "relation", "form", "menu",
                                     "dashboard", "workflow", "connection", "company"}
    /\ m \in Labels => to = "field"
    /\ to = "company" => m \in {"parent_id", "company_id"}

\* Every column of every class is for what Pointed says.
LEMMA TargetsAre ==
  ASSUME NEW class \in Classes
  PROVE  \A m \in DOMAIN Model[class] : Pointed(m, Model[class][m].to)
<1> DEFINE All(columns) == \A m \in DOMAIN columns : Pointed(m, columns[m].to)
<1> USE DEF Pointed, RawColumns, Labels, Id, Bare, Key, Parent, Loose
<1>5. All(DataSource) /\ All(MetaTable) /\ All(MetaField)
  BY DEF DataSource, MetaTable, MetaField
<1>6. All(MetaRelation)
  BY DEF MetaRelation
<1>7. All(CompositeUnique) /\ All(MetaForm)
  BY DEF CompositeUnique, MetaForm
<1>8. All(MetaFormField)
  BY DEF MetaFormField
<1>9. All(MetaMenu) /\ All(Role)
  BY DEF MetaMenu, Role
<1>10. All(SavedView) /\ All(MetaPermission)
  BY DEF SavedView, MetaPermission
<1>11. All(MetaFieldPermission) /\ All(Company) /\ All(AppUser)
  BY DEF MetaFieldPermission, Company, AppUser
<1>12. All(Workflow) /\ All(ApprovalStep)
  BY DEF Workflow, ApprovalStep
<1>13. All(TriggerRule)
  BY DEF TriggerRule
<1>14. All(SlaPolicy)
  BY DEF SlaPolicy
<1>15. All(Connection) /\ All(Feed)
  BY DEF Connection, Feed
<1>16. All(Webhook) /\ All(PullSource)
  <2>1. All(Webhook)
    BY DEF Webhook
  <2>2. \A m \in DOMAIN PullSource : m # "user_id" => Pointed(m, PullSource[m].to)
    <3>1. DOMAIN PullSource = {"target_table_id", "connection_id", "user_id"}
      BY DEF PullSource
    <3>2. PullSource["target_table_id"] = Key("table") /\ PullSource["connection_id"] = Loose("connection")
      BY DEF PullSource
    <3>3. Pointed("target_table_id", "table") /\ Pointed("connection_id", "connection")
      OBVIOUS
    <3>4. Key("table").to = "table" /\ Loose("connection").to = "connection"
      OBVIOUS
    <3> HIDE DEF Pointed, Key, Loose
    <3> QED BY <3>1, <3>2, <3>3, <3>4
  <2>3. Pointed("user_id", PullSource["user_id"].to)
    BY DEF PullSource
  <2>4. All(PullSource)
    BY <2>2, <2>3
  <2> QED BY <2>1, <2>4
<1>17. All(ReportDef) /\ All(Dashboard) /\ All(DashboardWidget)
  BY DEF ReportDef, Dashboard, DashboardWidget
<1>18. All(Mailbox) /\ All(RecurringRecord) /\ All(MaintenanceWindow)
  BY DEF Mailbox, RecurringRecord, MaintenanceWindow
<1> HIDE DEF All, Pointed, RawColumns, Labels, Id, Bare, Key, Parent, Loose
<1> SUFFICES All(Model[class])
  BY DEF All
<1> QED
  BY ClassesAre, ModelIs, <1>5, <1>6, <1>7, <1>8, <1>9, <1>10, <1>11, <1>12, <1>13, <1>14, <1>15,
     <1>16, <1>17, <1>18

\* What a column may hold that is not written as it is.
LEMMA ColumnTarget ==
  ASSUME NEW k \in Keys, NEW m \in Columns(k)
  PROVE  /\ Pointed(m, Column(k, m).to) /\ Column(k, m).to # "unique"
         /\ m \notin RawColumns => Column(k, m).to \notin {"user", "role"}
         /\ Column(k, m).to \in {"field", "relation"} => m \notin RawColumns
<1>1. k[1] \in Classes /\ m \in DOMAIN Model[k[1]] /\ Column(k, m) = Model[k[1]][m]
  BY DEF Keys, Columns, Column
<1>2. Pointed(m, Column(k, m).to)
  BY <1>1, TargetsAre
<1> QED BY <1>2 DEF Pointed

\* What an import adds names only what it adds, but for users and roles, and is
\* sound by itself.
Importable(c, new) ==
    /\ \A k \in DOMAIN new :
         /\ k \in Keys /\ k[1] \in ExportedClasses
         /\ \A m \in Columns(k) : m \notin RawColumns => new[k][m] \in DOMAIN new \cup {None}
         /\ k[1] \in {"permission", "fieldperm"} =>
              new[k].role \in DOMAIN new \cup RowsIn(c, "role") \cup {None}
         /\ SaneRow(new, k, new[k])
    /\ OneRelation(new)

\* The fields and relations that an import names are its own.
LEMMA ImportableRefers ==
  ASSUME NEW c, NEW new, NewOK(new), Importable(c, new), NEW k \in DOMAIN new
  PROVE  RefersOK(new, k, new[k])
<1>1. SUFFICES ASSUME NEW m \in Columns(k), Column(k, m).to \in {"field", "relation"}
               PROVE  Refers(new, k, m, new[k][m])
  BY DEF RefersOK
<1>2. k \in Keys /\ Fits(k, m, new[k][m])
  BY DEF NewOK
<1>3. new[k][m] \in DOMAIN new \cup {None}
  BY <1>1, <1>2, ColumnTarget DEF Importable
<1>4. new[k][m] \in DOMAIN new => new[k][m] \notin {None, Gone}
  BY ForeignIs DEF NewOK
<1> QED BY <1>2, <1>3, <1>4 DEF Refers, Fits

\* A column that keeps what it names, of a row that a file may hold.
LEMMA KeptInFile ==
  ASSUME NEW k, k[1] \in ExportedClasses, NEW m, Keeps(k, m)
  PROVE  m \notin RawColumns \/ (k[1] \in {"permission", "fieldperm"} /\ m = "role")
  BY DEF Keeps, ExportedClasses, RawColumns

\* The rows of an import, where c becomes d.
Brings(c, new, d) ==
    /\ DOMAIN new \subseteq DOMAIN d /\ RowsIn(c, "role") \subseteq DOMAIN d
    /\ None \notin DOMAIN d /\ Gone \notin DOMAIN d
    /\ \A k \in DOMAIN new : \A m \in Columns(k) : d[k][m] = Live(d, new[k][m])

\* What a column holds after an import.
LEMMA BroughtValue ==
  ASSUME NEW c, NEW new, NewOK(new), Importable(c, new), NEW d, Brings(c, new, d), NEW k \in DOMAIN new
  PROVE  /\ \A m \in Columns(k) : /\ d[k][m] \in {new[k][m], None, Gone}
                                  /\ d[k][m] = None <=> new[k][m] = None
                                  /\ m \notin RawColumns => d[k][m] = new[k][m]
         /\ \A m : Keeps(k, m) => d[k][m] = new[k][m]
<1>1. ASSUME NEW m \in Columns(k)
      PROVE  /\ d[k][m] \in {new[k][m], None, Gone}
             /\ d[k][m] = None <=> new[k][m] = None
             /\ new[k][m] \in DOMAIN new \cup RowsIn(c, "role") \cup {None} => d[k][m] = new[k][m]
             /\ m \notin RawColumns => d[k][m] = new[k][m]
  <2>1. d[k][m] = IF new[k][m] \in DOMAIN d \cup {None} THEN new[k][m] ELSE Gone
    BY DEF Brings, Live
  <2>2. None # Gone
    BY ForeignIs
  <2>3. new[k][m] \in DOMAIN new \cup RowsIn(c, "role") \cup {None} => new[k][m] \in DOMAIN d \cup {None}
    BY DEF Brings
  <2>4. m \notin RawColumns => new[k][m] \in DOMAIN new \cup {None}
    BY DEF Importable
  <2> QED BY <2>1, <2>2, <2>3, <2>4
<1>2. ASSUME NEW m, Keeps(k, m) PROVE d[k][m] = new[k][m]
  <2>1. m \in Columns(k)
    BY <1>2, KeptColumns
  <2>2. k[1] \in ExportedClasses
    BY DEF Importable
  <2>3. CASE m \notin RawColumns
    BY <1>1, <2>1, <2>3
  <2>4. CASE k[1] \in {"permission", "fieldperm"} /\ m = "role"
    <3>1. new[k][m] \in DOMAIN new \cup RowsIn(c, "role") \cup {None}
      BY <2>4 DEF Importable
    <3> QED BY <1>1, <2>1, <3>1
  <2> QED BY <1>2, <2>2, <2>3, <2>4, KeptInFile
<1> QED BY <1>1, <1>2

\* A row that an import brings is sane where it comes to.
LEMMA BroughtRow ==
  ASSUME NEW c, NEW new, NewOK(new), Importable(c, new), NEW d, Brings(c, new, d), NEW k \in DOMAIN new
  PROVE  SaneRow(d, k, d[k])
<1>1. ASSUME NEW x \in DOMAIN new
      PROVE  /\ \A m \in Columns(x) : /\ d[x][m] \in {new[x][m], None, Gone}
                                      /\ d[x][m] = None <=> new[x][m] = None
                                      /\ m \notin RawColumns => d[x][m] = new[x][m]
             /\ \A m : Keeps(x, m) => d[x][m] = new[x][m]
  BY BroughtValue
<1>2. Joined(new, d)
  <2>1. \A x \in DOMAIN new : /\ x[1] = "field" => d[x].table_id = new[x].table_id
                              /\ x[1] = "relation" => d[x].from_field_id = new[x].from_field_id
    BY <1>1 DEF Keeps
  <2> QED BY <2>1 DEF Joined, Brings
<1>3. Carried(new, d, k, new[k], d[k])
  <2>1. ASSUME k[1] = "field"
        PROVE  /\ d[k].related_table_id # None => new[k].related_table_id # None
               /\ \A r \in RowsIn(new, "relation") : r \in DOMAIN d
    BY <1>1, <2>1, CoreColumns DEF Brings, RowsIn
  <2>2. ASSUME k[1] = "relation", new[k].from_field_id \in DOMAIN new
        PROVE  d[new[k].from_field_id].related_table_id = new[new[k].from_field_id].related_table_id
    <3>1. "from_field_id" \in Columns(k) /\ Column(k, "from_field_id").to = "field"
      BY <2>2, CoreColumns, KindsAre
    <3>2. Fits(k, "from_field_id", new[k].from_field_id)
      BY <3>1 DEF NewOK
    <3>3. new[k].from_field_id[1] = "field" /\ "related_table_id" \notin RawColumns
      BY <2>2, <3>1, <3>2, ForeignIs DEF Fits, NewOK, RawColumns
    <3> QED BY <1>1, <2>2, <3>3, CoreColumns
  <2>3. /\ \A m \in Columns(k) : d[k][m] \in {new[k][m], None, Gone}
        /\ \A m : Keeps(k, m) => d[k][m] = new[k][m]
        /\ \A m \in Columns(k) : d[k][m] = None <=> new[k][m] = None
    BY <1>1
  <2> QED BY <2>1, <2>2, <2>3 DEF Carried
<1>4. RefersOK(new, k, new[k])
  BY ImportableRefers
<1>5. SaneRow(new, k, new[k])
  BY DEF Importable
<1> QED BY <1>2, <1>3, <1>4, <1>5, CarriedFrom

\* An import promises a sane catalogue.
LEMMA ImportedSane ==
  ASSUME NEW c, CatOK(c), Sane(c), NEW j, NewOK(j.new), Importable(c, j.new), DOMAIN j.set = {},
         j.del = {}, DOMAIN j.new \cap DOMAIN c = {}
  PROVE  Promise(c, j)
<1> DEFINE d == After(c, j)
           new == j.new
<1>1. Adds(c, j)
  <2>1. \A k \in DOMAIN j.new : k \in Keys /\ k \notin DOMAIN c /\ k[1] # "company"
    BY DEF Importable, ExportedClasses
  <2> QED BY <2>1 DEF Adds
<1>2. Added(c, d, j)
  BY <1>1, AfterAdds
<1>3. Brings(c, new, d)
  <2>1. \A k, m : ~ SetBy(j, k, m)
    BY DEF SetBy
  <2> HIDE DEF d
  <2> QED BY <1>2, <2>1 DEF Brings, Added, RowsIn
<1>4. \A k \in DOMAIN new : SaneRow(d, k, d[k])
  <2> HIDE DEF d, new
  <2>1. NewOK(new) /\ Importable(c, new)
    BY DEF new
  <2> QED BY <1>3, <2>1, BroughtRow
<1>5. ASSUME NEW r \in RowsIn(d, "relation"), r \notin DOMAIN c
      PROVE  /\ r \in RowsIn(new, "relation") /\ d[r].from_field_id = new[r].from_field_id
             /\ new[r].from_field_id \in DOMAIN new \cup {None}
  <2>1. r \in DOMAIN new /\ r[1] = "relation"
    <3> HIDE DEF d
    <3> QED BY <1>2, <1>5 DEF Added, RowsIn
  <2>2. NewOK(new) /\ Importable(c, new)
    OBVIOUS
  <2> HIDE DEF d, new
  <2>3. d[r].from_field_id = new[r].from_field_id
    <3>1. Keeps(r, "from_field_id")
      BY <2>1 DEF Keeps
    <3>2. \A m : Keeps(r, m) => d[r][m] = new[r][m]
      BY <1>3, <2>1, <2>2, BroughtValue
    <3> QED BY <3>1, <3>2
  <2>4. new[r].from_field_id \in DOMAIN new \cup {None}
    BY <2>1, <2>2, CoreColumns DEF Importable, RawColumns
  <2> QED BY <2>1, <2>3, <2>4 DEF RowsIn
<1>6. None \notin DOMAIN c /\ None \notin DOMAIN d
  BY <1>2, ForeignIs DEF CatOK, Typed, Added
<1>7. OneRelation(d)
  <2>1. OneRelation(new) /\ DOMAIN new \cap DOMAIN c = {}
    BY DEF Importable
  <2>2. d = After(c, j)
    OBVIOUS
  <2> HIDE DEF d, new
  <2>3. ASSUME NEW r \in RowsIn(d, "relation"), NEW s \in RowsIn(d, "relation")
        PROVE  /\ r \notin DOMAIN c => d[r].from_field_id \notin DOMAIN c
               /\ r \notin DOMAIN c /\ s \notin DOMAIN c /\ d[r].from_field_id \in DOMAIN d
                    /\ d[r].from_field_id = d[s].from_field_id => r = s
    <3>1. r \notin DOMAIN c => d[r].from_field_id \notin DOMAIN c
      BY <1>5, <1>6, <2>1
    <3>2. ASSUME r \notin DOMAIN c, s \notin DOMAIN c, d[r].from_field_id \in DOMAIN d,
                 d[r].from_field_id = d[s].from_field_id
          PROVE  r = s
      <4>1. r \in RowsIn(new, "relation") /\ s \in RowsIn(new, "relation")
            /\ new[r].from_field_id \in DOMAIN new /\ new[r].from_field_id = new[s].from_field_id
        BY <1>5, <1>6, <3>2
      <4> QED BY <2>1, <4>1 DEF OneRelation
    <3> QED BY <3>1, <3>2
  <2> QED BY <1>1, <2>2, <2>3, OneMoreRelation
<1>8. \A k \in DOMAIN j.new \cup DOMAIN j.set :
        k \in DOMAIN After(c, j) => SaneRow(After(c, j), k, After(c, j)[k])
  BY <1>4
<1> QED BY <1>1, <1>7, <1>8, PromiseAdds

\* An import goes on without an index that is refused.
LEMMA ImportableLess ==
  ASSUME NEW c, NEW new, NewOK(new), Importable(c, new), NEW lost, \A k \in lost : k[1] = "unique"
  PROVE  Importable(c, Less(new, lost))
<1> DEFINE d == Less(new, lost)
<1>1. DOMAIN d = DOMAIN new \ lost /\ \A k \in DOMAIN d : d[k] = new[k]
  BY DEF Less
<1> HIDE DEF d
<1>2. ASSUME NEW k \in DOMAIN new, NEW m \in Columns(k), new[k][m] \in DOMAIN new
      PROVE  new[k][m] \in DOMAIN d
  <2>1. k \in Keys /\ Fits(k, m, new[k][m])
    BY DEF NewOK
  <2>2. new[k][m][1] = Column(k, m).to
    BY <1>2, <2>1, ForeignIs DEF Fits, NewOK
  <2>3. Column(k, m).to # "unique"
    BY <2>1, ColumnTarget
  <2> QED BY <1>1, <1>2, <2>2, <2>3
<1>3. Joined(new, d)
  <2>1. None \notin DOMAIN new /\ Gone \notin DOMAIN new
    BY ForeignIs DEF NewOK
  <2> QED BY <1>1, <2>1 DEF Joined
<1>4. ASSUME NEW k \in DOMAIN d
      PROVE  /\ k \in Keys /\ k[1] \in ExportedClasses
             /\ \A m \in Columns(k) : m \notin RawColumns => d[k][m] \in DOMAIN d \cup {None}
             /\ k[1] \in {"permission", "fieldperm"} =>
                  d[k].role \in DOMAIN d \cup RowsIn(c, "role") \cup {None}
             /\ SaneRow(d, k, d[k])
  <2>1. k \in DOMAIN new /\ d[k] = new[k]
    BY <1>1
  <2>2. \A m \in Columns(k) : m \notin RawColumns => new[k][m] \in DOMAIN d \cup {None}
    BY <1>2, <2>1 DEF Importable
  <2>3. k[1] \in {"permission", "fieldperm"} =>
          new[k].role \in DOMAIN d \cup RowsIn(c, "role") \cup {None}
    BY <1>2, <2>1, MoreColumns DEF Importable
  <2>4. Carried(new, d, k, new[k], d[k])
    <3>1. \A r \in RowsIn(new, "relation") : r \in DOMAIN d
      BY <1>1 DEF RowsIn
    <3>2. \A x \in DOMAIN new \cap DOMAIN d : d[x] = new[x]
      BY <1>1
    <3> QED BY <2>1, <3>1, <3>2 DEF Carried
  <2>5. RefersOK(new, k, new[k]) /\ SaneRow(new, k, new[k])
    BY <2>1, ImportableRefers DEF Importable
  <2>6. SaneRow(d, k, d[k])
    BY <1>3, <2>4, <2>5, CarriedFrom
  <2> QED BY <2>1, <2>2, <2>3, <2>6 DEF Importable
<1>5. OneRelation(d)
  <2>1. \A r \in RowsIn(d, "relation") : r \in RowsIn(new, "relation") /\ d[r] = new[r]
    BY <1>1 DEF RowsIn
  <2>2. OneRelation(new)
    BY DEF Importable
  <2> QED BY <1>1, <2>1, <2>2 DEF OneRelation
<1> QED BY <1>4, <1>5 DEF Importable, d

\* An import of nothing.
LEMMA ImportableNothing ==
  ASSUME NEW c
  PROVE  Importable(c, Nothing)
<1>1. DOMAIN Nothing = {}
  BY DEF Nothing
<1> QED BY <1>1 DEF Importable, OneRelation, RowsIn

\* An index that is not recorded is missed by no row.
LEMMA PromiseLost ==
  ASSUME NEW c, CatOK(c), NEW j, NewOK(j.new), SetOK(c, j.set), Promise(c, j), NEW i, NEW lost,
         \A k \in lost : k[1] = "unique", i.new = Less(j.new, lost), i.set = j.set, i.del = j.del
  PROVE  Promise(c, i)
<1> DEFINE d == After(c, j)
           e == After(c, i)
           left == Without(c, j.del \cap DOMAIN c)
<1>1. DOMAIN i.new = DOMAIN j.new \ lost /\ \A k \in DOMAIN i.new : i.new[k] = j.new[k]
  BY DEF Less
<1>2. DOMAIN j.new \cap DOMAIN c = {} /\ DOMAIN i.new \cap DOMAIN c = {} /\ Sane(d)
  BY <1>1 DEF Promise
<1>3. Results(d, left, j)
  BY <1>2, AfterIs
<1>4. Results(e, left, i)
  BY <1>2, AfterIs
<1>5. CatOK(left)
  BY WithoutIs
<1>6. DOMAIN left \subseteq DOMAIN c
  <2>1. j.del \cap DOMAIN c \subseteq DOMAIN c
    OBVIOUS
  <2>2. DOMAIN left = DOMAIN c \ Cascaded(c, j.del \cap DOMAIN c)
    BY ONLY <2>1, WithoutIs, CatOK(c)
  <2> QED
    BY ONLY <2>2
<1> HIDE DEF d, e, left
<1>7. /\ DOMAIN d = DOMAIN left \cup DOMAIN j.new
      /\ DOMAIN e = DOMAIN left \cup (DOMAIN j.new \ lost)
  BY <1>1, <1>3, <1>4 DEF Results
<1>8. \A k, m : SetBy(i, k, m) <=> SetBy(j, k, m)
  BY DEF SetBy
<1>9. DOMAIN d \subseteq Keys /\ None \notin DOMAIN d /\ Gone \notin DOMAIN d
  BY <1>5, <1>7, ForeignIs DEF CatOK, Typed, NewOK
<1>10. ASSUME NEW k \in DOMAIN d, NEW m \in Columns(k)
       PROVE  \E v : /\ Fits(k, m, v) /\ d[k][m] = Live(d, v)
                     /\ k \in DOMAIN e => e[k][m] = Live(e, v)
                     /\ Column(k, m).on # "nothing" /\ k[1] \notin {"field", "unique"} =>
                          v \in DOMAIN d \cup {None}
  <2>1. CASE SetBy(j, k, m)
    <3>1. d[k][m] = Live(d, j.set[k][m]) /\ (k \in DOMAIN e => e[k][m] = Live(e, j.set[k][m]))
      BY <1>3, <1>4, <1>8, <2>1 DEF Results
    <3>2. k \in DOMAIN c /\ \/ Column(k, m).on = "nothing" /\ Fits(k, m, j.set[k][m])
                            \/ k[1] = "field" /\ m = "table_id" /\ j.set[k][m] = c[k].table_id
      BY <2>1 DEF SetBy, SetOK
    <3>3. k[1] = "field" /\ m = "table_id" /\ j.set[k][m] = c[k].table_id => Fits(k, m, j.set[k][m])
      <4>1. RowOK(c, k, c[k]) /\ \A x \in DOMAIN c : x \in Keys
        BY <3>2, TypedRows DEF CatOK
      <4> QED BY <4>1 DEF RowOK, Refers, Fits
    <3> QED BY <3>1, <3>2, <3>3
  <2>2. CASE ~ SetBy(j, k, m) /\ k \in DOMAIN left
    <3>1. d[k][m] = Live(d, left[k][m]) /\ (k \in DOMAIN e => e[k][m] = Live(e, left[k][m]))
      BY <1>3, <1>4, <1>8, <2>2 DEF Results
    <3>2. Refers(left, k, m, left[k][m]) /\ \A x \in DOMAIN left : x \in Keys
      BY <1>5, <2>2, TypedRows DEF CatOK, RowOK
    <3>3. left[k][m] \in DOMAIN d \cup {None} \/ (left[k][m] = Gone /\ Column(k, m).on = "nothing")
      BY <1>7, <3>2 DEF Refers
    <3> QED BY <3>1, <3>2, <3>3 DEF Refers, Fits
  <2>3. CASE ~ SetBy(j, k, m) /\ k \in DOMAIN j.new
    <3>1. d[k][m] = Live(d, j.new[k][m])
      BY <1>3, <2>3 DEF Results
    <3>2. k \in DOMAIN e => e[k][m] = Live(e, j.new[k][m])
      <4>1. k \in DOMAIN e => k \in DOMAIN i.new
        BY <1>1, <1>2, <1>6, <1>7, <2>3
      <4> QED BY <1>1, <1>4, <1>8, <2>3, <4>1 DEF Results
    <3>3. Fits(k, m, j.new[k][m])
          /\ (Column(k, m).on # "nothing" /\ k[1] \notin {"field", "unique"} =>
                j.new[k][m] \in DOMAIN d \cup {None})
      BY <1>7, <2>3 DEF NewOK
    <3> QED BY <3>1, <3>2, <3>3
  <2> QED BY <1>7, <2>1, <2>2, <2>3
<1>11. Echo(d, e)
  <2>1. ASSUME NEW k \in DOMAIN e, NEW m \in Columns(k) PROVE e[k][m] = d[k][m]
    <3>1. k \in DOMAIN d /\ k \in Keys
      BY <1>7, <1>9
    <3>2. PICK v : Fits(k, m, v) /\ d[k][m] = Live(d, v) /\ e[k][m] = Live(e, v)
      BY <1>10, <3>1
    <3>3. v \in DOMAIN d <=> v \in DOMAIN e
      <4>1. v \in lost => v[1] = "unique"
        OBVIOUS
      <4>2. v \in DOMAIN d => v[1] = Column(k, m).to
        BY <1>9, <3>2 DEF Fits
      <4>3. Column(k, m).to # "unique"
        BY <3>1, ColumnTarget
      <4> QED BY <1>7, <4>1, <4>2, <4>3
    <3> QED BY <3>2, <3>3 DEF Live
  <2>2. \A k \in DOMAIN d \ DOMAIN e : k[1] = "unique"
    BY <1>7
  <2> QED BY <1>7, <2>1, <2>2 DEF Echo
<1>12. AllRefer(d)
  <2>1. ASSUME NEW k \in DOMAIN d, NEW m \in Columns(k), Column(k, m).to \in {"field", "relation"}
        PROVE  Refers(d, k, m, d[k][m])
    <3>1. PICK v : /\ Fits(k, m, v) /\ d[k][m] = Live(d, v)
                   /\ Column(k, m).on # "nothing" /\ k[1] \notin {"field", "unique"} =>
                        v \in DOMAIN d \cup {None}
      BY <1>10
    <3>2. Column(k, m).on # "nothing" => k[1] \notin {"field", "unique"}
      BY <2>1, CoreColumns, KindsAre
    <3>3. v \in DOMAIN d => v[1] = Column(k, m).to
      BY <1>9, <3>1 DEF Fits
    <3>4. k \in Keys
      BY <1>9
    <3> QED BY <3>1, <3>2, <3>3 DEF Live, Refers
  <2> QED BY <1>9, <2>1 DEF AllRefer, RefersOK
<1>13. Sane(e)
  BY <1>2, <1>11, <1>12, EchoOf
<1> QED BY <1>2, <1>13 DEF Promise, e

\* Nothing is left of a model that was exported but its roles.
LEMMA SaneWiped ==
  ASSUME CatOK(cat), Sane(cat), NEW c, c = Without(cat, Wiped(cat))
  PROVE  /\ Sane(c) /\ RowsIn(cat, "role") \subseteq DOMAIN c
<1> DEFINE S == Wiped(cat)
<1>1. S \in SUBSET DOMAIN cat /\ \A k \in DOMAIN cat : k \in S <=> k[1] \in ExportedClasses \ {"role"}
  BY DEF Wiped
<1> HIDE DEF S
<1>2. ASSUME NEW k \in DOMAIN cat \ S, NEW m, <<k[1], m>> \in KeptByRequests
      PROVE  cat[k][m] \notin S /\ cat[k][m] \notin RowsIn(cat, "field")
  <2>1. k[1] \notin ExportedClasses \ {"role"}
    BY <1>1
  <2>2. k[1] \in {"user", "company"}
    BY <1>2, <2>1 DEF KeptByRequests, ExportedClasses
  <2>3. SUFFICES ASSUME cat[k][m] \in DOMAIN cat
                 PROVE  cat[k][m][1] \in {"company", "role"}
    BY <1>1 DEF RowsIn, ExportedClasses
  <2>4. cat[k][m][1] = Column(k, m).to
    BY <1>2, <2>3, KeptTargets, ForeignIs DEF CatOK, Typed
  <2>5. m \in {"role", "company_id", "parent_id"}
    BY <1>2, <2>2 DEF KeptByRequests
  <2>6. k[1] = "user" => Model["user"] = AppUser
    BY ModelIs
  <2>7. k[1] = "company" => Column(k, m) = Id("company")
    BY <1>2, ModelIs DEF KeptByRequests, Column, Company
  <2>8. k[1] = "user" => Column(k, m) \in {Bare("role"), Id("company")}
    BY <1>2, ModelIs DEF KeptByRequests, Column, AppUser
  <2> QED BY <2>2, <2>4, <2>7, <2>8, KindsAre
<1>3. ASSUME NEW r \in RowsIn(cat, "relation") \cap S PROVE cat[r].from_field_id \notin DOMAIN cat \ S
  <2>1. r \in DOMAIN cat /\ r[1] = "relation"
    BY DEF RowsIn
  <2>2. RowOK(cat, r, cat[r]) /\ Column(r, "from_field_id").to = "field"
        /\ "from_field_id" \in Columns(r)
    BY <2>1, TypedRows, CoreColumns, KindsAre DEF CatOK
  <2>3. Refers(cat, r, "from_field_id", cat[r].from_field_id)
    BY <2>2 DEF RowOK
  <2>4. cat[r].from_field_id \in DOMAIN cat => cat[r].from_field_id[1] = "field"
    BY <2>2, <2>3, ForeignIs DEF Refers, CatOK, Typed
  <2> QED BY <1>1, <2>4 DEF ExportedClasses
<1>4. Free(cat, S)
  BY <1>2, <1>3 DEF Free
<1>5. Sane(c)
  BY <1>1, <1>4, SaneDeleted DEF S
<1>6. \A k \in RowsIn(cat, "role") : k \notin Cascaded(cat, S)
  <2>1. ASSUME NEW k \in RowsIn(cat, "role"), k \in Cascaded(cat, S) PROVE FALSE
    <3>1. k[1] = "role" /\ k \in DOMAIN cat /\ k \notin S
      BY <1>1 DEF RowsIn
    <3>2. k \in S \/ k[1] \notin Roots \/ k[1] = "field"
      BY <1>1, <2>1, FallsOnly
    <3> QED BY <3>1, <3>2 DEF Roots
  <2> QED BY <2>1
<1>7. DOMAIN c = DOMAIN cat \ Cascaded(cat, S)
  BY WithoutIs DEF S
<1> QED BY <1>5, <1>6, <1>7 DEF RowsIn

\* What is read of a file, class by class.
LEMMA MappedIs ==
  ASSUME NEW c
  PROVE  /\ Mapped(c) \subseteq DOMAIN c
         /\ AsTheyAre(c) \cup MappedFields(c) \cup MappedRelations(c) \subseteq Mapped(c)
         /\ \A k \in Mapped(c) :
              /\ k[1] = "field" => k \in MappedFields(c)
              /\ k[1] = "relation" => k \in MappedRelations(c)
              /\ k[1] = "step" => c[k].workflow_id \in Mapped(c)
              /\ k[1] = "item" => \A m \in {"field_id", "relation_id"} :
                                    c[k][m] \in Mapped(c) \cup {None}
<1> DEFINE core == AsTheyAre(c) \cup MappedFields(c) \cup MappedRelations(c)
           more == {k \in DOMAIN c \ core :
                      /\ k[1] \notin {"field", "relation", "step"}
                      /\ \A m \in Needed(k[1]) : c[k][m] \in core \cup {None}}
           steps == {k \in RowsIn(c, "step") : c[k].workflow_id \in more}
<1>1. Mapped(c) = core \cup more \cup steps
  BY DEF Mapped
<1>2. Mapped(c) \subseteq DOMAIN c
  BY MappedRows
<1>3. /\ \A k \in AsTheyAre(c) : k[1] \notin {"field", "relation", "item", "step"}
      /\ \A k \in MappedFields(c) : k[1] = "field"
      /\ \A k \in MappedRelations(c) : k[1] = "relation"
  BY DEF AsTheyAre, MappedFields, MappedRelations, ScalarFields, FieldOfRelation, RowsIn
<1>4. Needed("item") = {"field_id", "relation_id"}
  BY DEF Needed
<1>5. /\ \A k \in more : /\ k[1] \notin {"field", "relation", "step"}
                         /\ \A m \in Needed(k[1]) : c[k][m] \in core \cup {None}
      /\ \A k \in steps : k[1] = "step" /\ c[k].workflow_id \in more
  BY DEF RowsIn
<1> HIDE DEF more, steps
<1>6. ASSUME NEW k \in Mapped(c)
      PROVE  /\ k[1] = "field" => k \in MappedFields(c)
             /\ k[1] = "relation" => k \in MappedRelations(c)
             /\ k[1] = "step" => c[k].workflow_id \in Mapped(c)
             /\ k[1] = "item" => \A m \in {"field_id", "relation_id"} :
                                   c[k][m] \in Mapped(c) \cup {None}
  <2>1. k[1] \in {"field", "relation"} => k \in MappedFields(c) \cup MappedRelations(c)
    BY <1>1, <1>3, <1>5
  <2>2. k[1] = "step" => k \in steps
    BY <1>1, <1>3, <1>5
  <2>3. k[1] = "item" => k \in more
    BY <1>1, <1>3, <1>5
  <2> QED BY <1>1, <1>3, <1>4, <1>5, <2>1, <2>2, <2>3
<1> QED BY <1>1, <1>2, <1>6

\* What a column names once it is read.
Kept(c, v) == IF v \in Mapped(c) THEN v ELSE None

\* What is read of a row, column by column.
LEMMA ReadRow ==
  ASSUME NEW c, IsFile(c), NEW k \in Mapped(c)
  PROVE  /\ k \in DOMAIN c /\ k \in Keys /\ k[1] \in ExportedClasses
         /\ \A m \in Columns(k) :
              /\ m \in RawColumns => import_schema(c)[k][m] = c[k][m]
              /\ m \notin RawColumns \cup Labels => import_schema(c)[k][m] = Kept(c, c[k][m])
              /\ m \in Labels => /\ import_schema(c)[k][m] \in {None, c[k][m]}
                                 /\ import_schema(c)[k][m] \in Mapped(c) \cup {None}
              /\ m \in Labels /\ import_schema(c)[k][m] # c[k][m] => c[k][m] \notin LabelFields(c, k)
<1>1. k \in DOMAIN c /\ k \in Keys /\ k[1] \in ExportedClasses /\ DOMAIN c[k] = Columns(k)
  BY MappedRows DEF IsFile
<1>2. LabelFields(c, k) \subseteq Mapped(c)
  <2>1. LabelFields(c, k) \subseteq MappedFields(c)
    BY DEF LabelFields, MappedFields, RowsIn
  <2> QED BY <2>1, MappedIs
<1>3. RawColumns \cap Labels = {}
  BY DEF RawColumns, Labels
<1>4. import_schema(c)[k] =
        [m \in DOMAIN c[k] |->
           CASE m \in RawColumns -> c[k][m]
             [] m \in Labels /\ c[k][m] \notin LabelFields(c, k) -> None
             [] m \notin RawColumns \cup Labels /\ c[k][m] \notin Mapped(c) -> None
             [] OTHER -> c[k][m]]
  BY DEF import_schema
<1>5. ASSUME NEW m \in Columns(k)
      PROVE  /\ m \in RawColumns => import_schema(c)[k][m] = c[k][m]
             /\ m \notin RawColumns \cup Labels => import_schema(c)[k][m] = Kept(c, c[k][m])
             /\ m \in Labels => /\ import_schema(c)[k][m] \in {None, c[k][m]}
                                /\ import_schema(c)[k][m] \in Mapped(c) \cup {None}
             /\ m \in Labels /\ import_schema(c)[k][m] # c[k][m] => c[k][m] \notin LabelFields(c, k)
  <2>1. import_schema(c)[k][m] =
          CASE m \in RawColumns -> c[k][m]
            [] m \in Labels /\ c[k][m] \notin LabelFields(c, k) -> None
            [] m \notin RawColumns \cup Labels /\ c[k][m] \notin Mapped(c) -> None
            [] OTHER -> c[k][m]
    BY <1>1, <1>4
  <2>2. CASE m \in RawColumns
    BY <1>3, <2>1, <2>2
  <2>3. CASE m \in Labels
    <3>1. import_schema(c)[k][m] = IF c[k][m] \notin LabelFields(c, k) THEN None ELSE c[k][m]
      BY <1>3, <2>1, <2>3
    <3> QED BY <1>2, <1>3, <2>3, <3>1
  <2>4. CASE m \notin RawColumns \cup Labels
    <3>1. import_schema(c)[k][m] = IF c[k][m] \notin Mapped(c) THEN None ELSE c[k][m]
      BY <2>1, <2>4
    <3> QED BY <2>4, <3>1 DEF Kept
  <2> QED BY <2>2, <2>3, <2>4
<1> QED BY <1>1, <1>5

\* The rows that an import adds.
LEMMA NewOfIs ==
  ASSUME NEW c
  PROVE  /\ DOMAIN NewOf(c) = {k \in Mapped(c) : k[1] # "role" \/ k \notin DOMAIN cat}
         /\ \A k \in DOMAIN NewOf(c) : NewOf(c)[k] = import_schema(c)[k]
  BY DEF NewOf, import_schema

\* A file that may be read, the rows it adds to the catalogue, and what is so of
\* each of them.
Reads(c, new) ==
    /\ IsFile(c) /\ Readable(c) /\ Loads(c)
    /\ DOMAIN new = {k \in Mapped(c) : k[1] # "role" \/ k \notin DOMAIN cat}
    /\ \A k \in DOMAIN new : \A m \in Columns(k) :
         /\ m \in RawColumns => new[k][m] = c[k][m]
         /\ m \notin RawColumns \cup Labels => new[k][m] = Kept(c, c[k][m])
         /\ m \in Labels => new[k][m] \in {None, c[k][m]} /\ new[k][m] \in Mapped(c) \cup {None}

\* They are what is read of a file.
LEMMA ReadsNewOf ==
  ASSUME NEW c, IsFile(c), Readable(c), Loads(c)
  PROVE  Reads(c, NewOf(c))
<1>1. \A k \in DOMAIN NewOf(c) : k \in Mapped(c) /\ NewOf(c)[k] = import_schema(c)[k]
  BY NewOfIs
<1>2. DOMAIN NewOf(c) = {k \in Mapped(c) : k[1] # "role" \/ k \notin DOMAIN cat}
  BY NewOfIs
<1>3. ASSUME NEW k \in DOMAIN NewOf(c), NEW m \in Columns(k)
      PROVE  /\ m \in RawColumns => NewOf(c)[k][m] = c[k][m]
             /\ m \notin RawColumns \cup Labels => NewOf(c)[k][m] = Kept(c, c[k][m])
             /\ m \in Labels => /\ NewOf(c)[k][m] \in {None, c[k][m]}
                                /\ NewOf(c)[k][m] \in Mapped(c) \cup {None}
  BY <1>1, ReadRow
<1> QED BY <1>2, <1>3 DEF Reads

\* A row that is read is one of the file.
LEMMA ReadKey ==
  ASSUME NEW c, NEW new, Reads(c, new), NEW k \in DOMAIN new
  PROVE  /\ k \in Mapped(c) /\ k \in DOMAIN c /\ k \in Keys /\ k[1] \in ExportedClasses
         /\ DOMAIN c[k] = Columns(k)
         /\ \A m \in Columns(k) : /\ c[k][m] \in {None, Gone}
                                     \/ (c[k][m] \in Keys /\ c[k][m][1] = Column(k, m).to)
                                  /\ new[k][m] \in {None, c[k][m]}
<1>1. k \in Mapped(c) /\ k \in DOMAIN c
  BY MappedRows DEF Reads
<1>2. /\ k \in Keys /\ k[1] \in ExportedClasses /\ DOMAIN c[k] = Columns(k)
      /\ \A m \in Columns(k) : c[k][m] \in {None, Gone}
                               \/ (c[k][m] \in Keys /\ c[k][m][1] = Column(k, m).to)
  BY <1>1 DEF Reads, IsFile
<1>3. \A m \in Columns(k) : new[k][m] \in {None, c[k][m]}
  BY DEF Reads, Kept
<1> QED BY <1>1, <1>2, <1>3

\* Nothing that is read has no name; what is read names what is read, but for
\* users and roles.
LEMMA ReadValue ==
  ASSUME NEW c, NEW new, Reads(c, new)
  PROVE  /\ None \notin Mapped(c) /\ Gone \notin Mapped(c)
         /\ \A v : Kept(c, v) # Gone
         /\ \A k \in DOMAIN new : \A m \in Columns(k) :
              m \notin RawColumns => new[k][m] \in DOMAIN new \cup {None}
<1>1. None \notin Mapped(c) /\ Gone \notin Mapped(c) /\ None # Gone
  BY MappedRows, ForeignIs DEF Reads, IsFile
<1>2. ASSUME NEW k \in DOMAIN new, NEW m \in Columns(k), m \notin RawColumns
      PROVE  new[k][m] \in DOMAIN new \cup {None}
  <2>1. new[k][m] \in Mapped(c) \cup {None}
    <3>1. CASE m \in Labels
      BY <1>2, <3>1 DEF Reads
    <3>2. CASE m \notin Labels
      BY <1>2, <3>2 DEF Reads, Kept
    <3> QED BY <3>1, <3>2
  <2>2. k \in Keys
    BY ReadKey
  <2>3. Column(k, m).to # "role"
    BY <1>2, <2>2, ColumnTarget
  <2>4. new[k][m] \in {None, c[k][m]} /\ (c[k][m] \in {None, Gone} \/ c[k][m][1] = Column(k, m).to)
    BY ReadKey
  <2>5. new[k][m] \in Mapped(c) => new[k][m][1] # "role"
    BY <1>1, <2>3, <2>4
  <2>6. \A v \in Mapped(c) : v[1] # "role" => v \in DOMAIN new
    BY DEF Reads
  <2> QED BY <2>1, <2>5, <2>6
<1> QED BY <1>1, <1>2 DEF Kept

\* A field that a row names is still one of the table that it was of.
LEMMA ReadField ==
  ASSUME NEW c, NEW new, Reads(c, new), NEW k \in DOMAIN new, NEW m \in Columns(k),
         Column(k, m).to = "field", NEW t, FieldOf(c, c[k][m], t)
  PROVE  FieldOf(new, new[k][m], Kept(c, t))
<1>1. SUFFICES ASSUME new[k][m] \in DOMAIN new PROVE new[new[k][m]].table_id = Kept(c, t)
  BY DEF FieldOf
<1>2. new[k][m] # None /\ new[k][m] # Gone
  BY <1>1, ReadValue DEF Reads
<1> DEFINE f == new[k][m]
<1>3. f = c[k][m] /\ f \in DOMAIN c /\ f[1] = "field"
  <2>1. new[k][m] \in {None, c[k][m]}
        /\ (c[k][m] \in {None, Gone} \/ c[k][m][1] = Column(k, m).to)
    BY ReadKey
  <2>2. new[k][m] \in DOMAIN c
    BY <1>1, ReadKey
  <2> QED BY <1>2, <2>1, <2>2
<1> HIDE DEF f
<1>4. f \in DOMAIN new /\ FieldOf(c, f, t)
  BY <1>1, <1>3 DEF f
<1>5. c[f].table_id = t
  BY <1>3, <1>4 DEF FieldOf
<1>6. new[f].table_id = Kept(c, c[f].table_id)
  <2>1. "table_id" \in Columns(f) /\ "table_id" \notin RawColumns \cup Labels
    BY <1>3, CoreColumns DEF RawColumns, Labels
  <2> QED BY <1>4, <2>1 DEF Reads
<1> QED BY <1>5, <1>6 DEF f

\* The tables, fields and relations that are read.
LEMMA ReadTable ==
  ASSUME NEW c, NEW new, Reads(c, new), NEW k \in DOMAIN new, k[1] \in {"table", "unique", "workflow"}
  PROVE  SaneRow(new, k, new[k])
<1>1. k \in Mapped(c) /\ k \in DOMAIN c /\ SaneRow(c, k, c[k])
  BY ReadKey DEF Reads, Readable
<1>2. ASSUME NEW m \in Columns(k), Column(k, m).to = "field", NEW t, FieldOf(c, c[k][m], t)
      PROVE  FieldOf(new, new[k][m], Kept(c, t))
  BY <1>2, ReadField
<1>3. \A m \in Columns(k) : m \notin RawColumns \cup Labels => new[k][m] = Kept(c, c[k][m])
  BY DEF Reads
<1>4. CASE k[1] = "table"
  <2>1. Kept(c, k) = k
    BY <1>1 DEF Kept
  <2>2. FieldOf(c, c[k].display_field_id, k)
    BY <1>1, <1>4 DEF SaneRow
  <2>3. FieldOf(new, new[k].display_field_id, k)
    BY <1>2, <1>4, <2>1, <2>2, FieldColumns
  <2>4. new[k].source_id # Gone
    <3>1. new[k].source_id = Kept(c, c[k].source_id)
      BY <1>3, <1>4, CoreColumns DEF RawColumns, Labels
    <3> QED BY <3>1, ReadValue
  <2> QED BY <1>4, <2>3, <2>4 DEF SaneRow
<1>5. CASE k[1] \in {"unique", "workflow"}
  <2>1. new[k].table_id = Kept(c, c[k].table_id)
    BY <1>3, <1>5, CoreColumns, MoreColumns DEF RawColumns, Labels
  <2>2. k[1] = "unique" => FieldOf(new, new[k].field_ids, new[k].table_id)
    BY <1>1, <1>2, <2>1, FieldColumns DEF SaneRow
  <2>3. k[1] = "workflow" => FieldOf(new, new[k].field_id, new[k].table_id)
    BY <1>1, <1>2, <2>1, FieldColumns DEF SaneRow
  <2> QED BY <1>5, <2>2, <2>3 DEF SaneRow
<1> QED BY <1>4, <1>5

\* A column that is read comes with its relation.
LEMMA ReadFieldRow ==
  ASSUME NEW c, NEW new, Reads(c, new), NEW k \in DOMAIN new, k[1] = "field"
  PROVE  SaneRow(new, k, new[k])
<1>1. SUFFICES ASSUME new[k].related_table_id # None
               PROVE  \E r \in RowsIn(new, "relation") : new[r].from_field_id = k
  BY DEF SaneRow
<1>2. k \in Mapped(c) /\ k \in DOMAIN c
  BY ReadKey
<1>3. k \in MappedFields(c)
  BY <1>2, MappedIs
<1>4. c[k].related_table_id # None
  <2>1. new[k].related_table_id \in {None, c[k].related_table_id}
    BY ReadKey, CoreColumns
  <2> QED BY <1>1, <2>1
<1>5. PICK r \in RowsIn(c, "relation") : k \in FieldOfRelation(c, r)
  BY <1>3, <1>4 DEF MappedFields, ScalarFields
<1>6. c[r].from_field_id = k /\ r \in MappedRelations(c) /\ r[1] = "relation"
  BY <1>5 DEF FieldOfRelation, MappedRelations, RowsIn
<1>7. r \in Mapped(c)
  BY <1>6, MappedIs
<1>8. r \in DOMAIN new
  BY <1>6, <1>7 DEF Reads
<1>9. new[r].from_field_id = Kept(c, k)
  <2>1. "from_field_id" \in Columns(r) /\ "from_field_id" \notin RawColumns \cup Labels
    BY <1>6, CoreColumns DEF RawColumns, Labels
  <2> QED BY <1>6, <1>8, <2>1 DEF Reads
<1> QED BY <1>2, <1>6, <1>8, <1>9 DEF Kept, RowsIn

\* The tables of a relation that is read are read.
LEMMA ReadRelation ==
  ASSUME NEW c, NEW new, Reads(c, new), NEW k \in DOMAIN new, k[1] = "relation"
  PROVE  SaneRow(new, k, new[k])
<1>1. k \in Mapped(c) /\ k \in DOMAIN c /\ SaneRow(c, k, c[k])
  BY ReadKey DEF Reads, Readable
<1>2. k \in MappedRelations(c)
  BY <1>1, MappedIs
<1>3. /\ "from_table_id" \in Columns(k) /\ Column(k, "from_table_id").to = "table"
      /\ "to_table_id" \in Columns(k) /\ Column(k, "to_table_id").to = "table"
      /\ "from_field_id" \in Columns(k) /\ Column(k, "from_field_id").to = "field"
  BY CoreColumns, KindsAre
<1>4. /\ new[k].from_table_id = Kept(c, c[k].from_table_id)
      /\ new[k].to_table_id = Kept(c, c[k].to_table_id)
      /\ new[k].from_field_id = Kept(c, c[k].from_field_id)
  BY <1>3 DEF Reads, RawColumns, Labels
<1>5. ASSUME NEW t, t \in {c[k].from_table_id, c[k].to_table_id}
      PROVE  Kept(c, t) = t /\ t \notin {None, Gone}
  <2>1. t \in DOMAIN c
    BY <1>2, <1>5 DEF Reads, Loads
  <2>2. t \notin {None, Gone}
    BY <1>1, <1>5 DEF SaneRow
  <2>3. t[1] = "table"
    BY <1>3, <1>5, <2>2, ReadKey
  <2>4. t \in AsTheyAre(c)
    BY <2>1, <2>3 DEF AsTheyAre
  <2> QED BY <2>2, <2>4, MappedIs DEF Kept
<1>6. /\ FieldOf(new, new[k].from_field_id, new[k].from_table_id)
      /\ FieldOf(new, new[k].from_display_field_ids, new[k].from_table_id)
      /\ FieldOf(new, new[k].to_display_field_ids, new[k].to_table_id)
  <2>1. ASSUME NEW m \in Columns(k), Column(k, m).to = "field", NEW t, FieldOf(c, c[k][m], t)
        PROVE  FieldOf(new, new[k][m], Kept(c, t))
    BY <2>1, ReadField
  <2>2. /\ FieldOf(c, c[k].from_field_id, c[k].from_table_id)
        /\ FieldOf(c, c[k].from_display_field_ids, c[k].from_table_id)
        /\ FieldOf(c, c[k].to_display_field_ids, c[k].to_table_id)
    BY <1>1 DEF SaneRow
  <2> QED BY <1>4, <2>1, <2>2, FieldColumns
<1>7. ASSUME new[k].from_field_id \in DOMAIN new
      PROVE  new[new[k].from_field_id].related_table_id = new[k].to_table_id
  <2> DEFINE f == new[k].from_field_id
  <2>1. f \in Mapped(c) /\ f \in DOMAIN c
    BY <1>7, ReadKey
  <2>2. f = c[k].from_field_id
    BY <1>4, <2>1, ReadValue DEF Kept
  <2>3. f[1] = "field"
    BY <1>3, <2>1, <2>2, ReadKey, ReadValue
  <2>4. c[f].related_table_id = c[k].to_table_id
    BY <1>1, <2>1, <2>2 DEF SaneRow
  <2>5. new[f].related_table_id = Kept(c, c[f].related_table_id)
    <3>1. "related_table_id" \in Columns(f) /\ "related_table_id" \notin RawColumns \cup Labels
      BY <2>3, CoreColumns DEF RawColumns, Labels
    <3>2. f \in DOMAIN new
      BY <1>7
    <3> HIDE DEF f
    <3> QED BY <3>1, <3>2 DEF Reads
  <2> QED BY <1>4, <2>4, <2>5
<1>8. new[k].from_field_id # Gone
  BY <1>4, ReadValue
<1>9. new[k].from_table_id \notin {None, Gone} /\ new[k].to_table_id \notin {None, Gone}
  BY <1>4, <1>5
<1> QED BY <1>6, <1>7, <1>8, <1>9 DEF SaneRow

\* An item that is read has its form, and names what is read.
LEMMA ReadItem ==
  ASSUME NEW c, NEW new, Reads(c, new), NEW k \in DOMAIN new, k[1] = "item"
  PROVE  SaneRow(new, k, new[k])
<1>1. k \in Mapped(c) /\ k \in DOMAIN c /\ SaneRow(c, k, c[k]) /\ c[k].form_id \in DOMAIN c
  BY ReadKey DEF Reads, Readable
<1>2. \A m \in Columns(k) : new[k][m] = Kept(c, c[k][m])
  BY MoreColumns DEF Reads, RawColumns, Labels
<1>3. Columns(k) = {"form_id", "field_id", "relation_id", "parent_field_id", "filter_field_id"}
      /\ Column(k, "form_id").to = "form" /\ Column(k, "relation_id").to = "relation"
  BY MoreColumns, KindsAre
<1>4. new[k].form_id # None
  <2>1. c[k].form_id \notin {None, Gone}
    BY <1>1, ForeignIs DEF Reads, IsFile
  <2>2. c[k].form_id[1] = "form"
    BY <1>3, <2>1, ReadKey
  <2>3. c[k].form_id \in AsTheyAre(c)
    BY <1>1, <2>2 DEF AsTheyAre
  <2>4. c[k].form_id \in Mapped(c)
    BY <2>3, MappedIs
  <2> QED BY <1>2, <1>3, <2>1, <2>4 DEF Kept
<1>5. new[k].relation_id # Gone
  BY <1>2, <1>3, ReadValue
<1>6. ASSUME new[k].relation_id \in DOMAIN new PROVE new[new[k].relation_id].from_field_id = None
  <2> DEFINE r == new[k].relation_id
  <2>1. r \in Mapped(c) /\ r \in DOMAIN c
    BY <1>6, ReadKey
  <2>2. r = c[k].relation_id
    BY <1>2, <1>3, <2>1, ReadValue DEF Kept
  <2>3. r[1] = "relation"
    BY <1>3, <2>1, <2>2, ReadKey, ReadValue
  <2>4. c[r].from_field_id = None
    BY <1>1, <2>1, <2>2 DEF SaneRow
  <2>5. "from_field_id" \in Columns(r) /\ r \in DOMAIN new
    BY <1>6, <2>3, CoreColumns
  <2> HIDE DEF r
  <2>6. new[r].from_field_id \in {None, c[r].from_field_id}
    BY <2>5, ReadKey
  <2> QED BY <2>4, <2>6 DEF r
<1>7. ASSUME new[k].field_id = None PROVE new[k].parent_field_id = None /\ new[k].filter_field_id = None
  <2>1. c[k].field_id \in Mapped(c) \cup {None}
    BY <1>1, MappedIs
  <2>2. c[k].field_id = None
    BY <1>2, <1>3, <1>7, <2>1, ReadValue DEF Kept
  <2>3. c[k].parent_field_id = None /\ c[k].filter_field_id = None
    BY <1>1, <2>2 DEF SaneRow
  <2> QED BY <1>2, <1>3, <2>3 DEF Kept
<1> QED BY <1>4, <1>5, <1>6, <1>7 DEF SaneRow

\* What is read of the rows about a table, and of steps and permissions.
LEMMA ReadAutomation ==
  ASSUME NEW c, NEW new, Reads(c, new), NEW k \in DOMAIN new,
         k[1] \in {"trigger", "sla", "feed", "step", "permission", "fieldperm"}
  PROVE  SaneRow(new, k, new[k])
<1>1. k \in Mapped(c) /\ k \in DOMAIN c /\ SaneRow(c, k, c[k])
  BY ReadKey DEF Reads, Readable
<1>2. ASSUME NEW m \in Columns(k), Column(k, m).to = "field", NEW t, FieldOf(c, c[k][m], t)
      PROVE  FieldOf(new, new[k][m], Kept(c, t))
  BY <1>2, ReadField
<1>3. ASSUME NEW m, Keeps(k, m), m # "role" PROVE new[k][m] = Kept(c, c[k][m])
  <2>1. m \in Columns(k)
    BY <1>3, KeptColumns
  <2>2. m \notin RawColumns \cup Labels
    BY <1>3 DEF Keeps, RawColumns, Labels
  <2> QED BY <2>1, <2>2 DEF Reads
<1>4. CASE k[1] = "trigger"
  <2>1. new[k].table_id = Kept(c, c[k].table_id)
    BY <1>3, <1>4 DEF Keeps
  <2>2. \A m \in {"field_id", "cond_field_id", "set_field_id"} : FieldOf(c, c[k][m], c[k].table_id)
    BY <1>1, <1>4 DEF SaneRow
  <2>3. \A m \in {"field_id", "cond_field_id", "set_field_id"} : FieldOf(new, new[k][m], new[k].table_id)
    BY <1>2, <1>4, <2>1, <2>2, FieldColumns
  <2> QED BY <1>4, <2>3 DEF SaneRow
<1>5. CASE k[1] = "sla"
  <2>1. new[k].table_id = Kept(c, c[k].table_id)
    BY <1>3, <1>5 DEF Keeps
  <2>2. \A m \in {"status_field_id", "cond_field_id", "state_field_id", "due_field_id",
                  "breach_set_field_id"} : FieldOf(c, c[k][m], c[k].table_id)
    BY <1>1, <1>5 DEF SaneRow
  <2>3. \A m \in {"status_field_id", "cond_field_id", "state_field_id", "due_field_id",
                  "breach_set_field_id"} : FieldOf(new, new[k][m], new[k].table_id)
    BY <1>2, <1>5, <2>1, <2>2, FieldColumns
  <2> QED BY <1>5, <2>3 DEF SaneRow
<1>6. CASE k[1] = "feed"
  <2>1. new[k].source_table_id = Kept(c, c[k].source_table_id)
    BY <1>3, <1>6 DEF Keeps
  <2>2. \A m \in {"field_id", "cond_field_id"} : FieldOf(c, c[k][m], c[k].source_table_id)
    BY <1>1, <1>6 DEF SaneRow
  <2>3. \A m \in {"field_id", "cond_field_id"} : FieldOf(new, new[k][m], new[k].source_table_id)
    BY <1>2, <1>6, <2>1, <2>2, FieldColumns
  <2> QED BY <1>6, <2>3 DEF SaneRow
<1>7. CASE k[1] = "step"
  <2>1. new[k].workflow_id = Kept(c, c[k].workflow_id)
    BY <1>3, <1>7 DEF Keeps
  <2>2. c[k].workflow_id \in Mapped(c)
    BY <1>1, <1>7, MappedIs
  <2>3. new[k].workflow_id # None
    BY <2>1, <2>2, ReadValue DEF Kept
  <2> QED BY <1>7, <2>3 DEF SaneRow
<1>8. CASE k[1] \in {"permission", "fieldperm"}
  <2>1. new[k].role = c[k].role
    BY <1>8, MoreColumns DEF Reads, RawColumns
  <2>2. c[k].role # Gone
    BY <1>1, <1>8 DEF SaneRow
  <2> QED BY <1>8, <2>1, <2>2 DEF SaneRow
<1> QED BY <1>4, <1>5, <1>6, <1>7, <1>8

\* What is read of a file may be imported.
LEMMA ReadSane ==
  ASSUME NEW c, NEW new, Reads(c, new)
  PROVE  Importable(cat, new)
<1>1. ASSUME NEW k \in DOMAIN new PROVE SaneRow(new, k, new[k])
  <2>1. k[1] \in ExportedClasses
    BY ReadKey
  <2>2. CASE k[1] \in {"table", "unique", "workflow"}
    BY <2>2, ReadTable
  <2>3. CASE k[1] = "field"
    BY <2>3, ReadFieldRow
  <2>4. CASE k[1] = "relation"
    BY <2>4, ReadRelation
  <2>5. CASE k[1] = "item"
    BY <2>5, ReadItem
  <2>6. CASE k[1] \in {"trigger", "sla", "feed", "step", "permission", "fieldperm"}
    BY <2>6, ReadAutomation
  <2>7. CASE k[1] \notin {"table", "unique", "workflow", "field", "relation", "item", "trigger", "sla",
                          "feed", "step", "permission", "fieldperm"}
    BY <2>1, <2>7 DEF SaneRow, ExportedClasses
  <2> QED BY <2>2, <2>3, <2>4, <2>5, <2>6, <2>7
<1>2. ASSUME NEW k \in DOMAIN new, k[1] \in {"permission", "fieldperm"}
      PROVE  new[k].role \in DOMAIN new \cup RowsIn(cat, "role") \cup {None}
  <2>1. new[k].role = c[k].role /\ "role" \in Columns(k) /\ Column(k, "role").to = "role"
    BY <1>2, MoreColumns, KindsAre DEF Reads, RawColumns
  <2>2. c[k].role \in DOMAIN c \cup {None}
    BY <1>2, ReadKey DEF Reads, Readable
  <2>3. ASSUME c[k].role \in DOMAIN c PROVE c[k].role \in DOMAIN new \cup RowsIn(cat, "role")
    <3>1. c[k].role \notin {None, Gone}
      BY <2>3, ForeignIs DEF Reads, IsFile
    <3>2. c[k].role[1] = "role"
      BY <2>1, <3>1, ReadKey
    <3>3. c[k].role \in Mapped(c)
      BY <2>3, <3>2, MappedIs DEF AsTheyAre
    <3> QED BY <3>2, <3>3 DEF Reads, RowsIn
  <2> QED BY <2>1, <2>2, <2>3
<1>3. OneRelation(new)
  <2>1. ASSUME NEW r \in RowsIn(new, "relation")
        PROVE  /\ r \in RowsIn(c, "relation")
               /\ new[r].from_field_id \in DOMAIN new =>
                    /\ new[r].from_field_id = c[r].from_field_id
                    /\ c[r].from_field_id \in DOMAIN c
    <3>1. r \in DOMAIN new /\ r[1] = "relation" /\ r \in DOMAIN c
      BY ReadKey DEF RowsIn
    <3>2. new[r].from_field_id \in {None, c[r].from_field_id}
      BY <3>1, ReadKey, CoreColumns
    <3>3. \A x \in DOMAIN new : x \in Mapped(c) /\ x \in DOMAIN c
      BY ReadKey
    <3>4. None \notin DOMAIN new
      BY <3>3, ReadValue
    <3> QED BY <3>1, <3>2, <3>3, <3>4 DEF RowsIn
  <2>2. OneRelation(c)
    BY DEF Reads, Readable
  <2> QED BY <2>1, <2>2 DEF OneRelation
<1>4. \A k \in DOMAIN new : k \in Keys /\ k[1] \in ExportedClasses
  BY ReadKey
<1>5. \A k \in DOMAIN new : \A m \in Columns(k) : m \notin RawColumns => new[k][m] \in DOMAIN new \cup {None}
  BY ReadValue
<1> QED BY <1>1, <1>2, <1>3, <1>4, <1>5 DEF Importable

\* What a sound catalogue is exported to may be read.
LEMMA ReadableExport ==
  ASSUME NEW c, CatOK(c), Sane(c)
  PROVE  Readable(export_schema(c))
<1> DEFINE e == export_schema(c)
<1>1. /\ DOMAIN e = {k \in DOMAIN c : k[1] \in ExportedClasses} /\ \A k \in DOMAIN e : e[k] = c[k]
  BY DEF export_schema
<1> HIDE DEF e
<1>2. None \notin DOMAIN c /\ Gone \notin DOMAIN c
  BY ForeignIs DEF CatOK, Typed
<1>3. ASSUME NEW k \in DOMAIN e PROVE SaneRow(e, k, e[k])
  <2>1. k \in DOMAIN c /\ e[k] = c[k] /\ RowOK(c, k, c[k]) /\ SaneRow(c, k, c[k])
    BY <1>1, TypedRows DEF Sane, CatOK
  <2>2. Joined(c, e)
    BY <1>1, <1>2 DEF Joined
  <2>3. Carried(c, e, k, c[k], e[k])
    <3>1. \A r \in RowsIn(c, "relation") : r \in DOMAIN e
      BY <1>1 DEF RowsIn, ExportedClasses
    <3>2. \A x \in DOMAIN e : e[x] = c[x]
      BY <1>1
    <3> QED BY <2>1, <3>1, <3>2 DEF Carried
  <2> QED BY <2>1, <2>2, <2>3, CarriedIs
<1>4. OneRelation(e)
  <2>1. \A r \in RowsIn(e, "relation") : r \in RowsIn(c, "relation") /\ e[r] = c[r]
    BY <1>1 DEF RowsIn
  <2> QED BY <1>1, <2>1 DEF OneRelation, Sane
<1>5. ASSUME NEW k \in DOMAIN e, k[1] \in {"permission", "fieldperm"}
      PROVE  e[k].role \in DOMAIN e \cup {None}
  <2>1. k \in DOMAIN c /\ e[k] = c[k] /\ RowOK(c, k, c[k]) /\ c[k].role # Gone
    BY <1>1, <1>5, TypedRows DEF Sane, SaneRow, CatOK
  <2>2. "role" \in Columns(k) /\ Column(k, "role").to = "role"
    BY <1>5, MoreColumns, KindsAre
  <2>3. Refers(c, k, "role", c[k].role)
    BY <2>1, <2>2 DEF RowOK
  <2> QED BY <1>1, <2>1, <2>2, <2>3 DEF Refers, ExportedClasses
<1>6. ASSUME NEW k \in DOMAIN e, k[1] = "item" PROVE e[k].form_id \in DOMAIN e
  <2>1. k \in DOMAIN c /\ e[k] = c[k] /\ RowOK(c, k, c[k]) /\ c[k].form_id # None
    BY <1>1, <1>6, TypedRows DEF Sane, SaneRow, CatOK
  <2>2. "form_id" \in Columns(k) /\ Column(k, "form_id").to = "form" /\ Column(k, "form_id").on # "nothing"
    BY <1>6, MoreColumns, KindsAre
  <2>3. Refers(c, k, "form_id", c[k].form_id)
    BY <2>1, <2>2 DEF RowOK
  <2> QED BY <1>1, <2>1, <2>2, <2>3 DEF Refers, ExportedClasses
<1> QED BY <1>3, <1>4, <1>5, <1>6 DEF Readable, e

-----------------------------------------------------------------------------
(* Requests of one designer keep the catalogue sound.                         *)

\* All the steps are of these kinds.
Only(todo, S) == \A n \in 1 .. Len(todo) : todo[n].do \in S

\* Steps that follow each other, one after the other, and what is left of them.
LEMMA OnlyJoin ==
  ASSUME NEW by, NEW a, NEW b, StepsOK(a, by), StepsOK(b, by), NEW S, Only(a, S), Only(b, S)
  PROVE  Only(a \o b, S)
<1> DEFINE A == {a[n] : n \in 1 .. Len(a)}
           B == {b[n] : n \in 1 .. Len(b)}
<1>1. a \in Seq(A) /\ b \in Seq(B)
  BY DEF StepsOK
<1> HIDE DEF A, B
<1>2. Len(a \o b) = Len(a) + Len(b) /\ Len(a) \in Nat /\ Len(b) \in Nat
  <2>1. a \in Seq(A \cup B) /\ b \in Seq(A \cup B)
    BY <1>1
  <2> QED BY <2>1
<1>3. \A n \in 1 .. Len(a) + Len(b) : (a \o b)[n] = IF n <= Len(a) THEN a[n] ELSE b[n - Len(a)]
  BY <1>1, <1>2
<1>4. ASSUME NEW n \in 1 .. Len(a) + Len(b) PROVE (a \o b)[n].do \in S
  <2>1. CASE n <= Len(a)
    <3>1. n \in 1 .. Len(a) /\ (a \o b)[n] = a[n]
      BY <1>2, <1>3, <2>1
    <3> QED BY <3>1 DEF Only
  <2>2. CASE ~ (n <= Len(a))
    <3>1. n - Len(a) \in 1 .. Len(b) /\ (a \o b)[n] = b[n - Len(a)]
      BY <1>2, <1>3, <2>2
    <3> QED BY <3>1 DEF Only
  <2> QED BY <2>1, <2>2
<1> QED BY <1>2, <1>4 DEF Only

\* Steps that are left over are of the same kinds.
LEMMA OnlyTail ==
  ASSUME NEW by, NEW todo, StepsOK(todo, by), todo # <<>>, NEW S, Only(todo, S)
  PROVE  Only(Tail(todo), S) /\ todo[1].do \in S
<1> DEFINE R == {todo[n] : n \in 1 .. Len(todo)}
           rest == Tail(todo)
<1>1. todo \in Seq(R)
  BY DEF StepsOK
<1> HIDE DEF R
<1>2. Len(todo) \in Nat /\ Len(todo) > 0
  BY <1>1
<1>3. Len(rest) = Len(todo) - 1 /\ \A n \in 1 .. Len(todo) - 1 : rest[n] = todo[n + 1]
  BY <1>1, <1>2
<1> HIDE DEF rest
<1>4. ASSUME NEW n \in 1 .. Len(rest) PROVE rest[n].do \in S
  <2>1. n + 1 \in 1 .. Len(todo) /\ rest[n] = todo[n + 1]
    BY <1>2, <1>3
  <2> QED BY <2>1 DEF Only
<1>5. todo[1].do \in S
  BY <1>2 DEF Only
<1> QED BY <1>4, <1>5 DEF Only, rest

\* The steps of short requests.
LEMMA OnlyShort ==
  ASSUME NEW s, NEW t, NEW S, s.do \in S
  PROVE  Only(<<>>, S) /\ Only(<<s>>, S) /\ (t.do \in S => Only(<<s, t>>, S))
<1>1. Len(<<>>) = 0 /\ Len(<<s>>) = 1 /\ Len(<<s, t>>) = 2
  OBVIOUS
<1>2. <<s>>[1] = s /\ <<s, t>>[1] = s /\ <<s, t>>[2] = t
  OBVIOUS
<1>3. 1 .. 0 = {} /\ 1 .. 1 = {1} /\ 1 .. 2 = {1, 2}
  OBVIOUS
<1> QED BY <1>1, <1>2, <1>3, Zenon DEF Only

\* Statements that store something.
LEMMA OnlyEach ==
  ASSUME NEW S, IsFiniteSet(S)
  PROVE  Only(Each(S, OrUndo), {"build"})
<1> DEFINE order == SetToSeq(S)
<1>1. order \in Seq(S)
  BY OrderIs
<1>2. Len(order) \in Nat /\ DOMAIN order = 1 .. Len(order)
  BY <1>1
<1>3. Each(S, OrUndo) = [n \in 1 .. Len(order) |-> OrUndo(Build({order[n]}))]
  BY <1>2 DEF Each
<1> HIDE DEF order
<1>4. Len(Each(S, OrUndo)) = Len(order)
  BY <1>2, <1>3
<1>5. \A n \in 1 .. Len(order) : OrUndo(Build({order[n]})).do = "build"
  BY DEF OrUndo, Build, Step
<1> QED BY <1>3, <1>4, <1>5 DEF Only

\* A file that lacks a table is never committed.
LEMMA ReadingFails ==
  ASSUME NEW c, IsFile(c), NoneIndexed(c), ~ Loads(c)
  PROVE  Only(Reading(c), {"clear", "wipe", "build", "fail"})
<1> DEFINE all == Described(import_schema(c))
           Of(class) == {x \in all : x[1] = class}
           keys == {x \in Of("column") : x[4] # None}
           tables == Each(Of("table"), OrUndo)
           columns == Each(Of("column") \ keys, OrUndo)
           S == {"clear", "wipe", "build", "fail"}
<1>1. IsFiniteSet(all)
  BY ImportIs, DescribedFinite
<1>2. \A x \in all : Ours(x)
  BY ReadIs
<1>3. Reading(c) = tables \o columns \o <<Fail>>
  BY DEF Reading
<1> HIDE DEF all
<1>4. /\ Of("table") \in SUBSET all /\ Of("column") \ keys \in SUBSET all
  OBVIOUS
<1>5. /\ IsFiniteSet(Of("table")) /\ IsFiniteSet(Of("column") \ keys)
      /\ \A x \in Of("table") \cup (Of("column") \ keys) : Ours(x)
  BY <1>1, <1>2, <1>4, FS_Subset
<1> HIDE DEF Of, keys
<1>6. StepsOK(tables, None) /\ StepsOK(columns, None)
  BY <1>5, EachIs
<1>7. Only(tables, S) /\ Only(columns, S)
  <2>1. Only(tables, {"build"}) /\ Only(columns, {"build"})
    BY <1>5, OnlyEach
  <2> HIDE DEF tables, columns
  <2> QED BY <2>1 DEF Only
<1> HIDE DEF tables, columns
<1>8. StepsOK(<<Fail>>, None) /\ Only(<<Fail>>, S)
  <2>1. Fail.do \in S
    BY DEF Fail, Step
  <2> HIDE DEF S
  <2> QED BY <2>1, ShortSteps, OnlyShort DEF GoodSteps
<1> HIDE DEF S
<1>9. StepsOK(tables \o columns, None) /\ Only(tables \o columns, S)
  BY <1>6, <1>7, OnlyJoin, StepsJoin
<1>10. Only((tables \o columns) \o <<Fail>>, S)
  BY <1>8, <1>9, OnlyJoin
<1>11. (tables \o columns) \o <<Fail>> = tables \o columns \o <<Fail>>
  OBVIOUS
<1> QED BY <1>3, <1>10 DEF S

\* Files are read in requests that run alone, as the adoption of tables does.
Imports == Whole \ {"adopt_run"}

\* What a request commits: the rows that a file brought, what it promised when
\* nobody else was at work, or rows that fit whatever others have added.
JobSane(c, j) ==
    IF j.by \in Imports
    THEN Only(j.todo, {"clear", "wipe", "build", "fail"}) \/ Importable(c, j.new)
    ELSE IF j.by = "adopt_run" \/ j.del # {}
    THEN Promise(c, j) /\ (j.by = "adopt_run" => Only(j.todo, {"commit"}))
    ELSE Additive(c, j)

\* What is left of a catalogue to which nothing is done.
LEMMA PromiseNothing ==
  ASSUME NEW c, CatOK(c), Sane(c), NEW j, j.new = Nothing, j.set = Nothing, j.del = {}
  PROVE  Promise(c, j)
<1>1. DOMAIN j.new = {} /\ DOMAIN j.set = {}
  BY DEF Nothing
<1>2. Adds(c, j)
  BY <1>1 DEF Adds
<1>3. OneRelation(After(c, j))
  BY <1>1, <1>2, NoMoreRelations
<1> QED BY <1>1, <1>2, <1>3, PromiseAdds

\* No request, and nothing to promise.
LEMMA JobSaneIdle ==
  ASSUME NEW c, CatOK(c), Sane(c)
  PROVE  JobSane(c, Idle)
<1>1. Promise(c, Idle) /\ Additive(c, Idle)
  BY IdleIs, PromiseNothing, AdditiveNothing
<1>2. \A S : Only(<<>>, S)
  <2>1. Len(<<>>) = 0
    OBVIOUS
  <2> QED BY <2>1 DEF Only
<1> QED BY <1>1, <1>2, IdleIs DEF JobSane

\* A request that adds, sets and deletes the same.
LEMMA JobSaneAs ==
  ASSUME NEW c, NEW j, JobSane(c, j), NEW i, i.by = j.by, i.new = j.new, i.set = j.set, i.del = j.del,
         \A S : Only(j.todo, S) => Only(i.todo, S)
  PROVE  JobSane(c, i)
<1>1. After(c, i) = After(c, j)
  BY AfterSame
<1>2. Promise(c, j) => Promise(c, i)
  BY <1>1 DEF Promise
<1>3. Additive(c, j) => Additive(c, i)
  BY AdditiveSame DEF SameRows
<1> QED BY <1>2, <1>3 DEF JobSane

\* A request that has taken a step.
LEMMA JobSaneOn ==
  ASSUME NEW c, CatOK(c), Sane(c), NEW j, JobOK(c, j), j # Idle, JobSane(c, j)
  PROVE  JobSane(c, OnDone(j))
<1>1. /\ Len(j.todo) = 1 => OnDone(j) = Idle
      /\ Len(j.todo) # 1 => /\ OnDone(j).by = j.by /\ OnDone(j).new = j.new
                            /\ OnDone(j).set = j.set /\ OnDone(j).del = j.del
                            /\ OnDone(j).todo = Tail(j.todo)
  BY OnDoneIs
<1>2. \A S : Only(j.todo, S) => Only(Tail(j.todo), S)
  <2>1. StepsOK(j.todo, j.by) /\ j.todo # <<>>
    BY DEF JobOK
  <2> QED BY <2>1, OnlyTail
<1>3. CASE Len(j.todo) = 1
  BY <1>1, <1>3, JobSaneIdle
<1>4. CASE Len(j.todo) # 1
  <2> DEFINE i == OnDone(j)
  <2>1. i.by = j.by /\ i.new = j.new /\ i.set = j.set /\ i.del = j.del /\ i.todo = Tail(j.todo)
    BY <1>1, <1>4
  <2> HIDE DEF i
  <2>2. JobSane(c, i)
    BY <1>2, <2>1, JobSaneAs
  <2> QED BY <2>2 DEF i
<1> QED BY <1>3, <1>4

\* An index that is not recorded.
LEMMA JobSaneLess ==
  ASSUME NEW c, CatOK(c), Sane(c), NEW j, JobOK(c, j), JobSane(c, j), NEW lost, \A k \in lost : k[1] = "unique"
  PROVE  JobSane(c, [j EXCEPT !.new = Less(j.new, lost)])
<1> DEFINE i == [j EXCEPT !.new = Less(j.new, lost)]
<1>1. j = Whose(j) /\ NewOK(j.new) /\ SetOK(c, j.set)
  BY DEF JobOK, Whose
<1> SUFFICES JobSane(c, i)
  OBVIOUS
<1>2. /\ i.by = j.by /\ i.todo = j.todo /\ i.new = Less(j.new, lost) /\ i.set = j.set /\ i.del = j.del
  <2>1. i = [by |-> j.by, todo |-> j.todo, new |-> Less(j.new, lost), set |-> j.set,
             del |-> j.del, held |-> j.held, done |-> j.done, past |-> j.past]
    BY <1>1, UpdatesAre
  <2> HIDE DEF i
  <2> QED BY <2>1
<1> HIDE DEF i
<1>3. CASE j.by \in Imports
  <2>1. Importable(c, j.new) => Importable(c, i.new)
    BY <1>1, <1>2, ImportableLess
  <2> QED BY <1>2, <1>3, <2>1 DEF JobSane
<1>4. CASE j.by \notin Imports /\ (j.by = "adopt_run" \/ j.del # {})
  <2>1. Promise(c, j)
    BY <1>4 DEF JobSane
  <2>2. Promise(c, i)
    BY <1>1, <1>2, <2>1, PromiseLost
  <2>3. j.by = "adopt_run" => Only(j.todo, {"commit"})
    BY <1>4 DEF JobSane
  <2>4. i.by = "adopt_run" => Only(i.todo, {"commit"})
    BY <1>2, <2>3
  <2>5. i.by \notin Imports /\ (i.by = "adopt_run" \/ i.del # {})
    BY <1>2, <1>4
  <2> QED BY <2>2, <2>4, <2>5, Zenon DEF JobSane
<1>5. CASE j.by \notin Imports /\ ~ (j.by = "adopt_run" \/ j.del # {})
  <2>1. Additive(c, j)
    BY <1>5, Zenon DEF JobSane
  <2>2. Additive(c, i)
    BY <1>2, <2>1, AdditiveLess
  <2>3. i.by \notin Imports /\ ~ (i.by = "adopt_run" \/ i.del # {})
    BY <1>2, <1>5
  <2> QED BY <2>2, <2>3, Zenon DEF JobSane
<1> QED BY <1>3, <1>4, <1>5

\* The invariant, and when it holds after a step.
SaneInv == Sane(cat) /\ \A d \in Designers : JobSane(cat, job[d])

\* One designer's request goes on, ends, or starts.
LEMMA SaneMove ==
  ASSUME SchemaInv, SaneInv, NEW d \in Designers, NEW j, job' = [job EXCEPT ![d] = j], cat' = cat,
         JobSane(cat, j)
  PROVE  SaneInv'
<1>1. job = [e \in Designers |-> job[e]]
  BY DEF SchemaInv
<1>2. job'[d] = j
  <2>1. d \in DOMAIN job
    BY <1>1
  <2> QED BY <2>1
<1>3. \A e \in Designers : e # d => job'[e] = job[e]
  BY <1>1
<1>4. \A e \in Designers : JobSane(cat', job'[e])
  BY <1>2, <1>3 DEF SaneInv
<1>5. Sane(cat')
  BY DEF SaneInv
<1> QED BY <1>4, <1>5 DEF SaneInv

\* A request that stops leaves the catalogue alone.
LEMMA SaneStop ==
  ASSUME SchemaInv, SaneInv, NEW d \in Designers, Stop(d) \/ Undo(d)
  PROVE  SaneInv'
<1>1. job' = [job EXCEPT ![d] = Idle] /\ cat' = cat
  BY DEF Stop, Undo
<1>2. JobSane(cat, Idle)
  BY JobSaneIdle DEF SchemaInv, SaneInv
<1> QED BY <1>1, <1>2, SaneMove

\* So does a statement that is refused.
LEMMA SaneRefused ==
  ASSUME SchemaInv, SaneInv, NEW d \in Designers, Busy(d), Refused(d)
  PROVE  SaneInv'
<1> DEFINE step == Next1(d)
           lost == {x[3] : x \in step.what}
           o == OnDone(job[d])
<1>1. /\ JobOK(cat, job[d]) /\ job[d] # Idle /\ JobSane(cat, job[d]) /\ CatOK(cat) /\ Sane(cat)
  BY DEF SchemaInv, SaneInv, Busy
<1>2. /\ JobOK(cat, o) /\ StepOK(step, job[d].by)
      /\ ~ MayBeLast(step) => Len(job[d].todo) # 1 /\ o.new = job[d].new
  BY <1>1, OnDoneIs, ZenonT(30) DEF Next1
<1>3. JobSane(cat, o)
  BY <1>1, JobSaneOn
<1> HIDE DEF o, step
<1>4. CASE step.else # "skip"
  <2>1. step.else \in {"stop", "undo"}
    BY <1>2, <1>4 DEF StepOK
  <2>2. Stop(d) \/ Undo(d)
    BY <2>1 DEF Refused, step
  <2> QED BY <2>2, SaneStop
<1>5. CASE step.else = "skip"
  <2>1. /\ cat' = cat
        /\ job' = [job EXCEPT ![d] = IF step.do # "build" THEN o
                                     ELSE [o EXCEPT !.new = [k \in DOMAIN job[d].new \ lost |-> job[d].new[k]]]]
    BY <1>5 DEF Refused, step, o
  <2>2. CASE step.do # "build"
    BY <1>3, <2>1, <2>2, SaneMove
  <2>3. CASE step.do = "build"
    <3>1. \A k \in lost : k[1] = "unique"
      BY <1>2, <1>5, <2>3 DEF StepOK
    <3>2. o.new = job[d].new
      BY <1>2, <1>5, <2>3 DEF MayBeLast
    <3> DEFINE j == [o EXCEPT !.new = Less(o.new, lost)]
    <3>3. job' = [job EXCEPT ![d] = j]
      BY <2>1, <2>3, <3>2 DEF Less
    <3> HIDE DEF lost
    <3>4. JobSane(cat, j)
      BY <1>1, <1>2, <1>3, <3>1, JobSaneLess
    <3> HIDE DEF j
    <3> QED BY <2>1, <3>3, <3>4, SaneMove
  <2> QED BY <2>2, <2>3
<1> QED BY <1>4, <1>5

\* And so does a statement that changes tables.
LEMMA SaneStatement ==
  ASSUME SchemaInv, SaneInv, NEW d \in Designers, Busy(d), NEW possible, NEW result, NEW changed, NEW lost,
         Statement(d, possible, result, changed, lost)
  PROVE  SaneInv'
<1> DEFINE o == OnDone(job[d])
           done == IF Len(job[d].todo) = 1 THEN {} ELSE job[d].done \cup changed
           j == [o EXCEPT !.done = done]
<1>1. CASE Refused(d)
  BY <1>1, SaneRefused
<1>2. CASE ~ Refused(d)
  <2>1. /\ JobOK(cat, job[d]) /\ job[d] # Idle /\ JobSane(cat, job[d]) /\ CatOK(cat) /\ Sane(cat)
    BY DEF SchemaInv, SaneInv, Busy
  <2>2. cat' = cat /\ job' = [job EXCEPT ![d] = j]
    BY <1>2 DEF Statement
  <2>3. JobSane(cat, o) /\ o = Whose(o)
    BY <2>1, JobSaneOn, OnDoneIs
  <2> HIDE DEF done, o
  <2>4. j.by = o.by /\ j.new = o.new /\ j.set = o.set /\ j.del = o.del /\ j.todo = o.todo
    <3>1. j = [by |-> o.by, todo |-> o.todo, new |-> o.new, set |-> o.set,
               del |-> o.del, held |-> o.held, done |-> done, past |-> o.past]
      BY <2>3, UpdatesAre
    <3> HIDE DEF j
    <3> QED BY <3>1
  <2> HIDE DEF j
  <2>5. JobSane(cat, j)
    BY <2>3, <2>4, JobSaneAs
  <2> QED BY <2>2, <2>5, SaneMove
<1> QED BY <1>1, <1>2

\* The steps that leave the catalogue as it is.
LEMMA SaneStatements ==
  ASSUME SchemaInv, SaneInv, NEW d \in Designers, build(d) \/ drop(d) \/ rename(d) \/ clear(d) \/ fail(d)
  PROVE  SaneInv'
<1> DEFINE S == Next1(d).what
           moved == {Moved(x) : x \in S}
<1>1. Busy(d)
  BY DEF build, drop, rename, clear, fail, At
<1>2. CASE build(d)
  <2>1. Statement(d, Storable(job[d], S), phys \cup S, S, {})
    BY <1>2 DEF build
  <2> HIDE DEF S
  <2> QED BY <1>1, <2>1, SaneStatement
<1>3. CASE drop(d)
  <2>1. Statement(d, Droppable(S), phys \ Fall(S), Fall(S), OfOthers(d, S))
    BY <1>3 DEF drop
  <2> HIDE DEF S
  <2> QED BY <1>1, <2>1, SaneStatement
<1>4. CASE clear(d)
  <2>1. Statement(d, TRUE, phys \ Fall(S), Fall(S), {})
    BY <1>4 DEF clear
  <2> HIDE DEF S
  <2> QED BY <1>1, <2>1, SaneStatement
<1>5. CASE rename(d)
  <2>1. Statement(d, S \subseteq phys /\ moved \cap phys = {}, (phys \ S) \cup moved, S \cup moved, {})
    BY <1>5 DEF rename
  <2> HIDE DEF S, moved
  <2> QED BY <1>1, <2>1, SaneStatement
<1>6. CASE fail(d)
  BY <1>1, <1>6, SaneRefused DEF fail
<1> QED BY <1>2, <1>3, <1>4, <1>5, <1>6

\* Rows that are sent are not visible yet.
LEMMA SaneFlush ==
  ASSUME SchemaInv, SaneInv, NEW d \in Designers, flush(d)
  PROVE  SaneInv'
<1> DEFINE o == OnDone(job[d])
           j == [o EXCEPT !.held = Flushed(job[d])]
<1>1. /\ JobOK(cat, job[d]) /\ job[d] # Idle /\ JobSane(cat, job[d]) /\ CatOK(cat) /\ Sane(cat)
  BY DEF SchemaInv, SaneInv, Busy, flush, At
<1>2. CASE Stop(d)
  BY <1>2, SaneStop
<1>3. CASE ~ Stop(d)
  <2>1. cat' = cat /\ job' = [job EXCEPT ![d] = j]
    BY <1>3 DEF flush
  <2>2. JobSane(cat, o) /\ o = Whose(o)
    BY <1>1, JobSaneOn, OnDoneIs
  <2> DEFINE held == Flushed(job[d])
  <2> HIDE DEF o, held
  <2>3. j = [by |-> o.by, todo |-> o.todo, new |-> o.new, set |-> o.set,
             del |-> o.del, held |-> held, done |-> o.done, past |-> o.past]
    BY <2>2, UpdatesAre DEF held
  <2> HIDE DEF j
  <2>4. j.by = o.by /\ j.new = o.new /\ j.set = o.set /\ j.del = o.del /\ j.todo = o.todo
    BY <2>3
  <2>5. JobSane(cat, j)
    BY <2>2, <2>4, JobSaneAs
  <2> QED BY <2>1, <2>5, SaneMove
<1> QED BY <1>2, <1>3

\* What a file brought is as sound next to what the old model left.
LEMMA ImportableWiped ==
  ASSUME NEW c, NEW c2, RowsIn(c, "role") \subseteq DOMAIN c2, NEW new, Importable(c, new)
  PROVE  Importable(c2, new)
<1>1. RowsIn(c, "role") \subseteq RowsIn(c2, "role")
  BY DEF RowsIn
<1> QED BY <1>1 DEF Importable

\* A wiped model leaves what the new one needs.
LEMMA SaneWipe ==
  ASSUME SchemaInv, SaneInv, NEW d \in Designers, wipe(d)
  PROVE  SaneInv'
<1> DEFINE o == OnDone(job[d])
           c == Without(cat, Wiped(cat))
           j == [o EXCEPT !.done = {}, !.past = FALSE]
<1>1. /\ JobOK(cat, job[d]) /\ job[d] # Idle /\ JobSane(cat, job[d]) /\ CatOK(cat) /\ Sane(cat)
      /\ Next1(d).do = "wipe"
  BY DEF SchemaInv, SaneInv, Busy, wipe, At
<1>2. CatOK(c) /\ Sane(c) /\ RowsIn(cat, "role") \subseteq DOMAIN c
  BY <1>1, SaneWiped, WithoutIs
<1>3. cat' = c /\ job' = [job EXCEPT ![d] = j]
  BY DEF wipe
<1>4. job[d].by \in Imports
  <2>1. StepOK(Next1(d), job[d].by)
    BY <1>1, OnDoneIs DEF Next1
  <2>2. job[d].by \in Whole
    BY <1>1, <2>1 DEF StepOK
  <2>3. job[d].by # "adopt_run"
    <3>1. ASSUME job[d].by = "adopt_run" PROVE FALSE
      <4>1. Only(job[d].todo, {"commit"})
        BY <1>1, <3>1 DEF JobSane, Imports
      <4>2. StepsOK(job[d].todo, job[d].by) /\ job[d].todo # <<>>
        BY <1>1 DEF JobOK
      <4>3. job[d].todo[1].do \in {"commit"}
        BY <4>1, <4>2, OnlyTail
      <4> QED BY <1>1, <4>3 DEF Next1
    <3> QED BY <3>1
  <2> QED BY <2>2, <2>3 DEF Imports
<1>5. /\ JobSane(cat, o) /\ o = Whose(o) /\ JobOK(cat, o)
      /\ o = Idle \/ o.by = job[d].by
  <2>1. /\ o = Whose(o) /\ JobOK(cat, o)
        /\ o = Idle \/ o.by = job[d].by
    BY <1>1, OnDoneIs, ZenonT(30)
  <2>2. JobSane(cat, o)
    BY <1>1, JobSaneOn
  <2> QED BY <2>1, <2>2
<1> HIDE DEF o, c
<1>6. j = [by |-> o.by, todo |-> o.todo, new |-> o.new, set |-> o.set,
           del |-> o.del, held |-> o.held, done |-> {}, past |-> FALSE]
  BY <1>5, FreshStart
<1> HIDE DEF j
<1>7. JobSane(c, o)
  <2>1. CASE o = Idle
    BY <1>2, <2>1, JobSaneIdle
  <2>2. CASE o # Idle
    <3>1. o.by \in Imports
      BY <1>4, <1>5, <2>2
    <3>2. Importable(cat, o.new) => Importable(c, o.new)
      BY <1>2, ImportableWiped
    <3> QED BY <1>5, <3>1, <3>2 DEF JobSane
  <2> QED BY <2>1, <2>2
<1>8. j.by = o.by /\ j.new = o.new /\ j.set = o.set /\ j.del = o.del /\ j.todo = o.todo
  BY <1>6
<1>9. JobSane(c, j)
  BY <1>7, <1>8, JobSaneAs
<1>10. job = [e \in Designers |-> job[e]]
  BY DEF SchemaInv
<1>11. job'[d] = j /\ \A e \in Designers : e # d => job'[e] = job[e]
  <2>1. d \in DOMAIN job
    BY <1>10
  <2> QED BY <1>3, <1>10, <2>1
<1>12. \A e \in Designers : e # d => job[e] = Idle
  BY <1>1, <1>4 DEF SchemaInv, Lonely, Busy, Imports
<1>13. JobSane(c, Idle)
  BY <1>2, JobSaneIdle
<1> QED BY <1>2, <1>3, <1>9, <1>11, <1>12, <1>13 DEF SaneInv

\* A request whose rows fit goes on as it was when another has added rows.
LEMMA SaneOthers ==
  ASSUME NEW c, CatOK(c), NEW c2, Later(c, c2), NEW j, JobOK(c, j), Additive(c, j), NEW moved
  PROVE  LET i == Outdated(j, moved, {}) IN Additive(c2, i) /\ i.by = j.by /\ i.del = {}
<1> DEFINE i == Outdated(j, moved, {})
<1>1. j = Whose(j) /\ NewOK(j.new) /\ j.del = {}
  BY DEF JobOK, Whose, Additive
<1>2. \A v : Now(v, {}) = v
  BY DEF Now
<1>3. i = [by |-> j.by, todo |-> Renamed(j.todo, moved), new |-> NewNow(j.new, {}),
           set |-> SetNow(j.set, {}), del |-> {Now(k, {}) : k \in j.del},
           held |-> j.held, done |-> j.done, past |-> j.past]
  BY <1>1, OutdatedIs
<1> HIDE DEF i
<1>4. i.by = j.by /\ i.del = {} /\ i.new = NewNow(j.new, {}) /\ i.set = SetNow(j.set, {})
  BY <1>1, <1>3
<1>5. /\ DOMAIN i.new = DOMAIN j.new
      /\ \A k \in DOMAIN j.new : \A m \in Columns(k) : i.new[k][m] = j.new[k][m]
  BY <1>1, <1>2, <1>4 DEF NewNow, NewOK
<1>6. /\ DOMAIN i.set = DOMAIN j.set
      /\ \A k \in DOMAIN j.set : /\ DOMAIN i.set[k] = DOMAIN j.set[k]
                                 /\ \A m \in DOMAIN j.set[k] : i.set[k][m] = j.set[k][m]
  <2>1. Gone \notin DOMAIN c
    BY ForeignIs DEF CatOK, Typed
  <2>2. ASSUME NEW k \in DOMAIN j.set, NEW m \in DOMAIN j.set[k] PROVE k # Gone
    BY <2>1, <2>2 DEF Additive, SetBy, SetFits
  <2>3. {Now(k, {}) : k \in DOMAIN j.set} = DOMAIN j.set
    BY <1>2
  <2>4. i.set = [k \in DOMAIN j.set |->
                   IF k = Gone THEN Nothing ELSE [m \in DOMAIN j.set[k] |-> j.set[k][m]]]
    BY <1>2, <1>4, <2>3 DEF SetNow
  <2>5. DOMAIN Nothing = {}
    BY DEF Nothing
  <2> QED BY <2>2, <2>4, <2>5
<1>7. SameRows(j, i)
  BY <1>1, <1>4, <1>5, <1>6 DEF SameRows
<1> QED BY <1>4, <1>7, AdditiveLater, AdditiveSame DEF i

\* What is committed is what was promised, what a file brought, or rows that fit.
LEMMA SaneCommit ==
  ASSUME SchemaInv, SaneInv, DeletesAlone, NEW d \in Designers, commit(d), SchemaInv'
  PROVE  SaneInv'
<1> DEFINE j == job[d]
           own == IF Len(job[d].todo) = 1 THEN Idle
                  ELSE [Asked(job[d].by, Tail(job[d].todo), Nothing, Nothing, {}) EXCEPT !.past = TRUE]
           Adding == j.by \notin Whole /\ j.del = {}
<1>1. /\ JobOK(cat, j) /\ j # Idle /\ JobSane(cat, j) /\ CatOK(cat) /\ Sane(cat)
      /\ j.todo[1].do = "commit"
  BY DEF SchemaInv, SaneInv, Busy, commit, At, Next1
<1>2. CASE Stop(d)
  BY <1>2, SaneStop
<1>3. CASE ~ Stop(d)
  <2> DEFINE moved == MovedBy(j)
             dead == Cascaded(cat, j.del)
  <2>1. /\ Sound(j) /\ cat' = Committed(j)
        /\ job' = [e \in Designers |-> IF e # d THEN Outdated(job[e], moved, dead) ELSE own]
    BY <1>3 DEF commit
  <2> HIDE DEF moved, dead
  <2>2. /\ cat' = After(cat, j) /\ job'[d] = own
        /\ \A e \in Designers : e # d => job'[e] = Outdated(job[e], moved, dead)
    BY <2>1, CommittedAfter
  <2>3. StepsOK(j.todo, j.by) /\ j.todo # <<>>
    BY <1>1 DEF JobOK
  <2>4. j.by \in Imports => Importable(cat, j.new)
    <3>1. ASSUME Only(j.todo, {"clear", "wipe", "build", "fail"}) PROVE FALSE
      <4>1. j.todo[1].do \in {"clear", "wipe", "build", "fail"}
        BY <2>3, <3>1, OnlyTail
      <4> QED BY <1>1, <4>1
    <3> QED BY <1>1, <3>1 DEF JobSane
  <2>5. DOMAIN j.new \cap DOMAIN cat = {}
    BY <1>1, <2>1 DEF Sound, JobOK
  <2>6. ASSUME Adding
         PROVE  /\ Sane(cat')
                /\ \A e \in Designers : e # d => job[e] = Idle \/ JobSane(cat', job'[e])
    <3>1. Additive(cat, j)
      BY <1>1, <2>6 DEF JobSane, Imports, Whole
    <3>2. Sane(cat') /\ Later(cat, cat')
      BY <1>1, <2>2, <2>5, <3>1, AdditiveSane
    <3>3. dead = {}
      <4>1. {} \cap DOMAIN cat = {} /\ IsFiniteSet(DOMAIN cat)
        BY <1>1 DEF CatOK
      <4>2. Cascaded(cat, {} \cap DOMAIN cat) = {}
        BY <4>1, LessFalls
      <4> QED BY <2>6, <4>1, <4>2 DEF dead
    <3>4. ASSUME NEW e \in Designers, e # d, job[e] # Idle PROVE JobSane(cat', job'[e])
      <4>1. job[e].by \notin Whole /\ job[e].del = {}
        BY <1>1, <3>4 DEF SchemaInv, Lonely, DeletesAlone, Busy
      <4>2. JobOK(cat, job[e]) /\ Additive(cat, job[e])
        BY <4>1 DEF SchemaInv, SaneInv, JobSane, Imports, Whole
      <4> DEFINE i == Outdated(job[e], moved, {})
      <4>3. PICK c : c = cat'
        OBVIOUS
      <4>4. Additive(c, i) /\ i.by = job[e].by /\ i.del = {}
        <5>1. Later(cat, c)
          BY <3>2, <4>3
        <5> QED BY <1>1, <4>2, <5>1, SaneOthers
      <4>5. job'[e] = i
        BY <2>2, <3>3, <3>4
      <4> HIDE DEF i
      <4>6. JobSane(c, i)
        BY <4>1, <4>4 DEF JobSane, Imports, Whole
      <4> QED BY <4>3, <4>5, <4>6
    <3> QED BY <3>2, <3>4
  <2>7. ASSUME ~ Adding
         PROVE  /\ Sane(cat')
                /\ \A e \in Designers : e # d => job[e] = Idle \/ JobSane(cat', job'[e])
    <3>1. Promise(cat, j)
      <4>1. CASE j.by \in Imports
        <5>1. j.by \in Whole
          BY <4>1 DEF Imports
        <5>2. NewOK(j.new) /\ DOMAIN j.set = {} /\ j.del = {}
          BY <1>1, <5>1 DEF JobOK
        <5> HIDE DEF j
        <5> QED BY <1>1, <2>4, <2>5, <4>1, <5>2, ImportedSane
      <4>2. CASE j.by \notin Imports
        BY <1>1, <2>7, <4>2 DEF JobSane, Imports
      <4> QED BY <4>1, <4>2
    <3>2. \A e \in Designers : e # d => job[e] = Idle
      BY <1>1, <2>7 DEF SchemaInv, Lonely, DeletesAlone, Busy
    <3> QED BY <2>2, <3>1, <3>2 DEF Promise
  <2>8. /\ Sane(cat')
        /\ \A e \in Designers : e # d => job[e] = Idle \/ JobSane(cat', job'[e])
    BY <2>6, <2>7
  <2>9. CatOK(cat') /\ \A c : c = cat' => JobSane(c, Idle)
    <3>1. ASSUME NEW c, c = cat' PROVE JobSane(c, Idle)
      <4>1. CatOK(c) /\ Sane(c)
        BY <2>8, <3>1 DEF SchemaInv
      <4> QED BY <4>1, JobSaneIdle
    <3> QED BY <3>1 DEF SchemaInv
  <2>10. JobSane(cat', own)
    <3> HIDE DEF own
    <3>2. PICK c : c = cat'
      OBVIOUS
    <3>3. CatOK(c) /\ Sane(c)
      BY <2>8, <2>9, <3>2
    <3>4. CASE own = Idle
      BY <3>2, <3>3, <3>4, JobSaneIdle
    <3>5. CASE own # Idle
      <4>1. own = [Asked(j.by, Tail(j.todo), Nothing, Nothing, {}) EXCEPT !.past = TRUE]
        BY <3>5 DEF own
      <4>2. own.by = j.by /\ own.todo = Tail(j.todo) /\ own.new = Nothing /\ own.set = Nothing /\ own.del = {}
        BY <4>1 DEF Asked
      <4>3. CASE j.by \in Imports
        BY <3>2, <4>2, <4>3, ImportableNothing DEF JobSane
      <4>4. CASE j.by \notin Imports
        <5>1. Promise(c, own) /\ Additive(c, own)
          BY <3>3, <4>2, PromiseNothing, AdditiveNothing
        <5>2. j.by = "adopt_run" => Only(Tail(j.todo), {"commit"})
          BY <1>1, <2>3, <4>4, OnlyTail DEF JobSane
        <5> QED BY <3>2, <4>2, <4>4, <5>1, <5>2 DEF JobSane
      <4> QED BY <4>3, <4>4
    <3> QED BY <3>4, <3>5
  <2>11. ASSUME NEW e \in Designers, e # d PROVE JobSane(cat', job'[e])
    <3>1. CASE job[e] = Idle
      BY <2>2, <2>9, <2>11, <3>1, IdleOutdated
    <3>2. CASE job[e] # Idle
      BY <2>8, <2>11, <3>2
    <3> QED BY <3>1, <3>2
  <2> QED BY <2>2, <2>8, <2>10, <2>11 DEF SaneInv
<1> QED BY <1>2, <1>3

\* A crash leaves the catalogue as it was committed last.
LEMMA SaneCrash ==
  ASSUME SchemaInv, SaneInv, crash
  PROVE  SaneInv'
<1>1. job' = [d \in Designers |-> Idle] /\ cat' = cat
  BY DEF crash
<1>2. JobSane(cat, Idle)
  BY JobSaneIdle DEF SchemaInv, SaneInv
<1>3. \A d \in Designers : JobSane(cat', job'[d])
  BY <1>1, <1>2
<1>4. Sane(cat')
  BY <1>1 DEF SaneInv
<1> QED BY <1>3, <1>4 DEF SaneInv

\* A request is made, and keeps to what it promises.
LEMMA SaneStart ==
  ASSUME SchemaInv, SaneInv, NEW d \in Designers, NEW by, NEW todo, NEW new, NEW set, NEW del,
         Start(d, by, todo, new, set, del), JobSane(cat, Asked(by, todo, new, set, del))
  PROVE  SaneInv'
<1>1. job' = [job EXCEPT ![d] = Asked(by, todo, new, set, del)] /\ cat' = cat
  BY DEF Start
<1> DEFINE j == Asked(by, todo, new, set, del)
<1>2. job' = [job EXCEPT ![d] = j] /\ cat' = cat /\ JobSane(cat, j)
  BY <1>1
<1> HIDE DEF j
<1> QED BY <1>2, SaneMove

\* A request that starts with rows that fit, or with a promise.
LEMMA SaneMade ==
  ASSUME SchemaInv, SaneInv, NEW d \in Designers, Makes(d)
  PROVE  SaneInv'
<1>1. PICK by, todo, new, set, del :
        /\ by \notin Whole /\ Start(d, by, todo, new, set, del)
        /\ IF del = {} THEN Additive(cat, Asked(by, todo, new, set, del))
           ELSE Promise(cat, Asked(by, todo, new, set, del))
  BY DEF Makes
<1> DEFINE j == Asked(by, todo, new, set, del)
<1>2. j.by = by /\ j.del = del
  BY DEF Asked
<1>3. /\ j.by \notin Imports /\ j.by # "adopt_run"
      /\ IF j.del = {} THEN Additive(cat, j) ELSE Promise(cat, j)
  BY <1>1, <1>2 DEF Imports, Whole
<1> HIDE DEF j
<1>4. JobSane(cat, j)
  BY <1>3 DEF JobSane
<1> QED BY <1>1, <1>4, SaneStart DEF j

\* What is adopted, as a request.
LEMMA SaneAdopted ==
  ASSUME SchemaInv, SaneInv, NEW d \in Designers, adopt_run(d)
  PROVE  SaneInv'
<1>1. PICK new : /\ Start(d, "adopt_run", <<Commit>>, new, Nothing, {})
                 /\ Promise(cat, Asked("adopt_run", <<Commit>>, new, Nothing, {}))
  BY SaneAdopt DEF SchemaInv, SaneInv
<1> DEFINE j == Asked("adopt_run", <<Commit>>, new, Nothing, {})
<1>2. j.by = "adopt_run" /\ j.todo = <<Commit>>
  BY DEF Asked
<1>3. Only(<<Commit>>, {"commit"})
  <2>1. Commit.do \in {"commit"}
    BY DEF Commit, Step
  <2> QED BY <2>1, OnlyShort
<1>4. "adopt_run" \notin Imports
  BY DEF Imports
<1>5. Promise(cat, j)
  BY <1>1
<1> HIDE DEF j
<1>6. JobSane(cat, j)
  BY <1>2, <1>3, <1>4, <1>5 DEF JobSane
<1> QED BY <1>1, <1>6, SaneStart DEF j

\* An import: a file that lacks a table is not committed, another brings rows
\* that fit each other.
LEMMA SaneReads ==
  ASSUME SchemaInv, SaneInv, NEW d \in Designers, NEW by \in Imports, NEW first, NEW c,
         IsFile(c), NoneIndexed(c), Readable(c),
         StepsOK(first, by), Only(first, {"clear", "wipe", "build", "fail"}),
         Start(d, by, first \o Reading(c), NewOf(c), Nothing, {})
  PROVE  SaneInv'
<1> DEFINE todo == first \o Reading(c)
           j == Asked(by, todo, NewOf(c), Nothing, {})
<1>1. j.by = by /\ j.todo = todo /\ j.new = NewOf(c)
  BY DEF Asked
<1>2. ASSUME ~ Loads(c) PROVE Only(todo, {"clear", "wipe", "build", "fail"})
  <2>1. StepsOK(Reading(c), by)
    BY ReadingIs DEF GoodSteps
  <2>2. Only(Reading(c), {"clear", "wipe", "build", "fail"})
    BY <1>2, ReadingFails
  <2> QED BY <2>1, <2>2, OnlyJoin
<1>3. Loads(c) => Importable(cat, NewOf(c))
  BY ReadsNewOf, ReadSane
<1> HIDE DEF j, todo
<1>4. JobSane(cat, j)
  BY <1>1, <1>2, <1>3 DEF JobSane
<1>5. Start(d, by, todo, NewOf(c), Nothing, {})
  BY DEF todo
<1> QED BY <1>4, <1>5, SaneStart DEF j

\* A file that takes the place of the model, as a request.
LEMMA SaneReplace ==
  ASSUME SchemaInv, SaneInv, NEW d \in Designers, NEW by \in {"schema_import", "example_load"}, NEW c,
         IsFile(c), NoneIndexed(c), Readable(c), Replace(d, by, c)
  PROVE  SaneInv'
<1> DEFINE old == {x \in Described(cat) : x[1] \in {"table", "junction"}}
           first == IF Rows("table") = {} THEN <<>> ELSE <<Step("clear", old, "skip"), Wipe>>
<1>1. Start(d, by, first \o Reading(c), NewOf(c), Nothing, {})
  BY DEF Replace
<1>2. by \in Whole /\ by \in Imports
  BY DEF Whole, Imports
<1>3. \A x \in old : Ours(x)
  BY CatDescribes DEF SchemaInv
<1> HIDE DEF old
<1>4. StepsOK(first, by)
  BY <1>2, <1>3, ShapesAre, StepsAre DEF GoodSteps
<1>5. Only(first, {"clear", "wipe", "build", "fail"})
  <2>1. Step("clear", old, "skip").do \in {"clear", "wipe", "build", "fail"} /\ Wipe.do \in {"clear", "wipe", "build", "fail"}
    BY DEF Step, Wipe
  <2> QED BY <2>1, OnlyShort
<1> HIDE DEF first
<1> QED BY <1>1, <1>2, <1>4, <1>5, SaneReads

\* The files that there are may be read.
LEMMA SaneFiles ==
  \A c \in Files \cup {Example} : IsFile(c) /\ NoneIndexed(c) /\ Readable(c)
  BY SoundStart, FilesAre

\* The requests that read files.
LEMMA SaneImports ==
  ASSUME SchemaInv, SaneInv, NEW d \in Designers, schema_import(d) \/ example_load(d) \/ module_enable(d)
  PROVE  SaneInv'
<1>1. CASE schema_import(d)
  <2>1. PICK c \in {export_schema(cat)} \cup Files : Replace(d, "schema_import", c)
    BY <1>1 DEF schema_import
  <2>2. IsFile(c) /\ NoneIndexed(c) /\ Readable(c)
    BY <2>1, SaneFiles, ExportIs, ReadableExport DEF SchemaInv, SaneInv
  <2> QED BY <2>1, <2>2, SaneReplace
<1>2. CASE example_load(d)
  BY <1>2, SaneFiles, SaneReplace DEF example_load
<1>3. CASE module_enable(d)
  <2>1. Start(d, "module_enable", Reading(Example), NewOf(Example), Nothing, {})
    BY <1>3 DEF module_enable
  <2>2. StepsOK(<<>>, "module_enable") /\ Only(<<>>, {"clear", "wipe", "build", "fail"})
    <3>1. Len(<<>>) = 0
      OBVIOUS
    <3> QED BY <3>1, StepsAre DEF Only
  <2>3. <<>> \o Reading(Example) = Reading(Example)
    <3>1. StepsOK(Reading(Example), "module_enable")
      BY SaneFiles, ReadingIs DEF GoodSteps
    <3>2. PICK S : Reading(Example) \in Seq(S)
      BY <3>1 DEF StepsOK
    <3> QED BY <3>2
  <2>4. "module_enable" \in Imports
    BY DEF Whole, Imports
  <2> QED BY <2>1, <2>2, <2>3, <2>4, SaneFiles, SaneReads
<1> QED BY <1>1, <1>2, <1>3

\* Every request starts like that.
LEMMA SaneRequest ==
  ASSUME SchemaInv, SaneInv, NEW d \in Designers, Request(d)
  PROVE  SaneInv'
<1>1. CatOK(cat) /\ Sane(cat) /\ topic.each \in Nat /\ d \in Designers
  BY DEF SchemaInv, SaneInv
<1>2. CASE table_new(d) \/ table_from_csv(d) \/ table_duplicate(d) \/ table_delete(d)
  <2>1. Makes(d)
    BY <1>1, <1>2, SaneTableNew, SaneTableFromCsv, SaneTableDuplicate, SaneTableDelete
  <2> QED BY <2>1, SaneMade
<1>3. CASE field_add(d) \/ field_delete(d) \/ field_edit(d) \/ set_display_field(d)
  <2>1. Makes(d)
    BY <1>1, <1>3, SaneFieldAdd, SaneFieldDelete, SaneFieldEdit, SaneDisplayField
  <2> QED BY <2>1, SaneMade
<1>4. CASE unique_add(d) \/ unique_delete(d) \/ table_flags(d)
  <2>1. Makes(d)
    BY <1>1, <1>4, SaneUniqueAdd, SaneUniqueDelete, SaneTableFlags
  <2> QED BY <2>1, SaneMade
<1>5. CASE relation_new_m1(d) \/ relation_new_mn(d) \/ relation_edit(d) \/ relation_delete(d)
  <2>1. Makes(d)
    BY <1>1, <1>5, SaneRelationM1, SaneRelationMn, SaneRelationEdit, SaneRelationDelete
  <2> QED BY <2>1, SaneMade
<1>6. CASE adopt_run(d)
  BY <1>6, SaneAdopted
<1>7. CASE schema_import(d) \/ example_load(d) \/ module_enable(d)
  BY <1>7, SaneImports
<1> QED BY <1>2, <1>3, <1>4, <1>5, <1>6, <1>7 DEF Request

\* It starts sane.
LEMMA SaneInvInit == Init => SaneInv
<1> SUFFICES ASSUME Init PROVE SaneInv
  OBVIOUS
<1>1. SchemaInv
  BY SchemaInvInit
<1>2. Sane(cat)
  BY SoundStart DEF Init
<1>3. JobSane(cat, Idle)
  BY <1>1, <1>2, JobSaneIdle DEF SchemaInv
<1>4. \A d \in Designers : job[d] = Idle
  BY DEF Init
<1> QED BY <1>2, <1>3, <1>4 DEF SaneInv

\* A request of one row is made while there is no other.
LEMMA SaneInvNext ==
  SchemaInv /\ SaneInv /\ DeletesAlone /\ [Next]_vars => SaneInv'
<1> SUFFICES ASSUME SchemaInv, SaneInv, DeletesAlone, [Next]_vars PROVE SaneInv'
  OBVIOUS
<1>1. SchemaInv'
  BY SchemaInvNext
<1>2. CASE Quiet /\ OneRow /\ UNCHANGED schemaVars
  <2>1. Sane(cat') /\ job' = job
    BY <1>2, SaneOneRow DEF SchemaInv, SaneInv, schemaVars
  <2>2. \A e \in Designers : job[e] = Idle
    BY <1>2 DEF Quiet, Busy
  <2>3. CatOK(cat')
    BY <1>1 DEF SchemaInv
  <2>4. JobSane(cat', Idle)
    <3>1. PICK c : c = cat'
      OBVIOUS
    <3>2. JobSane(c, Idle)
      BY <2>1, <2>3, <3>1, JobSaneIdle
    <3> QED BY <3>1, <3>2
  <2> QED BY <2>1, <2>2, <2>4 DEF SaneInv
<1>3. ASSUME NEW d \in Designers, (AllWhole /\ Alone /\ Request(d)) \/ Progress(d)
      PROVE  SaneInv'
  <2>1. CASE Request(d)
    BY <2>1, SaneRequest
  <2>2. CASE flush(d)
    BY <2>2, SaneFlush
  <2>3. CASE commit(d)
    BY <1>1, <2>3, SaneCommit
  <2>4. CASE wipe(d)
    BY <2>4, SaneWipe
  <2>5. CASE build(d) \/ drop(d) \/ rename(d) \/ clear(d) \/ fail(d)
    BY <2>5, SaneStatements
  <2>6. CASE deadlock_victim(d)
    BY <2>6, SaneStop DEF deadlock_victim
  <2> QED BY <1>3, <2>1, <2>2, <2>3, <2>4, <2>5, <2>6 DEF Progress
<1>4. CASE crash
  BY <1>4, SaneCrash
<1>5. CASE UNCHANGED vars
  <2>1. cat' = cat /\ job' = job
    BY <1>5 DEF vars
  <2> QED BY <2>1 DEF SaneInv
<1> QED BY <1>2, <1>3, <1>4, <1>5 DEF Next

\* Designers who overlap leave a sound catalogue, as long as none does while
\* another has still to delete rows.
LEMMA SaneInvHolds ==
  Spec /\ []DeletesAlone => []SaneInv
BY SaneInvInit, SaneInvNext, SchemaInvHolds, PTL DEF Spec

-----------------------------------------------------------------------------
(* A sound catalogue has what the runs check.                                 *)

\* No reference dangles that the requests keep up.
LEMMA SaneReferences ==
  ASSUME CatOK(cat), Sane(cat)
  PROVE  ReferencesKept
<1> DEFINE R == KeptReferences
<1>1. /\ DOMAIN R = {"relation", "item", "table", "user", "company", "permission", "fieldperm", "unique"}
      /\ R["relation"] = {"from_table_id", "to_table_id", "from_field_id"} /\ R["item"] = {"relation_id"}
      /\ R["table"] = {"source_id"} /\ R["user"] = {"company_id", "role"} /\ R["company"] = {"parent_id"}
      /\ R["permission"] = {"role"} /\ R["fieldperm"] = {"role"} /\ R["unique"] = {"table_id"}
  BY DEF KeptReferences
<1> HIDE DEF R
<1>2. ASSUME NEW k \in DOMAIN cat, k[1] \in DOMAIN R, NEW m \in R[k[1]] PROVE cat[k][m] # Gone
  <2>1. SaneRow(cat, k, cat[k])
    BY DEF Sane
  <2>2. CASE k[1] = "relation"
    BY <1>1, <1>2, <2>1, <2>2 DEF SaneRow
  <2>3. CASE k[1] \in {"item", "table", "company"}
    BY <1>1, <1>2, <2>1, <2>3 DEF SaneRow
  <2>4. CASE k[1] \in {"user", "permission", "fieldperm"}
    BY <1>1, <1>2, <2>1, <2>4 DEF SaneRow
  <2>5. CASE k[1] = "unique"
    BY <1>1, <1>2, <2>5, NotGone
  <2> QED BY <1>1, <1>2, <2>2, <2>3, <2>4, <2>5
<1> QED BY <1>2 DEF ReferencesKept, R

\* A walk up that came back to where it started would be a cycle of companies.
LEMMA NoWayBack ==
  ASSUME NEW D, NEW N \in Nat, NEW f, NEW parent, NEW n \in 1 .. N,
         \A i \in 0 .. N : i # 0 => f[i] = IF f[i - 1] \in D THEN parent[f[i - 1]] ELSE None,
         None \notin D, f[0] \in D, f[n] = f[0]
  PROVE  \E S \in SUBSET D : S # {} /\ \A x \in S : parent[x] \in S
<1> DEFINE g == [i \in 0 .. n |-> f[n - i]]
<1>1. n \in Nat /\ n > 0 /\ n <= N
  OBVIOUS
<1>2. \A i \in 0 .. n : g[i] \in D
  <2>1. /\ \A i \in 0 .. n : g[i] = f[n - i]
        /\ \A i \in 0 .. n : i # 0 => i - 1 \in 0 .. n /\ n - i + 1 \in 0 .. N /\ n - i + 1 # 0
                                      /\ n - (i - 1) = n - i + 1 /\ (n - i + 1) - 1 = n - i
        /\ 0 \in 0 .. n /\ n - 0 = n
    BY <1>1
  <2> HIDE DEF g
  <2>2. g[0] \in D
    BY <2>1
  <2>3. ASSUME NEW i \in 0 .. n, i # 0, g[i - 1] \in D PROVE g[i] \in D
    <3>1. g[i - 1] = f[n - i + 1] /\ g[i] = f[n - i]
      BY <2>1, <2>3
    <3>2. f[n - i + 1] = IF f[n - i] \in D THEN parent[f[n - i]] ELSE None
      BY <2>1, <2>3
    <3> QED BY <2>3, <3>1, <3>2
  <2> QED BY <1>1, <2>2, <2>3, WalkStays
<1>3. \A i \in 0 .. n : f[i] \in D
  <2>1. \A i \in 0 .. n : n - i \in 0 .. n /\ g[n - i] = f[i]
    BY <1>1
  <2> HIDE DEF g
  <2> QED BY <1>2, <2>1
<1> HIDE DEF g
<1> DEFINE S == {f[i] : i \in 1 .. n}
<1>4. S \in SUBSET D /\ f[1] \in S
  BY <1>1, <1>3
<1>5. ASSUME NEW i \in 1 .. n PROVE parent[f[i]] \in S
  <2>1. CASE i = n
    <3>1. f[1] = parent[f[0]]
      BY <1>1, <1>3
    <3> QED BY <1>4, <2>1, <3>1
  <2>2. CASE i # n
    <3>1. i + 1 \in 1 .. n /\ i + 1 \in 0 .. N /\ i + 1 # 0 /\ (i + 1) - 1 = i /\ f[i] \in D
      BY <1>1, <1>3, <2>2
    <3>2. f[i + 1] = IF f[i] \in D THEN parent[f[i]] ELSE None
      <4>1. \A j \in 0 .. N : j # 0 => f[j] = IF f[j - 1] \in D THEN parent[f[j - 1]] ELSE None
        OBVIOUS
      <4>2. PICK j : j = i + 1
        OBVIOUS
      <4>3. f[j] = IF f[j - 1] \in D THEN parent[f[j - 1]] ELSE None
        BY <3>1, <4>1, <4>2
      <4> QED BY <3>1, <4>2, <4>3
    <3>3. f[i + 1] \in S
      BY <3>1
    <3> QED BY <3>1, <3>2, <3>3
  <2> QED BY <2>1, <2>2
<1>6. \A x \in S : parent[x] \in S
  BY <1>5
<1> HIDE DEF S
<1> QED BY <1>4, <1>6

\* The companies of a sane catalogue are trees.
LEMMA SaneTrees ==
  ASSUME CatOK(cat), Sane(cat)
  PROVE  CompaniesAreTrees
<1> DEFINE D == Rows("company")
           N == Cardinality(D)
           U == D \cup {None, Gone}
           parent == [k \in D |-> cat[k].parent_id]
           step == [v \in U |-> IF v \in D THEN parent[v] ELSE None]
           Walk(k, f) == f = [n \in 0 .. N |->
                                IF n = 0 THEN k
                                ELSE LET below == f[n - 1] IN
                                     IF below \in DOMAIN cat THEN cat[below].parent_id ELSE None]
<1>1. IsFiniteSet(D) /\ N \in Nat
  <2>1. D \in SUBSET DOMAIN cat
    BY DEF Rows, RowsIn
  <2> QED BY <2>1, FS_Subset, FS_CardinalityType DEF CatOK
<1>2. /\ None \notin DOMAIN cat /\ Gone \notin DOMAIN cat /\ D \subseteq DOMAIN cat
      /\ \A k \in D : cat[k].parent_id \in U
  <2>1. None \notin DOMAIN cat /\ Gone \notin DOMAIN cat /\ D \subseteq DOMAIN cat
    BY ForeignIs DEF Rows, RowsIn, CatOK, Typed
  <2>2. ASSUME NEW k \in D PROVE cat[k].parent_id \in U
    <3>1. k \in DOMAIN cat /\ k[1] = "company"
      BY DEF Rows, RowsIn
    <3>2. "parent_id" \in Columns(k) /\ Column(k, "parent_id") = Id("company")
      BY <3>1, ModelIs DEF Columns, Column, Company
    <3>3. \/ cat[k].parent_id = None \/ cat[k].parent_id = Gone
          \/ cat[k].parent_id \in DOMAIN cat /\ cat[k].parent_id[1] = Column(k, "parent_id").to
      BY <3>1, <3>2 DEF CatOK, Typed
    <3> QED BY <3>2, <3>3, KindsAre DEF Rows, RowsIn
  <2> QED BY <2>1, <2>2
<1>3. step \in [U -> U]
  BY <1>2
<1>4. ASSUME NEW k \in D, NEW f, Walk(k, f), NEW n \in 1 .. N PROVE f[n] # k
  <2>1. f = [i \in 0 .. N |-> IF i = 0 THEN k
                             ELSE IF f[i - 1] \in DOMAIN cat THEN cat[f[i - 1]].parent_id ELSE None]
    BY <1>4
  <2> HIDE DEF N, D
  <2>2. \A i \in 0 .. N : f[i] = IF i = 0 THEN k
                              ELSE IF f[i - 1] \in DOMAIN cat THEN cat[f[i - 1]].parent_id ELSE None
    BY <2>1
  <2>3. f[0] = k
    <3>1. 0 \in 0 .. N
      BY <1>1
    <3> QED BY <2>2, <3>1
  <2>4. \A i \in 0 .. N : f[i] \in U
    <3>1. ASSUME NEW i \in 0 .. N, i # 0, f[i - 1] \in U PROVE f[i] \in U
      <4>1. f[i] = IF f[i - 1] \in DOMAIN cat THEN cat[f[i - 1]].parent_id ELSE None
        BY <2>2, <3>1
      <4>2. f[i - 1] \in DOMAIN cat => f[i - 1] \in D
        BY <1>2, <3>1
      <4> QED BY <1>2, <4>1, <4>2
    <3>2. f[0] \in U
      BY <2>3
    <3> HIDE DEF U
    <3> QED BY <1>1, <3>1, <3>2, WalkStays
  <2>5. \A i \in 0 .. N : i # 0 => f[i] = IF f[i - 1] \in D THEN parent[f[i - 1]] ELSE None
    <3>1. \A i \in 0 .. N : i # 0 => i - 1 \in 0 .. N
      BY <1>1
    <3>2. \A i \in 0 .. N : i # 0 => (f[i - 1] \in DOMAIN cat <=> f[i - 1] \in D)
      BY <1>2, <2>4, <3>1
    <3>3. \A x \in D : parent[x] = cat[x].parent_id
      OBVIOUS
    <3> HIDE DEF parent, U
    <3> QED BY <2>2, <3>2, <3>3
  <2>6. ASSUME f[n] = k PROVE FALSE
    <3>1. None \notin D /\ f[0] \in D /\ f[n] = f[0]
      BY <1>2, <2>3, <2>6
    <3> HIDE DEF parent, U
    <3>2. PICK S \in SUBSET D : S # {} /\ \A x \in S : parent[x] \in S
      BY <1>1, <2>5, <3>1, NoWayBack
    <3>3. \A x \in S : cat[x].parent_id \in S
      BY <3>2 DEF parent
    <3>4. S \in SUBSET RowsIn(cat, "company")
      BY DEF D, Rows
    <3> QED BY <3>2, <3>3, <3>4 DEF Sane, NoCycle
  <2> QED BY <2>6
<1>5. ASSUME NEW k \in D PROVE \E f : Walk(k, f)
  <2>1. PICK g : IsWalk(g, U, step, k, N)
    <3>1. k \in U
      OBVIOUS
    <3> HIDE DEF step, U, N, D
    <3> QED BY <1>1, <1>3, <3>1, WalkExists
  <2>2. \A i \in 0 .. N : i # 0 => i - 1 \in 0 .. N
    BY <1>1
  <2> HIDE DEF N
  <2>3. /\ \A i \in 0 .. N : g[i] = IF i = 0 THEN k ELSE step[g[i - 1]]
        /\ g \in [0 .. N -> U] /\ \A i \in 0 .. N : g[i] \in U
    <3> HIDE DEF step, U, D
    <3> QED BY <2>1 DEF IsWalk
  <2>4. \A v \in U : step[v] = IF v \in DOMAIN cat THEN cat[v].parent_id ELSE None
    BY <1>2
  <2> HIDE DEF U, step, D
  <2>5. \A i \in 0 .. N : g[i] = IF i = 0 THEN k
                              ELSE IF g[i - 1] \in DOMAIN cat THEN cat[g[i - 1]].parent_id ELSE None
    BY <2>2, <2>3, <2>4
  <2>6. Walk(k, g)
    BY <2>3, <2>5
  <2> QED BY <2>6
<1>6. ASSUME NEW k \in D PROVE \A n \in 1 .. N : (CHOOSE f : Walk(k, f))[n] # k
  <2>1. Walk(k, CHOOSE f : Walk(k, f))
    <3> HIDE DEF Walk
    <3> QED BY <1>5
  <2>2. PICK f : f = (CHOOSE g : Walk(k, g))
    OBVIOUS
  <2> HIDE DEF Walk
  <2>3. Walk(k, f)
    BY <2>1, <2>2
  <2> QED BY <1>4, <2>2, <2>3
<1> QED BY <1>6 DEF CompaniesAreTrees

-----------------------------------------------------------------------------
(* What a deletion changes, and what the page that announces it names.        *)

\* The foreign keys with which a row falls.
FallColumns ==
    {<<"field", "table_id", "table">>, <<"unique", "table_id", "table">>, <<"form", "table_id", "table">>,
     <<"workflow", "table_id", "table">>, <<"workflow", "field_id", "field">>,
     <<"item", "form_id", "form">>, <<"menu", "parent_id", "menu">>, <<"view", "user_id", "user">>,
     <<"view", "form_id", "form">>, <<"step", "workflow_id", "workflow">>,
     <<"trigger", "table_id", "table">>, <<"sla", "table_id", "table">>,
     <<"feed", "source_table_id", "table">>, <<"feed", "connection_id", "connection">>,
     <<"webhook", "target_table_id", "table">>, <<"pull", "target_table_id", "table">>,
     <<"report", "user_id", "user">>, <<"report", "table_id", "table">>,
     <<"widget", "dashboard_id", "dashboard">>}

\* The other columns for tables, for forms and relations, and for fields.
TableColumns ==
    {<<"field", "related_table_id">>, <<"relation", "from_table_id">>, <<"relation", "to_table_id">>,
     <<"menu", "target_table_id">>, <<"trigger", "create_table_id">>, <<"widget", "table_id">>,
     <<"recurring", "table_id">>, <<"window", "table_id">>, <<"window", "record_table_id">>}
PartColumns ==
    {<<"menu", "target_form_id", "form">>, <<"permission", "form_id", "form">>,
     <<"mailbox", "create_form_id", "form">>, <<"item", "relation_id", "relation">>}
OwnFieldColumns ==
    {<<"table", "display_field_id">>, <<"relation", "from_field_id">>,
     <<"relation", "from_display_field_ids">>, <<"unique", "field_ids">>,
     <<"trigger", "field_id">>, <<"trigger", "cond_field_id">>, <<"trigger", "set_field_id">>,
     <<"sla", "status_field_id">>, <<"sla", "cond_field_id">>, <<"sla", "state_field_id">>,
     <<"sla", "due_field_id">>, <<"sla", "breach_set_field_id">>,
     <<"feed", "field_id">>, <<"feed", "cond_field_id">>}
OtherFieldColumns ==
    {<<"relation", "to_display_field_ids">>, <<"item", "field_id">>, <<"item", "parent_field_id">>,
     <<"item", "filter_field_id">>, <<"fieldperm", "field_id">>}

Listed(class, m, col) ==
    /\ col.on = "cascade" => <<class, m, col.to>> \in FallColumns
    /\ col.on # "cascade" /\ col.to = "table" => <<class, m>> \in TableColumns
    /\ col.on # "cascade" /\ col.to \in {"form", "relation"} => <<class, m, col.to>> \in PartColumns
    /\ col.on # "cascade" /\ col.to = "field" => <<class, m>> \in OwnFieldColumns \cup OtherFieldColumns
    /\ col.on # "cascade" => col.to # "workflow"

\* Every column of every class is listed.
LEMMA ListedAre ==
  ASSUME NEW class \in Classes
  PROVE  \A m \in DOMAIN Model[class] : Listed(class, m, Model[class][m])
<1> DEFINE All(x, columns) == \A m \in DOMAIN columns : Listed(x, m, columns[m])
<1> USE DEF Listed, FallColumns, TableColumns, PartColumns, OwnFieldColumns, OtherFieldColumns,
            Id, Bare, Key, Parent, Loose
<1>1. All("source", DataSource) /\ All("role", Role) /\ All("connection", Connection) /\ All("dashboard", Dashboard)
  BY DEF DataSource, Role, Connection, Dashboard
<1>2. All("table", MetaTable) /\ All("field", MetaField)
  BY DEF MetaTable, MetaField
<1>3. All("relation", MetaRelation)
  BY DEF MetaRelation
<1>4. All("unique", CompositeUnique) /\ All("form", MetaForm)
  BY DEF CompositeUnique, MetaForm
<1>5. All("item", MetaFormField)
  BY DEF MetaFormField
<1>6. All("menu", MetaMenu)
  BY DEF MetaMenu
<1>7. All("view", SavedView) /\ All("permission", MetaPermission)
  BY DEF SavedView, MetaPermission
<1>8. All("fieldperm", MetaFieldPermission) /\ All("company", Company) /\ All("user", AppUser)
  BY DEF MetaFieldPermission, Company, AppUser
<1>9. All("workflow", Workflow) /\ All("step", ApprovalStep)
  BY DEF Workflow, ApprovalStep
<1>10. All("trigger", TriggerRule)
  BY DEF TriggerRule
<1>11. All("sla", SlaPolicy)
  BY DEF SlaPolicy
<1>12. All("feed", Feed) /\ All("webhook", Webhook)
  BY DEF Feed, Webhook
<1>13. All("pull", PullSource)
  <2>1. PullSource.target_table_id = Key("table") /\ PullSource.connection_id = Loose("connection")
        /\ PullSource.user_id = Id("user") /\ DOMAIN PullSource = {"target_table_id", "connection_id", "user_id"}
    BY DEF PullSource
  <2>2. Listed("pull", "target_table_id", Key("table"))
    OBVIOUS
  <2>3. Listed("pull", "connection_id", Loose("connection"))
    BY DEF Loose
  <2>4. Listed("pull", "user_id", Id("user"))
    OBVIOUS
  <2> HIDE DEF Listed
  <2> QED BY <2>1, <2>2, <2>3, <2>4
<1>14. All("report", ReportDef) /\ All("widget", DashboardWidget)
  BY DEF ReportDef, DashboardWidget
<1>15. All("mailbox", Mailbox) /\ All("recurring", RecurringRecord) /\ All("window", MaintenanceWindow)
  BY DEF Mailbox, RecurringRecord, MaintenanceWindow
<1> HIDE DEF All, Listed, FallColumns, TableColumns, PartColumns, OwnFieldColumns, OtherFieldColumns,
             Id, Bare, Key, Parent, Loose
<1> SUFFICES All(class, Model[class])
  BY DEF All
<1> QED
  BY ClassesAre, ModelIs, <1>1, <1>2, <1>3, <1>4, <1>5, <1>6, <1>7, <1>8, <1>9, <1>10, <1>11, <1>12,
     <1>13, <1>14, <1>15

\* A row that names one of a set falls with it, or is one of these.
LEMMA ListedColumn ==
  ASSUME NEW c, CatOK(c), NEW k \in DOMAIN c, NEW m \in Columns(k)
  PROVE  /\ Listed(k[1], m, Column(k, m)) /\ k \in Keys
         /\ c[k][m] \in DOMAIN c => c[k][m][1] = Column(k, m).to
<1>1. k \in Keys /\ k[1] \in Classes /\ m \in DOMAIN Model[k[1]] /\ Column(k, m) = Model[k[1]][m]
  BY DEF CatOK, Typed, Keys, Columns, Column
<1>2. RowOK(c, k, c[k])
  BY TypedRows DEF CatOK
<1>3. None \notin DOMAIN c /\ Gone \notin DOMAIN c
  BY ForeignIs DEF CatOK, Typed
<1> QED BY <1>1, <1>2, <1>3, ListedAre DEF RowOK, Refers

\* What the page of a deletion is about: the fields of a table, a field of it, or
\* a relation that starts from it.
Subject(s) ==
    /\ \A f \in s.ids : f \in RowsIn(cat, "field") /\ cat[f].table_id = s.table
    /\ \A r \in s.rels : r \in TouchingRelations(s)
    /\ s.whole => /\ TouchingRelations(s) = {} /\ s.ids = FieldsOf(s.table)
                  /\ s.table \in RowsIn(cat, "table")

\* What falls with it, by class.
Parts == {"unique", "form", "trigger", "sla", "report"}
Targeted == {"webhook", "pull"}
FallenForms(s) == {x \in RowsIn(cat, "form") : s.whole /\ cat[x].table_id = s.table}
FallenWorkflows(s) ==
    {w \in RowsIn(cat, "workflow") : cat[w].table_id = s.table /\ (s.whole \/ cat[w].field_id \in s.ids)}
OnFallen(s, k) ==
    \/ k[1] = "item" /\ (cat[k].relation_id \in RelevantRelations(s) \/ cat[k].form_id \in FallenForms(s))
    \/ k[1] = "view" /\ cat[k].form_id \in FallenForms(s)
    \/ k[1] = "step" /\ cat[k].workflow_id \in FallenWorkflows(s)
OfWhole(s, k) ==
    /\ s.whole
    /\ \/ k = s.table
       \/ k[1] \in Parts /\ cat[k].table_id = s.table
       \/ k[1] \in Targeted /\ cat[k].target_table_id = s.table
       \/ k[1] = "feed" /\ cat[k].source_table_id = s.table
Fallen(s) ==
    {k \in DOMAIN cat : \/ k \in s.ids \cup RelevantRelations(s) \cup FallenWorkflows(s)
                        \/ OnFallen(s, k) \/ OfWhole(s, k)}

\* What a report names.
LEMMA DependenciesAre ==
  ASSUME NEW s
  PROVE  LET D == Dependencies(s) IN
         /\ AffectedForms(s) \subseteq D /\ Incoming(s) \subseteq D
         /\ RelevantRelations(s) \subseteq D \cup s.rels
         /\ LabelsAndConstraints(s) \subseteq D /\ Candidates(s) \subseteq D
         /\ \A p \in RowsIn(cat, "fieldperm") : cat[p].field_id \in s.ids => p \in D
         /\ \A p \in RowsIn(cat, "permission") : cat[p].form_id \in AffectedForms(s) => p \in D
         /\ \A p \in RowsIn(cat, "menu") :
              cat[p].target_form_id \in AffectedForms(s) \/ (s.whole /\ cat[p].target_table_id = s.table) => p \in D
         /\ FallenWorkflows(s) \subseteq D
<1>1. AffectedForms(s) \subseteq Dependencies(s) /\ Incoming(s) \subseteq Dependencies(s)
      /\ RelevantRelations(s) \subseteq Dependencies(s) \cup s.rels
  BY DEF Dependencies
<1>2. LabelsAndConstraints(s) \subseteq Dependencies(s) /\ Candidates(s) \subseteq Dependencies(s)
  BY DEF Dependencies
<1>3. /\ \A p \in RowsIn(cat, "fieldperm") : cat[p].field_id \in s.ids => p \in Dependencies(s)
      /\ \A p \in RowsIn(cat, "permission") : cat[p].form_id \in AffectedForms(s) => p \in Dependencies(s)
  BY DEF Dependencies, Rows
<1>4. \A p \in RowsIn(cat, "menu") :
        cat[p].target_form_id \in AffectedForms(s) \/ (s.whole /\ cat[p].target_table_id = s.table)
          => p \in Dependencies(s)
  BY DEF Dependencies, Rows
<1>5. FallenWorkflows(s) \subseteq Dependencies(s)
  BY DEF Dependencies, Rows, FallenWorkflows
<1> QED BY <1>1, <1>2, <1>3, <1>4, <1>5

\* An item that uses the subject is on a form that is named.
LEMMA UsedItem ==
  ASSUME CatOK(cat), Sane(cat), NEW s, NEW i \in RowsIn(cat, "item"), Uses(s, i)
  PROVE  Named(s, i)
<1>1. i \in DOMAIN cat /\ i[1] = "item"
  BY DEF RowsIn
<1>2. cat[i].form_id # None
  BY <1>1 DEF Sane, SaneRow
<1>3. RowOK(cat, i, cat[i])
  BY <1>1, TypedRows DEF CatOK
<1>4. cat[i].form_id \in RowsIn(cat, "form")
  BY <1>1, <1>2, <1>3, MoreColumns, KindsAre DEF RowOK, Refers, RowsIn
<1>5. cat[i].form_id \in AffectedForms(s)
  BY <1>4 DEF AffectedForms, Rows
<1>6. cat[i].form_id \in Dependencies(s)
  BY <1>5, DependenciesAre
<1> QED BY <1>1, <1>6 DEF Named

\* Rows that are listed for review.
LEMMA Reviewed ==
  ASSUME NEW s, s.whole \/ s.ids # {}, NEW k \in DOMAIN cat,
         \/ k[1] = "trigger" /\ s.table \in {cat[k].table_id, cat[k].create_table_id}
         \/ k[1] = "feed" /\ cat[k].source_table_id = s.table
         \/ k[1] \in {"webhook", "pull"} /\ cat[k].target_table_id = s.table
         \/ k[1] \in {"sla", "recurring", "report"} /\ cat[k].table_id = s.table
  PROVE  Named(s, k)
<1>1. k \in Candidates(s)
  BY DEF Candidates, Rows, RowsIn
<1>2. k \in Dependencies(s)
  BY <1>1, DependenciesAre
<1> QED BY <1>2 DEF Named

\* What falls is named.
LEMMA FallenNamed ==
  ASSUME CatOK(cat), Sane(cat), NEW s, NEW k \in Fallen(s)
  PROVE  Named(s, k)
<1>1. k \in DOMAIN cat
  BY DEF Fallen
<1>2. CASE k \in s.ids \cup RelevantRelations(s) \cup FallenWorkflows(s)
  <2>1. k \in Dependencies(s) \cup s.ids \cup s.rels
    BY <1>2, DependenciesAre
  <2> QED BY <2>1 DEF Named
<1>3. CASE OnFallen(s, k)
  <2>1. FallenForms(s) \subseteq Dependencies(s)
    <3>1. FallenForms(s) \subseteq AffectedForms(s)
      BY DEF FallenForms, AffectedForms, Rows
    <3> QED BY <3>1, DependenciesAre
  <2>2. CASE k[1] = "item" /\ cat[k].relation_id \in RelevantRelations(s)
    BY <1>1, <2>2, UsedItem DEF Uses, RowsIn
  <2>3. CASE k[1] \in {"item", "view"} /\ cat[k].form_id \in FallenForms(s)
    BY <2>1, <2>3 DEF Named
  <2>4. CASE k[1] = "step" /\ cat[k].workflow_id \in FallenWorkflows(s)
    <3>1. cat[k].workflow_id \in Dependencies(s)
      BY <2>4, DependenciesAre
    <3> QED BY <2>4, <3>1 DEF Named
  <2> QED BY <1>3, <2>2, <2>3, <2>4 DEF OnFallen
<1>4. CASE OfWhole(s, k)
  <2>1. s.whole
    BY <1>4 DEF OfWhole
  <2>2. CASE k = s.table
    BY <2>1, <2>2 DEF Named
  <2>3. CASE k[1] = "form" /\ cat[k].table_id = s.table
    <3>1. k \in AffectedForms(s)
      BY <1>1, <2>1, <2>3 DEF AffectedForms, Rows, RowsIn
    <3>2. k \in Dependencies(s)
      BY <3>1, DependenciesAre
    <3> QED BY <3>2 DEF Named
  <2>4. CASE k[1] = "unique" /\ cat[k].table_id = s.table
    <3>1. k \in LabelsAndConstraints(s)
      BY <1>1, <2>1, <2>4 DEF LabelsAndConstraints, Rows, RowsIn
    <3>2. k \in Dependencies(s)
      BY <3>1, DependenciesAre
    <3> QED BY <3>2 DEF Named
  <2>5. CASE k[1] \in {"trigger", "sla", "report"} /\ cat[k].table_id = s.table
    BY <1>1, <2>1, <2>5, Reviewed
  <2>6. CASE (k[1] \in Targeted /\ cat[k].target_table_id = s.table)
             \/ (k[1] = "feed" /\ cat[k].source_table_id = s.table)
    BY <1>1, <2>1, <2>6, Reviewed DEF Targeted
  <2> QED BY <1>4, <2>2, <2>3, <2>4, <2>5, <2>6 DEF OfWhole, Parts
<1> QED BY <1>2, <1>3, <1>4 DEF Fallen

\* What falls, by its class.
LEMMA FallenClasses ==
  ASSUME CatOK(cat), NEW s, Subject(s), NEW v \in Fallen(s)
  PROVE  /\ v[1] = "table" => s.whole /\ v = s.table
         /\ v[1] = "field" => v \in s.ids
         /\ v[1] = "relation" => v \in RelevantRelations(s)
         /\ v[1] = "form" => v \in FallenForms(s)
         /\ v[1] = "workflow" => v \in FallenWorkflows(s)
         /\ v[1] \notin {"menu", "user", "connection", "dashboard", "source", "role", "company"}
<1>1. v \in DOMAIN cat
  BY DEF Fallen
<1>2. CASE v \in s.ids \cup RelevantRelations(s) \cup FallenWorkflows(s)
  <2>1. v \in s.ids => v[1] = "field"
    BY DEF Subject, RowsIn
  <2>2. v \in RelevantRelations(s) => v[1] = "relation"
    BY DEF RelevantRelations, TouchingRelations, Rows, RowsIn
  <2>3. v \in FallenWorkflows(s) => v[1] = "workflow"
    BY DEF FallenWorkflows, RowsIn
  <2> QED BY <1>2, <2>1, <2>2, <2>3
<1>3. CASE OnFallen(s, v)
  BY <1>3 DEF OnFallen
<1>4. CASE OfWhole(s, v)
  <2>1. s.whole /\ s.table[1] = "table"
    BY <1>4 DEF OfWhole, Subject, RowsIn
  <2>2. v[1] = "form" /\ cat[v].table_id = s.table => v \in FallenForms(s)
    BY <1>1, <2>1 DEF FallenForms, RowsIn
  <2> QED BY <1>4, <2>1, <2>2 DEF OfWhole, Parts, Targeted
<1> QED BY <1>2, <1>3, <1>4 DEF Fallen

\* Nothing else falls with it.
LEMMA FallenClosed ==
  ASSUME CatOK(cat), Sane(cat), NEW s, Subject(s)
  PROVE  Closed(cat, Fallen(s))
<1>1. ASSUME NEW k \in DOMAIN cat, NEW m \in Columns(k), Column(k, m).on = "cascade", cat[k][m] \in Fallen(s)
      PROVE  k \in Fallen(s)
  <2> DEFINE v == cat[k][m]
  <2>1. v \in DOMAIN cat
    BY <1>1 DEF Fallen
  <2>2. v[1] = Column(k, m).to /\ <<k[1], m, Column(k, m).to>> \in FallColumns
    BY <1>1, <2>1, ListedColumn DEF Listed
  <2>3. /\ v[1] = "table" => s.whole /\ v = s.table
        /\ v[1] = "field" => v \in s.ids
        /\ v[1] = "form" => v \in FallenForms(s)
        /\ v[1] = "workflow" => v \in FallenWorkflows(s)
        /\ v[1] \notin {"menu", "user", "connection", "dashboard", "source", "role", "company"}
    BY <1>1, FallenClasses
  <2>4. SaneRow(cat, k, cat[k])
    BY DEF Sane
  <2>5. CASE v[1] = "table"
    <3>1. s.whole /\ cat[k][m] = s.table
      BY <2>3, <2>5
    <3>2. <<k[1], m>> \in
            {<<"field", "table_id">>, <<"unique", "table_id">>, <<"form", "table_id">>,
             <<"workflow", "table_id">>, <<"trigger", "table_id">>, <<"sla", "table_id">>,
             <<"feed", "source_table_id">>, <<"webhook", "target_table_id">>,
             <<"pull", "target_table_id">>, <<"report", "table_id">>}
      BY <2>2, <2>5 DEF FallColumns
    <3>3. CASE k[1] = "field" /\ m = "table_id"
      <4>1. k \in FieldsOf(s.table)
        BY <3>1, <3>3 DEF FieldsOf, FieldsIn, RowsIn
      <4> QED BY <3>1, <4>1 DEF Subject, Fallen
    <3>4. CASE k[1] = "workflow" /\ m = "table_id"
      BY <3>1, <3>4 DEF FallenWorkflows, RowsIn, Fallen
    <3>5. CASE OfWhole(s, k)
      BY <3>5 DEF Fallen
    <3> HIDE DEF v
    <3>6. k[1] \in Parts /\ m = "table_id" => OfWhole(s, k)
      BY <3>1 DEF OfWhole
    <3>7. k[1] \in Targeted /\ m = "target_table_id" => OfWhole(s, k)
      BY <3>1 DEF OfWhole
    <3>8. k[1] = "feed" /\ m = "source_table_id" => OfWhole(s, k)
      BY <3>1 DEF OfWhole
    <3> QED BY <3>2, <3>3, <3>4, <3>5, <3>6, <3>7, <3>8 DEF Parts, Targeted
  <2>6. CASE v[1] = "field"
    <3>1. k[1] = "workflow" /\ m = "field_id"
      BY <2>2, <2>6 DEF FallColumns
    <3>2. cat[k].field_id \in s.ids /\ cat[k].table_id = s.table
      BY <2>1, <2>3, <2>4, <2>6, <3>1 DEF SaneRow, FieldOf, Subject
    <3> QED BY <3>1, <3>2 DEF FallenWorkflows, RowsIn, Fallen
  <2>7. CASE v[1] = "form"
    <3>1. k[1] \in {"item", "view"} /\ m = "form_id"
      BY <2>2, <2>7 DEF FallColumns
    <3>2. OnFallen(s, k)
      BY <2>3, <2>7, <3>1 DEF OnFallen
    <3> QED BY <3>2 DEF Fallen
  <2>8. CASE v[1] = "workflow"
    <3>1. k[1] = "step" /\ m = "workflow_id"
      BY <2>2, <2>8 DEF FallColumns
    <3>2. OnFallen(s, k)
      BY <2>3, <2>8, <3>1 DEF OnFallen
    <3> QED BY <3>2 DEF Fallen
  <2>9. v[1] \in {"table", "field", "form", "workflow", "menu", "user", "connection", "dashboard"}
    BY <2>2 DEF FallColumns
  <2> HIDE DEF v
  <2> QED BY <2>3, <2>5, <2>6, <2>7, <2>8, <2>9
<1> QED BY <1>1 DEF Closed, Hangs

\* A row that names a field of the subject is named: it is of the same table.
LEMMA FieldSeen ==
  ASSUME CatOK(cat), Sane(cat), NEW s, Subject(s), NEW k \in DOMAIN cat, NEW m \in Columns(k),
         <<k[1], m>> \in OwnFieldColumns \cup OtherFieldColumns, cat[k][m] \in s.ids
  PROVE  Named(s, k)
<1>1. cat[k][m] \in DOMAIN cat /\ cat[cat[k][m]].table_id = s.table
  BY DEF Subject, RowsIn
<1>2. SaneRow(cat, k, cat[k])
  BY DEF Sane
<1>3. \A t : FieldOf(cat, cat[k][m], t) => t = s.table
  BY <1>1 DEF FieldOf
<1>4. \A x : k \in x /\ x \subseteq Dependencies(s) => Named(s, k)
  BY DEF Named
<1>5. CASE k[1] = "table" /\ m = "display_field_id"
  <2>1. k = s.table /\ cat[k].display_field_id \in s.ids
    BY <1>2, <1>3, <1>5 DEF SaneRow
  <2>2. k \in LabelsAndConstraints(s)
    BY <2>1 DEF LabelsAndConstraints
  <2> QED BY <1>4, <2>2, DependenciesAre
<1>6. CASE k[1] = "relation"
  <2>1. m \in {"from_field_id", "from_display_field_ids", "to_display_field_ids"}
    BY <1>6 DEF OwnFieldColumns, OtherFieldColumns
  <2>2. s.table \in {cat[k].from_table_id, cat[k].to_table_id}
    BY <1>2, <1>3, <1>6, <2>1 DEF SaneRow
  <2>3. k \in TouchingRelations(s)
    BY <1>6, <2>2 DEF TouchingRelations, Rows, RowsIn
  <2>4. CASE m = "from_field_id"
    <3>1. k \in RelevantRelations(s)
      BY <2>3, <2>4 DEF RelevantRelations
    <3>2. k \in Dependencies(s) \cup s.rels
      BY <3>1, DependenciesAre
    <3> QED BY <3>2 DEF Named
  <2>5. CASE m \in {"from_display_field_ids", "to_display_field_ids"}
    <3>1. k \in LabelsAndConstraints(s)
      BY <2>3, <2>5 DEF LabelsAndConstraints
    <3> QED BY <1>4, <3>1, DependenciesAre
  <2> QED BY <2>1, <2>4, <2>5
<1>7. CASE k[1] = "unique"
  <2>1. m = "field_ids"
    BY <1>7 DEF OwnFieldColumns, OtherFieldColumns
  <2>2. cat[k].table_id = s.table
    BY <1>2, <1>3, <1>7, <2>1 DEF SaneRow
  <2>3. k \in LabelsAndConstraints(s)
    BY <1>7, <2>1, <2>2 DEF LabelsAndConstraints, Rows, RowsIn
  <2> QED BY <1>4, <2>3, DependenciesAre
<1>8. CASE k[1] = "trigger"
  <2>1. m \in {"field_id", "cond_field_id", "set_field_id"}
    BY <1>8 DEF OwnFieldColumns, OtherFieldColumns
  <2>2. cat[k].table_id = s.table
    BY <1>2, <1>3, <1>8, <2>1 DEF SaneRow
  <2> QED BY <1>8, <2>2, Reviewed
<1>9. CASE k[1] = "sla"
  <2>1. m \in {"status_field_id", "cond_field_id", "state_field_id", "due_field_id", "breach_set_field_id"}
    BY <1>9 DEF OwnFieldColumns, OtherFieldColumns
  <2>2. cat[k].table_id = s.table
    BY <1>2, <1>3, <1>9, <2>1 DEF SaneRow
  <2> QED BY <1>9, <2>2, Reviewed
<1>10. CASE k[1] = "feed"
  <2>1. m \in {"field_id", "cond_field_id"}
    BY <1>10 DEF OwnFieldColumns, OtherFieldColumns
  <2>2. cat[k].source_table_id = s.table
    BY <1>2, <1>3, <1>10, <2>1 DEF SaneRow
  <2> QED BY <1>10, <2>2, Reviewed
<1>11. CASE k[1] = "item"
  <2>1. m \in {"field_id", "parent_field_id", "filter_field_id"}
    BY <1>11 DEF OwnFieldColumns, OtherFieldColumns
  <2>2. Uses(s, k)
    BY <2>1 DEF Uses
  <2> QED BY <1>11, <2>2, UsedItem DEF RowsIn
<1>12. CASE k[1] = "fieldperm"
  <2>1. m = "field_id"
    BY <1>12 DEF OwnFieldColumns, OtherFieldColumns
  <2>2. k \in Dependencies(s)
    BY <1>12, <2>1, DependenciesAre DEF RowsIn
  <2> QED BY <2>2 DEF Named
<1>13. \/ k[1] = "table" /\ m = "display_field_id"
       \/ k[1] \in {"relation", "unique", "trigger", "sla", "feed", "item", "fieldperm"}
  BY DEF OwnFieldColumns, OtherFieldColumns
<1> QED BY <1>5, <1>6, <1>7, <1>8, <1>9, <1>10, <1>11, <1>12, <1>13

\* Whoever refers to what falls is named.
LEMMA FallenSeen ==
  ASSUME CatOK(cat), Sane(cat), NEW s, Subject(s), NEW k \in DOMAIN cat, NEW m \in Columns(k),
         cat[k][m] \in Fallen(s)
  PROVE  Named(s, k)
<1> DEFINE v == cat[k][m]
<1>1. v \in DOMAIN cat
  BY DEF Fallen
<1>2. v[1] = Column(k, m).to /\ Listed(k[1], m, Column(k, m))
  BY <1>1, ListedColumn
<1>3. /\ v[1] = "table" => s.whole /\ v = s.table
      /\ v[1] = "field" => v \in s.ids
      /\ v[1] = "relation" => v \in RelevantRelations(s)
      /\ v[1] = "form" => v \in FallenForms(s)
  BY FallenClasses
<1>4. \A x : k \in x /\ x \subseteq Dependencies(s) => Named(s, k)
  BY DEF Named
<1>5. CASE Column(k, m).on = "cascade"
  <2>1. k \in Fallen(s)
    BY <1>5, FallenClosed DEF Closed, Hangs
  <2> QED BY <2>1, FallenNamed
<1> DEFINE loose == Column(k, m).on # "cascade"
<1>6. CASE loose /\ v[1] = "table"
  <2>1. s.whole /\ cat[k][m] = s.table /\ <<k[1], m>> \in TableColumns
    BY <1>2, <1>3, <1>6 DEF Listed
  <2> HIDE DEF v
  <2>2. CASE k[1] = "field"
    <3>1. m = "related_table_id"
      BY <2>1, <2>2 DEF TableColumns
    <3>2. k \in Incoming(s)
      BY <2>1, <2>2, <3>1 DEF Incoming, Rows, RowsIn
    <3> QED BY <1>4, <3>2, DependenciesAre
  <2>3. k[1] # "relation"
    <3>1. SUFFICES ASSUME k[1] = "relation" PROVE FALSE
      OBVIOUS
    <3>2. m \in {"from_table_id", "to_table_id"}
      BY <2>1, <3>1 DEF TableColumns
    <3>3. k \in TouchingRelations(s)
      BY <2>1, <3>1, <3>2 DEF TouchingRelations, Rows, RowsIn
    <3> QED BY <2>1, <3>3 DEF Subject
  <2>4. CASE k[1] = "menu"
    <3>1. m = "target_table_id"
      BY <2>1, <2>4 DEF TableColumns
    <3>2. k \in Dependencies(s)
      BY <2>1, <2>4, <3>1, DependenciesAre DEF RowsIn
    <3> QED BY <3>2 DEF Named
  <2>5. CASE k[1] = "trigger"
    <3>1. m = "create_table_id"
      BY <2>1, <2>5 DEF TableColumns
    <3> QED BY <2>1, <2>5, <3>1, Reviewed
  <2>6. CASE k[1] = "recurring"
    <3>1. m = "table_id"
      BY <2>1, <2>6 DEF TableColumns
    <3> QED BY <2>1, <2>6, <3>1, Reviewed
  <2>7. CASE k[1] \in {"widget", "window"}
    BY <2>7 DEF Named
  <2>8. k[1] \in {"field", "relation", "menu", "trigger", "recurring", "widget", "window"}
    BY <2>1 DEF TableColumns
  <2> QED BY <2>2, <2>3, <2>4, <2>5, <2>6, <2>7, <2>8
<1>7. CASE loose /\ v[1] = "form"
  <2>1. /\ <<k[1], m>> \in {<<"menu", "target_form_id">>, <<"permission", "form_id">>,
                            <<"mailbox", "create_form_id">>}
        /\ cat[k][m] \in FallenForms(s)
    BY <1>2, <1>3, <1>7 DEF Listed, PartColumns
  <2>2. cat[k][m] \in AffectedForms(s)
    BY <2>1 DEF FallenForms, AffectedForms, Rows
  <2> HIDE DEF v, loose
  <2>3. CASE k[1] = "menu" /\ m = "target_form_id"
    <3>1. k \in Dependencies(s)
      BY <2>2, <2>3, DependenciesAre DEF RowsIn
    <3> QED BY <3>1 DEF Named
  <2>4. CASE k[1] = "permission" /\ m = "form_id"
    <3>1. k \in Dependencies(s)
      BY <2>2, <2>4, DependenciesAre DEF RowsIn
    <3> QED BY <3>1 DEF Named
  <2>5. CASE k[1] = "mailbox"
    BY <2>5 DEF Named
  <2> QED BY <2>1, <2>3, <2>4, <2>5
<1>8. CASE loose /\ v[1] = "relation"
  <2>1. k[1] = "item" /\ m = "relation_id" /\ cat[k][m] \in RelevantRelations(s)
    BY <1>2, <1>3, <1>8 DEF Listed, PartColumns
  <2> QED BY <2>1, UsedItem DEF Uses, RowsIn
<1>9. CASE loose /\ v[1] = "field"
  <2>1. cat[k][m] \in s.ids /\ <<k[1], m>> \in OwnFieldColumns \cup OtherFieldColumns
    BY <1>2, <1>3, <1>9 DEF Listed
  <2> QED BY <2>1, FieldSeen
<1>10. CASE loose /\ v[1] = "workflow"
  BY <1>2, <1>10 DEF Listed
<1>11. v[1] \in {"table", "field", "form", "relation", "workflow"}
  <2>1. v[1] \in {"source", "table", "field", "relation", "form", "menu", "dashboard", "workflow",
                 "connection", "company", "user", "role"}
    BY <1>2, ListedColumn, ColumnTarget DEF Pointed
  <2>2. v[1] \notin {"menu", "user", "connection", "dashboard", "source", "role", "company"}
    BY FallenClasses
  <2> HIDE DEF v
  <2> QED BY <2>1, <2>2
<1> QED BY <1>5, <1>6, <1>7, <1>8, <1>9, <1>10, <1>11

\* What a deletion changes falls with it, or refers to what falls.
LEMMA AlteredIs ==
  ASSUME CatOK(cat), NEW S, NEW X, S \subseteq X, Closed(cat, X), NEW k \in Altered(Without(cat, S))
  PROVE  k \in DOMAIN cat /\ (k \in X \/ \E m \in Columns(k) : cat[k][m] \in X)
<1> DEFINE F == Cascaded(cat, S)
           d == Without(cat, S)
<1>1. F \subseteq X
  <2>1. IsFiniteSet(DOMAIN cat)
    BY DEF CatOK
  <2>2. \A Y : S \subseteq Y /\ Closed(cat, Y) => F \subseteq Y
    BY ONLY <2>1, CascadedIs DEF F
  <2> QED BY <2>2
<1>2. /\ DOMAIN d = DOMAIN cat \ F
      /\ \A x \in DOMAIN d : \A m \in Columns(x) :
           /\ Column(x, m).on = "cascade" => d[x][m] = cat[x][m]
           /\ cat[x][m] \notin F => d[x][m] = cat[x][m]
           /\ d[x][m] \in {cat[x][m], None, Gone}
  BY WithoutIs
<1>3. \A x \in DOMAIN d : \A m \in Columns(x) : cat[x][m] \notin F => d[x][m] = cat[x][m]
  <2> HIDE DEF d, F
  <2> QED BY <1>2
<1>4. k \in DOMAIN cat /\ (k \notin DOMAIN d \/ \E m \in Columns(k) : d[k][m] # cat[k][m])
  BY DEF Altered
<1> HIDE DEF F, d
<1>5. CASE k \notin DOMAIN d
  BY <1>1, <1>2, <1>4, <1>5
<1>6. CASE k \in DOMAIN d
  <2>1. PICK m \in Columns(k) : d[k][m] # cat[k][m]
    BY <1>4, <1>6
  <2>2. cat[k][m] \in F
    BY <1>3, <1>6, <2>1
  <2> QED BY <1>1, <1>4, <2>2
<1> QED BY <1>5, <1>6

\* All that a deletion changes is named.
LEMMA SubjectCovered ==
  ASSUME CatOK(cat), Sane(cat), NEW s, Subject(s), NEW S, S \subseteq Fallen(s)
  PROVE  \A k \in Altered(Without(cat, S)) : Named(s, k)
<1>1. ASSUME NEW k \in Altered(Without(cat, S)) PROVE Named(s, k)
  <2>1. k \in DOMAIN cat /\ (k \in Fallen(s) \/ \E m \in Columns(k) : cat[k][m] \in Fallen(s))
    BY AlteredIs, FallenClosed
  <2> QED BY <2>1, FallenNamed, FallenSeen
<1> QED BY <1>1

\* The page of a deletion names all that it changes.
LEMMA SaneImpact ==
  ASSUME CatOK(cat), Sane(cat)
  PROVE  ImpactCovers
<1>1. ASSUME NEW t \in Rows("table"), TouchingRelations(OfTable(t)) = {},
             NEW k \in Altered(Without(cat, {t}))
      PROVE  Named(OfTable(t), k)
  <2> DEFINE s == OfTable(t)
  <2>1. s.table = t /\ s.ids = FieldsOf(t) /\ s.rels = {} /\ s.whole
    BY DEF OfTable
  <2>2. TouchingRelations(s) = {}
    BY <1>1
  <2> HIDE DEF s
  <2>3. Subject(s)
    BY <2>1, <2>2 DEF Subject, FieldsOf, FieldsIn, Rows
  <2>4. {t} \subseteq Fallen(s)
    BY <2>1 DEF Fallen, OfWhole, Rows, RowsIn
  <2>5. Named(s, k)
    BY <1>1, <2>3, <2>4, SubjectCovered
  <2> QED BY <2>5 DEF s
<1>2. ASSUME NEW f \in Rows("field"), NEW k \in Altered(Without(cat, {f} \cup RelationOf(f)))
      PROVE  Named(OfField(f), k)
  <2> DEFINE s == OfField(f)
  <2>1. s.table = cat[f].table_id /\ s.ids = {f} /\ s.rels = {} /\ ~ s.whole
    BY DEF OfField
  <2> HIDE DEF s
  <2>2. Subject(s)
    BY <2>1 DEF Subject, Rows
  <2>3. ASSUME NEW r \in RelationOf(f) PROVE r \in RelevantRelations(s)
    <3>1. r \in DOMAIN cat /\ r[1] = "relation" /\ cat[r].from_field_id = f
      BY DEF RelationOf, Rows, RowsIn
    <3>2. cat[f].table_id = cat[r].from_table_id
      BY <3>1 DEF Sane, SaneRow, FieldOf, Rows, RowsIn
    <3> QED BY <2>1, <3>1, <3>2 DEF RelevantRelations, TouchingRelations, Rows, RowsIn
  <2>4. {f} \cup RelationOf(f) \subseteq Fallen(s)
    BY <2>1, <2>3 DEF Fallen, RelationOf, Rows, RowsIn
  <2>5. Named(s, k)
    BY <1>2, <2>2, <2>4, SubjectCovered
  <2> QED BY <2>5 DEF s
<1>3. ASSUME NEW r \in Rows("relation"),
             NEW k \in Altered(Without(cat, {r} \cup FieldOfRelation(cat, r)
                                           \cup {i \in Rows("item") : cat[i].relation_id = r}))
      PROVE  Named(OfRelation(r), k)
  <2> DEFINE s == OfRelation(r)
  <2>1. /\ s.table = cat[r].from_table_id /\ s.ids = {cat[r].from_field_id} \ {None, Gone}
        /\ s.rels = {r} /\ ~ s.whole
    BY DEF OfRelation
  <2> HIDE DEF s
  <2>2. r \in DOMAIN cat /\ r[1] = "relation" /\ SaneRow(cat, r, cat[r]) /\ RowOK(cat, r, cat[r])
    BY TypedRows DEF CatOK, Sane, Rows, RowsIn
  <2>3. ASSUME NEW f \in s.ids PROVE f \in RowsIn(cat, "field") /\ cat[f].table_id = s.table
    <3>1. f = cat[r].from_field_id /\ f \notin {None, Gone}
      BY <2>1
    <3>2. f \in DOMAIN cat /\ f[1] = "field"
      BY <2>2, <3>1, CoreColumns, KindsAre DEF RowOK, Refers
    <3> QED BY <2>1, <2>2, <3>1, <3>2 DEF SaneRow, FieldOf, RowsIn
  <2>4. r \in TouchingRelations(s)
    BY <2>1 DEF TouchingRelations
  <2>5. r \in RelevantRelations(s)
    BY <2>1, <2>4 DEF RelevantRelations
  <2>6. Subject(s)
    BY <2>1, <2>3, <2>4 DEF Subject
  <2>7. FieldOfRelation(cat, r) \subseteq s.ids
    BY <2>1, ForeignIs DEF FieldOfRelation, RowsIn, CatOK, Typed
  <2>8. \A f \in FieldOfRelation(cat, r) : f \in Fallen(s)
    BY <2>7 DEF Fallen, FieldOfRelation, RowsIn
  <2>9. r \in Fallen(s)
    BY <2>2, <2>5 DEF Fallen
  <2>10. \A i \in Rows("item") : cat[i].relation_id = r => i \in Fallen(s)
    BY <2>5 DEF Fallen, OnFallen, Rows, RowsIn
  <2>11. Named(s, k)
    <3> DEFINE S == {r} \cup FieldOfRelation(cat, r) \cup {i \in Rows("item") : cat[i].relation_id = r}
    <3>1. S \subseteq Fallen(s)
      BY <2>8, <2>9, <2>10
    <3>2. k \in Altered(Without(cat, S))
      OBVIOUS
    <3> HIDE DEF S
    <3> QED BY <2>6, <3>1, <3>2, SubjectCovered
  <2> QED BY <2>11 DEF s
<1> QED BY <1>1, <1>2, <1>3 DEF ImpactCovers

\* An item that names what is no more makes its form a broken one.
LEMMA SaneForms ==
  ASSUME CatOK(cat), Sane(cat)
  PROVE  BrokenFormsReported
<1>1. ASSUME NEW form \in Rows("form"), NEW i \in OnForm(form),
             ~ (/\ Gone \notin {cat[i].field_id, cat[i].relation_id, cat[i].parent_field_id}
                /\ cat[i].filter_field_id = Gone => cat[i].parent_field_id = None)
      PROVE  Issue(form, i)
  <2> DEFINE fields == FieldsOf(cat[form].table_id)
             f == cat[i].field_id
             parent == cat[i].parent_field_id
             filter == cat[i].filter_field_id
  <2>1. i \in DOMAIN cat /\ i[1] = "item"
    BY DEF OnForm, Rows, RowsIn
  <2>2. cat[i].relation_id # Gone /\ (f = None => parent = None /\ filter = None)
    BY <2>1 DEF Sane, SaneRow
  <2>3. Gone \notin fields /\ None # Gone
    BY ForeignIs DEF CatOK, Typed, FieldsOf, FieldsIn, RowsIn
  <2>4. \A x : Gone \notin Matches(f, x)
    BY ForeignIs DEF CatOK, Typed, Matches, FieldsOf, FieldsIn, RowsIn
  <2>5. f = Gone \/ parent = Gone \/ (filter = Gone /\ parent # None)
    BY <1>1, <2>2
  <2>6. CASE f \notin fields
    <3>1. f # None
      BY <2>2, <2>3, <2>5
    <3> QED BY <2>6, <3>1 DEF Issue
  <2>7. CASE f \in fields
    <3>1. parent # None /\ (parent = Gone \/ filter = Gone)
      BY <2>3, <2>5, <2>7
    <3>2. BadParent(form, i)
      BY <2>3, <2>4, <3>1 DEF BadParent
    <3> QED BY <2>7, <3>2 DEF Issue
  <2> QED BY <2>6, <2>7
<1> QED BY <1>1 DEF BrokenFormsReported

\* Both reports are complete.
LEMMA SaneReports ==
  ASSUME CatOK(cat), Sane(cat)
  PROVE  ReportsComplete
  BY SaneImpact, SaneForms DEF ReportsComplete

-----------------------------------------------------------------------------
(* An export of a sound catalogue reads back.                                 *)

\* An export holds the rows of its classes as they are.
LEMMA ExportRows ==
  ASSUME NEW c
  PROVE  /\ DOMAIN export_schema(c) = {k \in DOMAIN c : k[1] \in ExportedClasses}
         /\ \A k \in DOMAIN export_schema(c) : export_schema(c)[k] = c[k]
  BY DEF export_schema

\* What a file holds of tables, fields and relations is what the catalogue does.
LEMMA ExportCore ==
  ASSUME NEW c, NEW k \in DOMAIN c, k[1] \in {"table", "field", "relation"}
  PROVE  k \in DOMAIN export_schema(c) /\ export_schema(c)[k] = c[k]
<1>1. k[1] \in ExportedClasses
  BY DEF ExportedClasses
<1> QED BY <1>1, ExportRows

\* An export can be read: the tables of its relations are in it.
LEMMA SaneExport ==
  ASSUME CatOK(cat), Sane(cat)
  PROVE  ExportLoads
<1> DEFINE file == export_schema(cat)
<1>1. /\ DOMAIN file \subseteq DOMAIN cat /\ \A k \in DOMAIN file : file[k] = cat[k]
  BY ExportRows
<1>2. \A k \in DOMAIN cat : k[1] \in {"table", "field", "relation"} => k \in DOMAIN file /\ file[k] = cat[k]
  BY ExportCore
<1> HIDE DEF file
<1>3. ASSUME NEW r \in MappedRelations(file)
      PROVE  /\ {file[r].from_table_id, file[r].to_table_id} \subseteq DOMAIN file
             /\ \A f \in FieldOfRelation(file, r) : file[f].related_table_id \in DOMAIN file
  <2>1. r \in DOMAIN file /\ r[1] = "relation" /\ r \in DOMAIN cat /\ file[r] = cat[r]
    BY <1>1 DEF MappedRelations, RowsIn
  <2>2. RowOK(cat, r, cat[r]) /\ SaneRow(cat, r, cat[r])
    BY <2>1, TypedRows DEF CatOK, Sane
  <2>3. \A t \in {cat[r].from_table_id, cat[r].to_table_id} : t \in DOMAIN cat /\ t[1] = "table"
    <3>1. /\ Refers(cat, r, "from_table_id", cat[r].from_table_id) /\ Column(r, "from_table_id").to = "table"
          /\ Refers(cat, r, "to_table_id", cat[r].to_table_id) /\ Column(r, "to_table_id").to = "table"
      BY <2>1, <2>2, CoreColumns, KindsAre DEF RowOK
    <3>2. {cat[r].from_table_id, cat[r].to_table_id} \cap {None, Gone} = {}
      BY <2>1, <2>2 DEF SaneRow
    <3> QED BY <3>1, <3>2 DEF Refers
  <2>4. \A t \in {cat[r].from_table_id, cat[r].to_table_id} : t \in DOMAIN file
    BY <1>2, <2>3
  <2>5. ASSUME NEW f \in FieldOfRelation(file, r) PROVE file[f].related_table_id \in DOMAIN file
    <3>1. f = cat[r].from_field_id /\ f \in DOMAIN cat /\ file[f] = cat[f]
      BY <1>1, <2>1 DEF FieldOfRelation, RowsIn
    <3>2. cat[f].related_table_id = cat[r].to_table_id
      BY <2>1, <2>2, <3>1 DEF SaneRow
    <3> QED BY <2>4, <3>1, <3>2
  <2> QED BY <2>1, <2>4, <2>5
<1>4. Loads(file)
  BY <1>3 DEF Loads
<1> QED BY <1>4 DEF ExportLoads, file

\* No row that is exported names a company.
LEMMA NoCompanies ==
  ASSUME NEW class \in ExportedClasses
  PROVE  \A m \in DOMAIN Model[class] : Model[class][m].to # "company"
<1> DEFINE All(columns) == \A m \in DOMAIN columns : columns[m].to # "company"
<1> USE DEF Id, Bare, Key, Parent, Loose
<1>1. All(DataSource) /\ All(MetaTable) /\ All(MetaField)
  BY DEF DataSource, MetaTable, MetaField
<1>2. All(MetaRelation) /\ All(CompositeUnique)
  BY DEF MetaRelation, CompositeUnique
<1>3. All(MetaForm) /\ All(MetaFormField)
  BY DEF MetaForm, MetaFormField
<1>4. All(MetaMenu) /\ All(Role)
  BY DEF MetaMenu, Role
<1>5. All(MetaPermission) /\ All(MetaFieldPermission)
  BY DEF MetaPermission, MetaFieldPermission
<1>6. All(Workflow) /\ All(ApprovalStep)
  BY DEF Workflow, ApprovalStep
<1>7. All(TriggerRule) /\ All(SlaPolicy)
  BY DEF TriggerRule, SlaPolicy
<1>8. All(Connection) /\ All(Feed)
  BY DEF Connection, Feed
<1>9. All(Webhook) /\ All(PullSource)
  <2>1. All(Webhook)
    BY DEF Webhook
  <2>2. PullSource.target_table_id = Key("table") /\ PullSource.connection_id = Loose("connection")
        /\ PullSource.user_id = Id("user") /\ DOMAIN PullSource = {"target_table_id", "connection_id", "user_id"}
    BY DEF PullSource
  <2>3. Key("table").to # "company" /\ Loose("connection").to # "company" /\ Id("user").to # "company"
    BY DEF Key, Loose, Id
  <2>4. All(PullSource)
    <3> HIDE DEF Id, Bare, Key, Parent, Loose
    <3> QED BY <2>2, <2>3
  <2> QED BY <2>1, <2>4
<1>10. All(Dashboard) /\ All(DashboardWidget)
  BY DEF Dashboard, DashboardWidget
<1> HIDE DEF All, Id, Bare, Key, Parent, Loose
<1> SUFFICES All(Model[class])
  BY DEF All
<1>11. class \in ExportedClasses
  OBVIOUS
<1> QED
  BY ModelIs, <1>1, <1>2, <1>3, <1>4, <1>5, <1>6, <1>7, <1>8, <1>9, <1>10, <1>11 DEF ExportedClasses

\* Tables, fields and relations of a file are read first, and then what names them.
FirstRead(c) == AsTheyAre(c) \cup MappedFields(c) \cup MappedRelations(c)
ReadsOf(c) ==
    {k \in DOMAIN c \ FirstRead(c) :
       /\ k[1] \notin {"field", "relation", "step"}
       /\ \A m \in Needed(k[1]) : c[k][m] \in FirstRead(c) \cup {None}}

\* Rows are read when what they need is.
LEMMA MappedMore ==
  ASSUME NEW c
  PROVE  /\ FirstRead(c) \subseteq Mapped(c)
         /\ \A k \in DOMAIN c :
              k[1] \notin {"field", "relation", "step"}
                /\ (\A m \in Needed(k[1]) : c[k][m] \in FirstRead(c) \cup {None})
                => k \in Mapped(c)
         /\ \A k \in RowsIn(c, "step") :
              c[k].workflow_id \in RowsIn(c, "workflow")
                /\ c[c[k].workflow_id].field_id \in FirstRead(c) \cup {None}
                => k \in Mapped(c)
<1>1. /\ FirstRead(c) \subseteq Mapped(c) /\ ReadsOf(c) \subseteq Mapped(c)
      /\ \A k \in RowsIn(c, "step") : c[k].workflow_id \in ReadsOf(c) => k \in Mapped(c)
  BY DEF Mapped, FirstRead, ReadsOf
<1>2. \A w : w[1] = "workflow" => w \notin FirstRead(c)
  BY DEF FirstRead, AsTheyAre, MappedFields, MappedRelations, ScalarFields, FieldOfRelation, RowsIn
<1>3. ASSUME NEW k \in DOMAIN c, k[1] \notin {"field", "relation", "step"},
             \A m \in Needed(k[1]) : c[k][m] \in FirstRead(c) \cup {None}
      PROVE  k \in Mapped(c)
  <2>1. k \in FirstRead(c) \/ k \in ReadsOf(c)
    BY <1>3 DEF ReadsOf
  <2> QED BY <1>1, <2>1
<1>4. ASSUME NEW k \in RowsIn(c, "step"), c[k].workflow_id \in RowsIn(c, "workflow"),
             c[c[k].workflow_id].field_id \in FirstRead(c) \cup {None}
      PROVE  k \in Mapped(c)
  <2>1. Needed("workflow") = {"field_id"}
    BY DEF Needed
  <2>2. c[k].workflow_id \in ReadsOf(c)
    BY <1>2, <1>4, <2>1 DEF ReadsOf, RowsIn
  <2> QED BY <1>1, <2>2
<1> QED BY <1>1, <1>3, <1>4

\* A column of a row that the file holds: none, or a row that the file holds.
LEMMA ExportedValue ==
  ASSUME CatOK(cat), NEW k \in DOMAIN export_schema(cat), NEW m \in Columns(k), m \notin RawColumns,
         export_schema(cat)[k][m] # Gone
  PROVE  LET v == export_schema(cat)[k][m] IN
         \/ v = None
         \/ v \in DOMAIN export_schema(cat) /\ v[1] = Column(k, m).to
<1> DEFINE file == export_schema(cat)
           v == cat[k][m]
<1>1. k \in DOMAIN cat /\ k[1] \in ExportedClasses /\ file[k] = cat[k]
  BY ExportRows
<1>2. Refers(cat, k, m, v) /\ k \in Keys
  BY <1>1, TypedRows DEF CatOK, RowOK
<1>3. v = None \/ (v \in DOMAIN cat /\ v[1] = Column(k, m).to)
  BY <1>1, <1>2 DEF Refers
<1>4. Column(k, m).to \in ExportedClasses
  <2>1. Column(k, m).to # "company"
    BY <1>1, NoCompanies DEF Column, Columns
  <2>2. Column(k, m).to \in {"source", "table", "field", "relation", "form", "menu",
                             "dashboard", "workflow", "connection", "company"}
    BY <1>2, ColumnTarget DEF Pointed
  <2> QED BY <2>1, <2>2 DEF ExportedClasses
<1>5. v # None => v \in DOMAIN file
  BY <1>3, <1>4, ExportRows
<1> HIDE DEF file, v
<1>6. file[k][m] = v
  BY <1>1 DEF v
<1>7. \/ file[k][m] = None
      \/ file[k][m] \in DOMAIN file /\ file[k][m][1] = Column(k, m).to
  BY <1>3, <1>5, <1>6
<1> QED BY <1>7 DEF file

\* What others hold on to is read of an export, whatever else it holds.
LEMMA ExportedCore ==
  ASSUME CatOK(cat), Sane(cat), NEW k \in DOMAIN export_schema(cat),
         k[1] \notin {"item", "workflow", "step", "fieldperm", "permission", "unique"}
  PROVE  k \in FirstRead(export_schema(cat))
<1> DEFINE file == export_schema(cat)
<1>1. k \in DOMAIN cat /\ file[k] = cat[k] /\ SaneRow(cat, k, cat[k]) /\ RowOK(cat, k, cat[k])
  BY ExportRows, TypedRows DEF CatOK, Sane
<1>2. \A x \in DOMAIN cat : x[1] \in {"table", "field", "relation"} => x \in DOMAIN file /\ file[x] = cat[x]
  BY ExportCore
<1> HIDE DEF file
<1>3. CASE k[1] = "field"
  <2>1. k \in MappedFields(file)
    <3>1. CASE cat[k].related_table_id = None
      BY <1>1, <1>2, <1>3, <3>1 DEF MappedFields, ScalarFields, RowsIn
    <3>2. CASE cat[k].related_table_id # None
      <4>1. PICK r \in RowsIn(cat, "relation") : cat[r].from_field_id = k
        BY <1>1, <1>3, <3>2 DEF SaneRow
      <4>2. r \in RowsIn(file, "relation") /\ file[r].from_field_id = k /\ k \in RowsIn(file, "field")
        BY <1>1, <1>2, <1>3, <4>1 DEF RowsIn
      <4>3. k \in FieldOfRelation(file, r)
        BY <4>2 DEF FieldOfRelation
      <4> QED BY <4>2, <4>3 DEF MappedFields
    <3> QED BY <3>1, <3>2
  <2> QED BY <2>1 DEF FirstRead, file
<1>4. CASE k[1] = "relation"
  <2>1. cat[k].from_field_id = None \/ (cat[k].from_field_id \in DOMAIN cat /\ cat[k].from_field_id[1] = "field")
    <3>1. Refers(cat, k, "from_field_id", cat[k].from_field_id) /\ Column(k, "from_field_id").to = "field"
      BY <1>1, <1>4, CoreColumns, KindsAre DEF RowOK
    <3>2. cat[k].from_field_id # Gone
      BY <1>1, <1>4 DEF SaneRow
    <3> QED BY <3>1, <3>2 DEF Refers
  <2>2. k \in RowsIn(file, "relation") /\ file[k] = cat[k]
    BY <1>1, <1>2, <1>4 DEF RowsIn
  <2>3. cat[k].from_field_id # None => cat[k].from_field_id \in FieldOfRelation(file, k)
    BY <1>2, <2>1, <2>2 DEF FieldOfRelation, RowsIn
  <2>4. k \in MappedRelations(file)
    BY <2>2, <2>3 DEF MappedRelations
  <2> QED BY <2>4 DEF FirstRead, file
<1>5. CASE k[1] \notin {"field", "relation"}
  <2>1. k \in AsTheyAre(file)
    BY <1>5 DEF AsTheyAre, file
  <2> QED BY <2>1 DEF FirstRead, file
<1> QED BY <1>3, <1>4, <1>5

\* A column for a row that others hold on to.
LEMMA ExportedTarget ==
  ASSUME CatOK(cat), Sane(cat), NEW k \in DOMAIN export_schema(cat), NEW m \in Columns(k),
         Column(k, m).to \in {"field", "relation", "form"}, m \notin RawColumns,
         export_schema(cat)[k][m] # Gone
  PROVE  export_schema(cat)[k][m] \in FirstRead(export_schema(cat)) \cup {None}
<1> DEFINE v == export_schema(cat)[k][m]
<1>1. v = None \/ (v \in DOMAIN export_schema(cat) /\ v[1] = Column(k, m).to)
  BY ExportedValue
<1> HIDE DEF v
<1>2. v \in FirstRead(export_schema(cat)) \cup {None}
  BY <1>1, ExportedCore
<1> QED BY <1>2 DEF v

\* The columns that a row of a file needs.
LEMMA NeededColumns ==
  ASSUME NEW k, k[1] \in ExportedClasses, NEW m \in Needed(k[1])
  PROVE  m \in Columns(k) /\ m \notin RawColumns /\ Column(k, m).to \in {"field", "relation", "form"}
<1>1. \/ k[1] = "item" /\ m \in {"field_id", "relation_id"}
      \/ k[1] \in {"workflow", "fieldperm"} /\ m = "field_id"
      \/ k[1] = "permission" /\ m = "form_id"
      \/ k[1] = "unique" /\ m = "field_ids"
  BY DEF Needed
<1>2. m \notin RawColumns
  BY <1>1 DEF RawColumns
<1>3. k[1] = "item" => m \in Columns(k) /\ Column(k, m).to \in {"field", "relation", "form"}
  BY <1>1, MoreColumns, KindsAre
<1>4. k[1] \in {"workflow", "fieldperm"} => m \in Columns(k) /\ Column(k, m).to \in {"field", "relation", "form"}
  BY <1>1, MoreColumns, KindsAre
<1>5. k[1] = "permission" => m \in Columns(k) /\ Column(k, m).to \in {"field", "relation", "form"}
  BY <1>1, MoreColumns, KindsAre
<1>6. k[1] = "unique" => m \in Columns(k) /\ Column(k, m).to \in {"field", "relation", "form"}
  BY <1>1, CoreColumns, KindsAre
<1> QED BY <1>1, <1>2, <1>3, <1>4, <1>5, <1>6

\* A workflow is on a field that is there, and a step is of a workflow.
LEMMA ExportedWorkflow ==
  ASSUME CatOK(cat), Sane(cat), NEW w \in DOMAIN export_schema(cat), w[1] = "workflow"
  PROVE  export_schema(cat)[w].field_id \in FirstRead(export_schema(cat)) \cup {None}
<1>1. w \in DOMAIN cat /\ export_schema(cat)[w] = cat[w] /\ RowOK(cat, w, cat[w]) /\ w[1] \in ExportedClasses
  BY ExportRows, TypedRows DEF CatOK
<1>2. Needed("workflow") = {"field_id"}
  BY DEF Needed
<1>3. "field_id" \in Columns(w) /\ "field_id" \notin RawColumns /\ Column(w, "field_id").to \in {"field", "relation", "form"}
  BY <1>1, <1>2, NeededColumns
<1>4. cat[w].field_id # Gone
  <2>1. Column(w, "field_id").on # "nothing"
    BY MoreColumns, KindsAre
  <2>2. Refers(cat, w, "field_id", cat[w].field_id)
    BY <1>1, <1>3 DEF RowOK
  <2> QED BY <2>1, <2>2, ForeignIs DEF Refers, CatOK, Typed
<1>5. export_schema(cat)[w]["field_id"] # Gone
  BY <1>1, <1>4
<1> QED BY <1>3, <1>5, ExportedTarget

\* A row that is whole is read back.
LEMMA ExportedMapped ==
  ASSUME CatOK(cat), Sane(cat), NEW k \in DOMAIN export_schema(cat),
         Intact(export_schema(cat), k) \/ k[1] = "workflow"
  PROVE  k \in Mapped(export_schema(cat))
<1> DEFINE file == export_schema(cat)
<1>1. k \in DOMAIN cat /\ file[k] = cat[k] /\ SaneRow(cat, k, cat[k]) /\ RowOK(cat, k, cat[k]) /\ k[1] \in ExportedClasses
  BY ExportRows, TypedRows DEF CatOK, Sane
<1>2. DOMAIN file[k] = Columns(k)
  BY <1>1 DEF RowOK
<1>3. CASE k[1] \notin {"item", "workflow", "step", "fieldperm", "permission", "unique"}
  <2>1. k \in FirstRead(file)
    BY <1>3, ExportedCore
  <2> QED BY <2>1, MappedMore
<1>4. CASE k[1] \in {"item", "workflow", "fieldperm", "permission", "unique"}
  <2>1. ASSUME NEW m \in Needed(k[1]) PROVE file[k][m] \in FirstRead(file) \cup {None}
    <3>1. m \in Columns(k) /\ m \notin RawColumns /\ Column(k, m).to \in {"field", "relation", "form"}
      BY <1>1, NeededColumns
    <3>2. CASE k[1] = "workflow"
      <4>1. m = "field_id"
        BY <3>2 DEF Needed
      <4> QED BY <3>2, <4>1, ExportedWorkflow
    <3>3. CASE k[1] # "workflow"
      <4>1. file[k][m] # Gone
        BY <1>2, <3>1, <3>3 DEF Intact
      <4> QED BY <3>1, <4>1, ExportedTarget
    <3> QED BY <3>2, <3>3
  <2> HIDE DEF file
  <2>2. k[1] \notin {"field", "relation", "step"}
    BY <1>4
  <2>3. k \in Mapped(file)
    BY <2>1, <2>2, MappedMore DEF file
  <2> QED BY <2>3 DEF file
<1>5. CASE k[1] = "step"
  <2> DEFINE w == cat[k].workflow_id
  <2>1. "workflow_id" \in Columns(k) /\ Column(k, "workflow_id") = Key("workflow")
    BY <1>5, ModelIs DEF Columns, Column, ApprovalStep
  <2>2. w \in DOMAIN cat /\ w[1] = "workflow"
    <3>1. Refers(cat, k, "workflow_id", w)
      BY <1>1, <2>1 DEF RowOK
    <3>2. w # None
      BY <1>1, <1>5 DEF SaneRow
    <3> QED BY <2>1, <3>1, <3>2, KindsAre DEF Refers
  <2> HIDE DEF w
  <2>3. w \in DOMAIN file
    BY <2>2, ExportRows DEF ExportedClasses
  <2>4. file[w].field_id \in FirstRead(file) \cup {None}
    BY <2>2, <2>3, ExportedWorkflow
  <2>5. /\ file[k].workflow_id \in RowsIn(file, "workflow")
        /\ file[file[k].workflow_id].field_id \in FirstRead(file) \cup {None}
    <3> HIDE DEF file
    <3> QED BY <1>1, <2>2, <2>3, <2>4 DEF w, RowsIn
  <2>6. k \in RowsIn(file, "step")
    BY <1>5 DEF RowsIn
  <2> HIDE DEF file
  <2>7. k \in Mapped(file)
    BY <2>5, <2>6, MappedMore
  <2> QED BY <2>7 DEF file
<1> QED BY <1>3, <1>4, <1>5

\* What was whole comes back as it was.
LEMMA SaneRoundTrip ==
  ASSUME CatOK(cat), Sane(cat)
  PROVE  RoundTrip
<1> DEFINE file == export_schema(cat)
           back == import_schema(file)
<1>1. IsFile(file)
  BY ExportIs
<1>2. DOMAIN back = Mapped(file)
  BY DEF import_schema
<1>3. ASSUME NEW k \in DOMAIN file, Intact(file, k)
      PROVE  /\ k \in DOMAIN back
             /\ \A m \in DOMAIN file[k] : LabelledByKey(file, k, m) \/ back[k][m] = file[k][m]
  <2>1. k \in Mapped(file)
    BY <1>3, ExportedMapped
  <2>2. DOMAIN file[k] = Columns(k) /\ \A m \in DOMAIN file[k] : file[k][m] # Gone
    BY <1>1, <1>3 DEF IsFile, Intact
  <2>3. ASSUME NEW m \in Columns(k), m \notin Labels PROVE back[k][m] = file[k][m]
    <3>1. /\ m \in RawColumns => back[k][m] = file[k][m]
          /\ m \notin RawColumns => back[k][m] = Kept(file, file[k][m])
      BY <1>1, <2>1, <2>3, ReadRow
    <3>2. ASSUME m \notin RawColumns PROVE Kept(file, file[k][m]) = file[k][m]
      <4> DEFINE v == file[k][m]
      <4>1. v # Gone
        BY <2>2
      <4>2. v = None \/ (v \in DOMAIN file /\ v[1] = Column(k, m).to)
        BY <3>2, <4>1, ExportedValue
      <4>3. k \in Keys
        BY <1>1 DEF IsFile
      <4>4. Column(k, m).to \in {"source", "table", "field", "relation", "form", "menu",
                                 "dashboard", "workflow", "connection", "company"}
        BY <3>2, <4>3, ColumnTarget DEF Pointed
      <4> HIDE DEF v
      <4>5. v # None => v \in Mapped(file)
        <5>1. v # None /\ v[1] = "workflow" => v \in Mapped(file)
          BY <4>2, ExportedMapped
        <5>2. v # None /\ v[1] # "workflow" => v \in FirstRead(file)
          BY <4>2, <4>4, ExportedCore
        <5> QED BY <5>1, <5>2, MappedMore
      <4>6. Kept(file, v) = v
        BY <4>5 DEF Kept
      <4> QED BY <4>6 DEF v
    <3> HIDE DEF file, back
    <3> QED BY <3>1, <3>2
  <2>4. ASSUME NEW m \in Columns(k), m \in Labels, ~ LabelledByKey(file, k, m)
        PROVE  back[k][m] = file[k][m]
    <3> DEFINE v == file[k][m]
    <3>1. back[k][m] \in {None, v} /\ (back[k][m] # v => v \notin LabelFields(file, k))
      BY <1>1, <2>1, <2>4, ReadRow
    <3>2. m \notin RawColumns /\ v # Gone
      BY <2>2, <2>4 DEF RawColumns, Labels
    <3>3. v = None \/ (v \in DOMAIN file /\ v[1] = Column(k, m).to)
      BY <2>4, <3>2, ExportedValue
    <3>4. k \in Keys
      BY <1>1 DEF IsFile
    <3>5. Column(k, m).to = "field"
      BY <2>4, <3>4, ColumnTarget DEF Pointed, Labels
    <3> HIDE DEF file, back
    <3>6. v # None => v \in LabelFields(file, k)
      BY <2>4, <3>3, <3>5 DEF LabelledByKey, LabelFields, RowsIn
    <3> QED BY <3>1, <3>6
  <2> HIDE DEF file, back
  <2> QED BY <1>2, <2>1, <2>2, <2>3, <2>4
<1>4. \A k \in DOMAIN file : Intact(file, k) =>
        /\ k \in DOMAIN back
        /\ \A m \in DOMAIN file[k] : LabelledByKey(file, k, m) \/ back[k][m] = file[k][m]
  BY <1>3
<1> QED BY <1>4 DEF RoundTrip

-----------------------------------------------------------------------------
(* The theorems.                                                              *)

\* Designers add, rename, import and export side by side; while one has still to
\* delete rows nobody else is at work.  Whatever dies or is refused on the way, the
\* catalogue stays whole: no reference that the requests keep up dangles, and
\* companies are trees.
THEOREM CatalogueSoundHolds ==
  Spec /\ []DeletesAlone => []CatalogueSound
<1>1. SchemaInv /\ SaneInv => CatalogueSound
  BY SaneReferences, SaneTrees DEF SchemaInv, SaneInv, CatalogueSound
<1> QED BY <1>1, SchemaInvHolds, SaneInvHolds, PTL

\* The page of a deletion names all that it changes, and the health check finds
\* the forms it broke.
THEOREM ReportsCompleteHolds ==
  Spec /\ []DeletesAlone => []ReportsComplete
<1>1. SchemaInv /\ SaneInv => ReportsComplete
  BY SaneReports DEF SchemaInv, SaneInv
<1> QED BY <1>1, SchemaInvHolds, SaneInvHolds, PTL

\* An export can always be read back, and brings back all that was whole.
THEOREM ExportsFaithfulHolds ==
  Spec /\ []DeletesAlone => []ExportsFaithful
<1>1. SchemaInv /\ SaneInv => ExportsFaithful
  BY SaneExport, SaneRoundTrip DEF SchemaInv, SaneInv, ExportsFaithful
<1> QED BY <1>1, SchemaInvHolds, SaneInvHolds, PTL

==============================================================================
