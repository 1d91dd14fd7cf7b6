----------------------------- MODULE Inspection -----------------------------
(* Two read-only reports on the catalogue: what a deletion would touch        *)
(* (schema_impact) and what is wrong with a form (design_health).             *)
EXTENDS Catalogue

-----------------------------------------------------------------------------
(* schema_impact.dependencies.  A subject is a table, a field of it, or one   *)
(* of its relations (with its column's field when it has one).                *)
OfTable(t) == [table |-> t, ids |-> FieldsOf(t), rels |-> {}, whole |-> TRUE]
OfField(f) == [table |-> cat[f].table_id, ids |-> {f}, rels |-> {}, whole |-> FALSE]
OfRelation(r) == [table |-> cat[r].from_table_id, ids |-> {cat[r].from_field_id} \ {None, Gone},
                  rels |-> {r}, whole |-> FALSE]

TouchingRelations(s) ==
    {r \in Rows("relation") : s.table \in {cat[r].from_table_id, cat[r].to_table_id}}

RelevantRelations(s) ==
    {r \in TouchingRelations(s) : s.whole \/ cat[r].from_field_id \in s.ids \/ r \in s.rels}

Incoming(s) ==
    IF s.whole THEN {f \in Rows("field") : cat[f].related_table_id = s.table} ELSE {}

\* Mutant: a dropdown that is filtered through the field is not looked for.
UsesShown(s, i) ==
    \/ cat[i].field_id \in Incoming(s) \cup s.ids
    \/ cat[i].relation_id \in RelevantRelations(s)

Uses(s, i) ==
    \/ cat[i].field_id \in Incoming(s) \cup s.ids
    \/ {cat[i].parent_field_id, cat[i].filter_field_id} \cap s.ids # {}
    \/ cat[i].relation_id \in RelevantRelations(s)

AffectedForms(s) ==
    {form \in Rows("form") :
       \/ \E i \in Rows("item") : cat[i].form_id = form /\ Uses(s, i)
       \/ s.whole /\ cat[form].table_id = s.table}

LabelsAndConstraints(s) ==
    {t \in {s.table} : cat[t].display_field_id \in s.ids}
    \cup {r \in TouchingRelations(s) :
            {cat[r].from_display_field_ids, cat[r].to_display_field_ids} \cap s.ids # {}}
    \cup {u \in Rows("unique") : /\ cat[u].table_id = s.table
                                 /\ s.whole \/ cat[u].field_ids \in s.ids}

\* Listed for review whatever they say, as rows that are about the table.
Candidates(s) ==
    IF ~ s.whole /\ s.ids = {} THEN {}
    ELSE {k \in Rows("trigger") : s.table \in {cat[k].table_id, cat[k].create_table_id}}
         \cup {k \in Rows("feed") : cat[k].source_table_id = s.table}
         \cup {k \in Rows("webhook") \cup Rows("pull") : cat[k].target_table_id = s.table}
         \cup {k \in Rows("sla") \cup Rows("recurring") \cup Rows("report") :
                 cat[k].table_id = s.table}

Dependencies(s) ==
    LET forms == AffectedForms(s) IN
    forms \cup (RelevantRelations(s) \ s.rels) \cup Incoming(s)
    \cup LabelsAndConstraints(s)
    \cup {p \in Rows("fieldperm") : cat[p].field_id \in s.ids}
    \cup {p \in Rows("permission") : cat[p].form_id \in forms}
    \cup {k \in Rows("menu") : \/ cat[k].target_form_id \in forms
                               \/ s.whole /\ cat[k].target_table_id = s.table}
    \cup {w \in Rows("workflow") : /\ cat[w].table_id = s.table
                                   /\ s.whole \/ cat[w].field_id \in s.ids}
    \cup Candidates(s)

-----------------------------------------------------------------------------
(* design_health.check_form, as far as it is about references.                *)
OnForm(form) == {i \in Rows("item") : cat[i].form_id = form}

\* The fields through which a dropdown can be filtered by its parent.
Matches(f, parent) ==
    {x \in FieldsOf(cat[f].related_table_id) :
       cat[x].related_table_id # None /\ cat[x].related_table_id = cat[parent].related_table_id}

BadParent(form, i) ==
    LET f == cat[i].field_id
        parent == cat[i].parent_field_id
        fields == FieldsOf(cat[form].table_id) IN
    /\ parent # None
    /\ \/ parent \notin fields \cap {cat[x].field_id : x \in OnForm(form)}
       \/ parent \in fields /\ cat[parent].related_table_id = None
       \/ /\ parent \in fields
          /\ IF cat[i].filter_field_id # None
             THEN cat[i].filter_field_id \notin Matches(f, parent)
             ELSE Cardinality(Matches(f, parent)) # 1

Issue(form, i) ==
    LET f == cat[i].field_id
        r == cat[i].relation_id
        fields == FieldsOf(cat[form].table_id) IN
    \/ f # None /\ f \notin fields
    \/ r # None /\ (r \notin DOMAIN cat
                    \/ cat[form].table_id \notin {cat[r].from_table_id, cat[r].to_table_id})
    \/ f \in fields /\ BadParent(form, i)
    \/ f \in fields /\ cat[f].related_table_id \notin DOMAIN cat \cup {None}

=============================================================================
