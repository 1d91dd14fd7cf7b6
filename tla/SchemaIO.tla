------------------------------ MODULE SchemaIO ------------------------------
(* schema_io: the catalogue written to a file, and a file read back with      *)
(* every id replaced by the one the new row gets.  A row keeps its key here:  *)
(* the mapping from old to new ids is one to one, and what matters is which   *)
(* rows and references it has an entry for.                                   *)
EXTENDS Catalogue

ExportedClasses ==
    {"source", "table", "field", "relation", "form", "item", "menu", "permission",
     "workflow", "trigger", "sla", "step", "role", "fieldperm", "unique", "connection",
     "feed", "webhook", "pull", "dashboard", "widget"}

export_schema(c) == [k \in {k \in DOMAIN c : k[1] \in ExportedClasses} |-> c[k]]

\* A file holds rows of these classes; what a column names may be missing.
IsFile(c) ==
    /\ IsFiniteSet(DOMAIN c)
    /\ \A k \in DOMAIN c :
         /\ k \in Keys /\ k[1] \in ExportedClasses /\ DOMAIN c[k] = Columns(k)
         /\ \A m \in Columns(k) :
              \/ c[k][m] \in {None, Gone}
              \/ c[k][m] \in Keys /\ c[k][m][1] = Column(k, m).to

\* wipe_model deletes these; the roles stay, as what is not exported does.
Wiped(c) == {k \in DOMAIN c : k[1] \in ExportedClasses \ {"role"}}

\* Written to the file and read back as they are.
RawColumns == {"notify_user_id", "breach_notify_user_id", "approver_user_id", "user_id",
               "approver_role", "role"}

\* The fields that label a related record in a picker.
Labels == {"from_display_field_ids", "to_display_field_ids"}

-----------------------------------------------------------------------------
(* What import_schema makes of a file.                                        *)
ScalarFields(c) == {f \in RowsIn(c, "field") : c[f].related_table_id = None}

\* A column of a foreign key comes back with the relation it belongs to.
FieldOfRelation(c, r) == {c[r].from_field_id} \cap RowsIn(c, "field")

\* Mutant: the columns of the foreign keys have no entry in the map of fields.
MappedScalars(c) == ScalarFields(c)

MappedFields(c) == ScalarFields(c) \cup UNION {FieldOfRelation(c, r) : r \in RowsIn(c, "relation")}

MappedRelations(c) ==
    {r \in RowsIn(c, "relation") : c[r].from_field_id = None \/ FieldOfRelation(c, r) # {}}

\* A relation of a table that is not in the file is a KeyError: nothing is read.
Loads(c) ==
    \A r \in MappedRelations(c) :
        /\ {c[r].from_table_id, c[r].to_table_id} \subseteq DOMAIN c
        /\ \A f \in FieldOfRelation(c, r) : c[f].related_table_id \in DOMAIN c

\* A row is left out when one of these has no entry in its map.
Needed(class) ==
    CASE class = "item" -> {"field_id", "relation_id"}
      [] class \in {"workflow", "fieldperm"} -> {"field_id"}
      [] class = "permission" -> {"form_id"}
      [] class = "unique" -> {"field_ids"}
      [] OTHER -> {}

\* Rows that are read whatever else the file holds, and those of connections,
\* feeds, webhooks and pull sources, whose table is always there.
AsTheyAre(c) == {k \in DOMAIN c : k[1] \notin {"field", "relation", "item", "workflow", "step",
                                           "fieldperm", "permission", "unique"}}

Mapped(c) ==
    LET core == AsTheyAre(c) \cup MappedFields(c) \cup MappedRelations(c)
        more == {k \in DOMAIN c \ core :
                   /\ k[1] \notin {"field", "relation", "step"}
                   /\ \A m \in Needed(k[1]) : c[k][m] \in core \cup {None}} IN
    core \cup more \cup {k \in RowsIn(c, "step") : c[k].workflow_id \in more}

\* The labels of a relation are mapped as soon as it is read: a column that a
\* later relation brings has no entry yet.  Keys number the rows as ids do.
LabelFields(c, r) ==
    ScalarFields(c) \cup UNION {FieldOfRelation(c, x) : x \in {x \in RowsIn(c, "relation") :
                                                                 x[2] <= r[2]}}

import_schema(c) ==
    LET mapped == Mapped(c) IN
    [k \in mapped |->
       [m \in DOMAIN c[k] |->
          CASE m \in RawColumns -> c[k][m]
            [] m \in Labels /\ c[k][m] \notin LabelFields(c, k) -> None
            [] m \notin RawColumns \cup Labels /\ c[k][m] \notin mapped -> None
            [] OTHER -> c[k][m]]]

=============================================================================
