------------------------------ MODULE Catalogue ------------------------------
(* The catalogue: what a designer configures, kept in the app_* tables, and   *)
(* the requests that change one row of it.  A row is a function from its      *)
(* reference columns to the rows they name; what else it holds is left out.   *)
(* Only some columns are foreign keys of the database: the others are bare    *)
(* integers that nothing keeps up to date.                                    *)
(*                                                                            *)
(* Tables, fields and relations also have a physical side: module Schema adds *)
(* it, with the requests that change both.                                    *)
EXTENDS Integers, Sequences, FiniteSets, SequencesExt

CONSTANTS
    None,       \* SQL NULL
    Gone        \* an id that names no row any more: ids are not used again

VARIABLES
    topic,      \* what a behaviour is about, chosen once: the classes whose rows are
                \* changed, and two bounds: on the rows, and on the rows of a class
    cat         \* the rows

-----------------------------------------------------------------------------
(* The reference columns.                                                     *)
Key(c)    == [to |-> c, on |-> "cascade",  must |-> TRUE]
Parent(c) == [to |-> c, on |-> "cascade",  must |-> FALSE]
Loose(c)  == [to |-> c, on |-> "set null", must |-> FALSE]
Id(c)     == [to |-> c, on |-> "nothing",  must |-> FALSE]
Bare(c)   == [to |-> c, on |-> "nothing",  must |-> TRUE]

DataSource == [x \in {} |-> Id("source")]
MetaTable == [display_field_id |-> Id("field"), source_id |-> Id("source")]
MetaField == [table_id |-> Key("table"), related_table_id |-> Id("table")]
\* A many-to-one relation has its column's field; the display columns stand for
\* lists of fields.
MetaRelation == [from_table_id |-> Bare("table"), to_table_id |-> Bare("table"),
                 from_field_id |-> Id("field"), from_display_field_ids |-> Id("field"),
                 to_display_field_ids |-> Id("field")]
CompositeUnique == [table_id |-> Key("table"), field_ids |-> Id("field")]
MetaForm == [table_id |-> Key("table")]
MetaFormField == [form_id |-> Key("form"), field_id |-> Id("field"),
                  relation_id |-> Id("relation"), parent_field_id |-> Id("field"),
                  filter_field_id |-> Id("field")]
MetaMenu == [parent_id |-> Parent("menu"), target_form_id |-> Id("form"),
             target_table_id |-> Id("table"), target_dashboard_id |-> Id("dashboard")]
SavedView == [user_id |-> Key("user"), form_id |-> Key("form")]
\* Roles are referred to by name.
Role == [x \in {} |-> Id("role")]
MetaPermission == [role |-> Bare("role"), form_id |-> Bare("form")]
MetaFieldPermission == [role |-> Bare("role"), field_id |-> Bare("field")]
Company == [parent_id |-> Id("company")]
AppUser == [role |-> Bare("role"), company_id |-> Id("company")]
Workflow == [table_id |-> Key("table"), field_id |-> Key("field")]
ApprovalStep == [workflow_id |-> Key("workflow"), approver_role |-> Id("role"),
                 approver_user_id |-> Id("user")]
TriggerRule == [table_id |-> Key("table"), field_id |-> Id("field"),
                cond_field_id |-> Id("field"), set_field_id |-> Id("field"),
                notify_user_id |-> Id("user"), create_table_id |-> Id("table")]
SlaPolicy == [table_id |-> Key("table"), status_field_id |-> Id("field"),
              cond_field_id |-> Id("field"), state_field_id |-> Id("field"),
              due_field_id |-> Id("field"), breach_set_field_id |-> Id("field"),
              breach_notify_user_id |-> Id("user")]
Connection == [x \in {} |-> Id("connection")]
Feed == [source_table_id |-> Key("table"), connection_id |-> Key("connection"),
         field_id |-> Id("field"), cond_field_id |-> Id("field")]
Webhook == [target_table_id |-> Key("table"), user_id |-> Id("user")]
PullSource == [target_table_id |-> Key("table"), connection_id |-> Loose("connection"),
               user_id |-> Id("user")]
ReportDef == [user_id |-> Key("user"), table_id |-> Key("table")]
Dashboard == [x \in {} |-> Id("dashboard")]
DashboardWidget == [dashboard_id |-> Key("dashboard"), table_id |-> Id("table")]
Mailbox == [create_form_id |-> Id("form")]
RecurringRecord == [table_id |-> Bare("table")]
MaintenanceWindow == [table_id |-> Id("table"), record_table_id |-> Id("table")]

Model ==
    [source |-> DataSource, table |-> MetaTable, field |-> MetaField,
     relation |-> MetaRelation, unique |-> CompositeUnique, form |-> MetaForm,
     item |-> MetaFormField, menu |-> MetaMenu, view |-> SavedView, role |-> Role,
     permission |-> MetaPermission, fieldperm |-> MetaFieldPermission,
     company |-> Company, user |-> AppUser, workflow |-> Workflow,
     step |-> ApprovalStep, trigger |-> TriggerRule, sla |-> SlaPolicy,
     connection |-> Connection, feed |-> Feed, webhook |-> Webhook,
     pull |-> PullSource, report |-> ReportDef, dashboard |-> Dashboard,
     widget |-> DashboardWidget, mailbox |-> Mailbox, recurring |-> RecurringRecord,
     window |-> MaintenanceWindow]

Classes == DOMAIN Model
Columns(k) == DOMAIN Model[k[1]]
Column(k, m) == Model[k[1]][m]
Keys == Classes \X Nat
RowsIn(c, class) == {k \in DOMAIN c : k[1] = class}
Rows(class) == RowsIn(cat, class)

\* A reference is none, an id that is no more where nothing looks after it, or a
\* row of the class it is to.
Typed(c) ==
    \A k \in DOMAIN c :
        /\ k \in Keys /\ DOMAIN c[k] = Columns(k)
        /\ \A m \in Columns(k) :
             \/ c[k][m] = None
             \/ c[k][m] = Gone /\ Column(k, m).on = "nothing"
             \/ c[k][m] \in DOMAIN c /\ c[k][m][1] = Column(k, m).to

-----------------------------------------------------------------------------
(* What the database does with a deletion.                                    *)

\* ON DELETE CASCADE, from foreign key to foreign key.
Cascaded(c, S) ==
    LET fall[n \in 0 .. Cardinality(DOMAIN c)] ==
          IF n = 0 THEN S
          ELSE LET above == fall[n - 1] IN
               above \cup {k \in DOMAIN c : \E m \in Columns(k) :
                             Column(k, m).on = "cascade" /\ c[k][m] \in above}
    IN fall[Cardinality(DOMAIN c)]

\* The catalogue without S and what falls with it; a foreign key is set NULL
\* where it says so, a bare integer keeps the id of a row that is no more.
Without(c, S) ==
    LET fallen == Cascaded(c, S) IN
    [k \in DOMAIN c \ fallen |->
       [m \in Columns(k) |->
          IF c[k][m] \notin fallen THEN c[k][m]
          ELSE IF Column(k, m).on = "set null" THEN None ELSE Gone]]

With(c, k, row) == [x \in DOMAIN c \cup {k} |-> IF x = k THEN row ELSE c[x]]

-----------------------------------------------------------------------------
(* What the pages offer.                                                      *)
FieldsIn(c, t) == {f \in RowsIn(c, "field") : c[f].table_id = t}
FieldsOf(t) == FieldsIn(cat, t)

\* The table a row is about.
TableOf(k, row) ==
    CASE k[1] = "table" -> k
      [] k[1] = "item" -> cat[row.form_id].table_id
      [] k[1] = "relation" -> row.from_table_id
      [] k[1] = "feed" -> row.source_table_id
      [] OTHER -> row.table_id

\* companies.subtree_ids: the company and what is below it, cycles or not.
Subtree(r) ==
    LET down[n \in 0 .. Cardinality(Rows("company"))] ==
          IF n = 0 THEN {r}
          ELSE LET above == down[n - 1] IN
               above \cup {k \in Rows("company") : cat[k].parent_id \in above}
    IN down[Cardinality(Rows("company"))]

\* The choices of a page: the fields of the row's own table, the relations it
\* takes part in, any row of the class otherwise.  A menu entry may hang below
\* any other; a company is refused a parent from its own subtree.
Offered(k, row, m) ==
    LET all == Rows(Column(k, m).to) IN
    CASE k[1] = "company" -> all \ Subtree(k)
      [] k[1] = "menu" /\ m = "parent_id" -> all \ {k}
      [] m = "filter_field_id" ->
           IF row.field_id \in DOMAIN cat THEN FieldsOf(cat[row.field_id].related_table_id)
           ELSE {}
      [] m = "to_display_field_ids" -> FieldsOf(row.to_table_id)
      [] m = "relation_id" ->
           {r \in all : /\ cat[r].from_field_id = None
                        /\ TableOf(k, row) \in {cat[r].from_table_id, cat[r].to_table_id}}
      [] Column(k, m).to = "field" /\ m \notin {"filter_field_id", "to_display_field_ids"} ->
           FieldsOf(TableOf(k, row))
      [] OTHER -> all

-----------------------------------------------------------------------------
(* The shapes of the one-row requests.  Requests of this module do not        *)
(* overlap.                                                                   *)
Room(class) ==
    /\ class \in topic.of
    /\ Cardinality(DOMAIN cat) < topic.rows /\ Cardinality(Rows(class)) < topic.each

NewKey(class) ==
    <<class, CHOOSE n \in 1 .. topic.each :
               /\ <<class, n>> \notin DOMAIN cat
               /\ \A i \in 1 .. n - 1 : <<class, i>> \in DOMAIN cat>>

Musts(class) == {m \in DOMAIN Model[class] : Model[class][m].must}

\* A new row with its required columns, and one of `optional` set: bound.
Create(class, optional) ==
    /\ Room(class)
    /\ \E must \in [Musts(class) -> DOMAIN cat] :
         /\ \A m \in Musts(class) : must[m][1] = Model[class][m].to
         /\ LET k == NewKey(class)
                bare == [m \in DOMAIN Model[class] |->
                           IF m \in Musts(class) THEN must[m] ELSE None] IN
            \/ cat' = With(cat, k, bare)
            \/ \E m \in optional : \E v \in Offered(k, bare, m) :
                 cat' = With(cat, k, [bare EXCEPT ![m] = v])
    /\ UNCHANGED topic

\* An edit page posts every one of its columns: one changes, and an id that
\* names nothing is not among the choices, so it is posted as none.
Edit(class, columns) ==
    /\ class \in topic.of
    /\ \E k \in Rows(class), m \in columns :
         \E v \in Offered(k, cat[k], m) \cup (IF Column(k, m).must THEN {} ELSE {None}) :
           cat' = [cat EXCEPT ![k] =
                     [x \in DOMAIN @ |->
                        CASE x = m -> v
                          [] x # m /\ x \in columns /\ @[x] = Gone -> None
                          [] OTHER -> @[x]]]
    /\ UNCHANGED topic

Delete(class) ==
    /\ class \in topic.of
    /\ \E k \in Rows(class) : cat' = Without(cat, {k})
    /\ UNCHANGED topic

-----------------------------------------------------------------------------
(* Forms, menus and dashboards.                                               *)
form_new == Create("form", {})
form_delete == Delete("form")
form_item_delete == Delete("item")
menu_new == Create("menu", DOMAIN MetaMenu)
menu_edit == Edit("menu", DOMAIN MetaMenu)
menu_delete == Delete("menu")
dashboard_create == Create("dashboard", {})
dashboard_delete == Delete("dashboard")
widget_add == Create("widget", {"table_id"})
widget_edit == Edit("widget", {"table_id"})
widget_delete == Delete("widget")
view_save == Create("view", {})
view_delete == Delete("view")

\* An item shows a field that is not on the form yet, a many-to-many relation,
\* or is a section heading.
Unused(form) ==
    FieldsOf(cat[form].table_id) \ {cat[i].field_id : i \in {i \in Rows("item") :
                                                             cat[i].form_id = form}}

NewItem(form, m, v) ==
    [x \in DOMAIN MetaFormField |->
       CASE x = "form_id" -> form [] x = m -> v [] OTHER -> None]

add_form_item ==
    /\ Room("item")
    /\ \E form \in Rows("form") :
         LET k == NewKey("item") IN
         \/ cat' = With(cat, k, NewItem(form, "form_id", form))
         \/ \E f \in Unused(form) : cat' = With(cat, k, NewItem(form, "field_id", f))
         \/ \E r \in Offered(k, NewItem(form, "form_id", form), "relation_id") :
              cat' = With(cat, k, NewItem(form, "relation_id", r))
    /\ UNCHANGED topic

\* The parent and filter columns are posted for an item that shows a reference.
form_item_edit ==
    /\ "item" \in topic.of
    /\ \E k \in Rows("item"), m \in {"parent_field_id", "filter_field_id"} :
         /\ cat[k].field_id \in DOMAIN cat
         /\ cat[cat[k].field_id].related_table_id # None
         /\ \E v \in (Offered(k, cat[k], m) \ {cat[k].field_id}) \cup {None} :
              /\ v \in DOMAIN cat => cat[v].related_table_id # None
              /\ cat' = [cat EXCEPT ![k] =
                           [x \in DOMAIN @ |->
                              CASE x = m -> v
                                [] x # m /\ x \in {"parent_field_id", "filter_field_id"}
                                     /\ @[x] = Gone -> None
                                [] OTHER -> @[x]]]
    /\ UNCHANGED topic

\* _generate_form_items: every field and many-to-many relation of the table that
\* the form does not show yet.
Generated(form) ==
    {NewItem(form, "field_id", f) : f \in Unused(form)} \cup
    {NewItem(form, "relation_id", r) :
       r \in Offered(<<"item", 0>>, NewItem(form, "form_id", form), "relation_id")
               \ {cat[i].relation_id : i \in {i \in Rows("item") : cat[i].form_id = form}}}

\* Several new rows of a class, on the keys that are free.
FreeKeys(c, class) == {<<class, n>> : n \in 1 .. topic.each} \ DOMAIN c

WithAll(c, class, rows) ==
    LET key == CHOOSE f \in [rows -> FreeKeys(c, class)] : IsInjective(f) IN
    [k \in DOMAIN c \cup Range(key) |->
       IF k \in DOMAIN c THEN c[k] ELSE CHOOSE row \in rows : key[row] = k]

RoomFor(class, n) ==
    /\ class \in topic.of /\ Cardinality(DOMAIN cat) + n <= topic.rows
    /\ n <= Cardinality(FreeKeys(cat, class))

form_add_all ==
    \E form \in Rows("form") :
        /\ Generated(form) # {} /\ RoomFor("item", Cardinality(Generated(form)))
        /\ cat' = WithAll(cat, "item", Generated(form))
        /\ UNCHANGED topic

\* A form with everything on it, from a table.
GeneratedFor(k, t) ==
    {[x \in DOMAIN MetaFormField |->
        CASE x = "form_id" -> k [] x = "field_id" -> f [] OTHER -> None] : f \in FieldsOf(t)}
    \cup
    {[x \in DOMAIN MetaFormField |->
        CASE x = "form_id" -> k [] x = "relation_id" -> r [] OTHER -> None] :
       r \in {r \in Rows("relation") : /\ cat[r].from_field_id = None
                                       /\ t \in {cat[r].from_table_id, cat[r].to_table_id}}}

generate_form ==
    /\ Room("form")
    /\ \E t \in Rows("table") :
         LET k == NewKey("form")
             items == GeneratedFor(k, t) IN
         /\ RoomFor("item", Cardinality(items) + 1)
         /\ cat' = WithAll(With(cat, k, [table_id |-> t]), "item", items)
    /\ UNCHANGED topic

form_duplicate ==
    /\ Room("form")
    /\ \E form \in Rows("form") :
         LET k == NewKey("form")
             items == {[cat[i] EXCEPT !.form_id = k] :
                         i \in {i \in Rows("item") : cat[i].form_id = form}} IN
         /\ RoomFor("item", Cardinality(items) + 1)
         /\ cat' = WithAll(With(cat, k, cat[form]), "item", items)
    /\ UNCHANGED topic

-----------------------------------------------------------------------------
(* Automation and integration.                                                *)
trigger_create == Create("trigger", {})
trigger_edit == Edit("trigger", DOMAIN TriggerRule \ {"table_id"})
trigger_delete == Delete("trigger")
sla_policy_create == Create("sla", {})
sla_policy_edit == Edit("sla", DOMAIN SlaPolicy \ {"table_id"})
sla_policy_delete == Delete("sla")
recurring_home == Create("recurring", {})
recurring_delete == Delete("recurring")
maintenance_home == Create("window", DOMAIN MaintenanceWindow)
maintenance_delete == Delete("window")
mailboxes_home == Create("mailbox", DOMAIN Mailbox)
mailbox_edit == Edit("mailbox", DOMAIN Mailbox)
mailbox_delete == Delete("mailbox")
connection_create == Create("connection", {})
connection_delete == Delete("connection")
feed_create == Create("feed", {})
feed_edit == Edit("feed", DOMAIN Feed \ {"source_table_id"})
feed_delete == Delete("feed")
webhook_create == Create("webhook", {})
webhook_edit == Edit("webhook", {"user_id"})
webhook_delete == Delete("webhook")
pull_create == Create("pull", {})
pull_edit == Edit("pull", DOMAIN PullSource \ {"target_table_id"})
pull_delete == Delete("pull")
report_save == Create("report", {})
report_delete == Delete("report")
source_create == Create("source", {})

\* A data source that tables still use stays.
source_delete ==
    /\ "source" \in topic.of
    /\ \E d \in Rows("source") :
         /\ ~ \E t \in Rows("table") : cat[t].source_id = d
         /\ cat' = Without(cat, {d})
    /\ UNCHANGED topic

-----------------------------------------------------------------------------
(* Workflows.                                                                 *)

\* One workflow for a field, on the field's table.
workflow_create ==
    /\ Room("workflow")
    /\ \E f \in Rows("field") :
         /\ ~ \E w \in Rows("workflow") : cat[w].field_id = f
         /\ cat' = With(cat, NewKey("workflow"),
                        [table_id |-> cat[f].table_id, field_id |-> f])
    /\ UNCHANGED topic

workflow_delete == Delete("workflow")
approval_step_add == Create("step", {"approver_role", "approver_user_id"})
approval_step_delete == Delete("step")

-----------------------------------------------------------------------------
(* People.                                                                    *)
companies_home == Create("company", DOMAIN Company)
company_edit == Edit("company", DOMAIN Company)

\* A company with companies below it, or users, stays.
company_delete ==
    /\ "company" \in topic.of
    /\ \E k \in Rows("company") :
         /\ ~ \E x \in Rows("company") : cat[x].parent_id = k
         /\ ~ \E u \in Rows("user") : cat[u].company_id = k
         /\ cat' = Without(cat, {k})
    /\ UNCHANGED topic

user_new == Create("user", {"company_id"})
user_edit == Edit("user", DOMAIN AppUser)
user_delete == Delete("user")
roles == Create("role", {})

\* The page saves a row for every role and form that has none yet: one here.
permissions ==
    /\ Room("permission")
    /\ \E r \in Rows("role"), f \in Rows("form") :
         /\ ~ \E p \in Rows("permission") : cat[p].role = r /\ cat[p].form_id = f
         /\ cat' = With(cat, NewKey("permission"), [role |-> r, form_id |-> f])
    /\ UNCHANGED topic

field_permissions ==
    /\ Room("fieldperm")
    /\ \E r \in Rows("role"), f \in Rows("field") :
         /\ ~ \E p \in Rows("fieldperm") : cat[p].role = r /\ cat[p].field_id = f
         /\ cat' = With(cat, NewKey("fieldperm"), [role |-> r, field_id |-> f])
    /\ UNCHANGED topic

\* A role that users have stays; its permissions go with it.
role_delete ==
    /\ "role" \in topic.of
    /\ \E r \in Rows("role") :
         /\ ~ \E u \in Rows("user") : cat[u].role = r
         /\ cat' = Without(cat, {r} \cup {p \in Rows("permission") \cup Rows("fieldperm") :
                                            cat[p].role = r})
    /\ UNCHANGED topic

-----------------------------------------------------------------------------
OneRow ==
    \/ form_new \/ form_delete \/ form_item_delete \/ add_form_item \/ form_item_edit
    \/ form_add_all \/ generate_form \/ form_duplicate
    \/ menu_new \/ menu_edit \/ menu_delete
    \/ dashboard_create \/ dashboard_delete \/ widget_add \/ widget_edit \/ widget_delete
    \/ view_save \/ view_delete
    \/ trigger_create \/ trigger_edit \/ trigger_delete
    \/ sla_policy_create \/ sla_policy_edit \/ sla_policy_delete
    \/ recurring_home \/ recurring_delete \/ maintenance_home \/ maintenance_delete
    \/ mailboxes_home \/ mailbox_edit \/ mailbox_delete
    \/ connection_create \/ connection_delete
    \/ feed_create \/ feed_edit \/ feed_delete
    \/ webhook_create \/ webhook_edit \/ webhook_delete
    \/ pull_create \/ pull_edit \/ pull_delete
    \/ report_save \/ report_delete \/ source_create \/ source_delete
    \/ workflow_create \/ workflow_delete \/ approval_step_add \/ approval_step_delete
    \/ companies_home \/ company_edit \/ company_delete
    \/ user_new \/ user_edit \/ user_delete
    \/ roles \/ permissions \/ field_permissions \/ role_delete

=============================================================================
