------------------------------ MODULE Records ------------------------------
(* The life of records behind record_service, the one chokepoint every write  *)
(* path uses: two related tables as an application would have them, projects  *)
(* and tasks.  A task points at a project (M:1), shows the project's note     *)
(* through a lookup() formula and may carry one attachment; a project counts  *)
(* its valued tasks through a rollup() formula and is linked to tags (M:N).   *)
(*                                                                            *)
(* A request is the sequence of the transactions it commits: `todo` holds the *)
(* ones still to come, and the process may die between any two (Crash).       *)
(* Requests do not overlap here.                                              *)
EXTENDS Integers, Sequences, FiniteSets, SequencesExt

CONSTANTS
    Projects, Tasks, Tags,
    Notes, Values,          \* what a project's note and a task's value may hold
    None,                   \* SQL NULL
    Rules,                  \* the active trigger rules of tasks, by id
    MaxDepth,               \* _MAX_CREATE_DEPTH
    MaxRequests             \* bound: requests in a behaviour

Rows == Projects \cup Tasks

\* A rule matches an event under a condition, and sets the task's value or
\* creates a task with one.
TriggerRules == [event: {"create", "update", "transition"}, when: Values \cup {None, "any"},
                 set: Values \cup {None, "keep"}, spawn: Values \cup {None, "no"}]

ASSUME RecordsAssumption ==
    /\ IsFiniteSet(Projects) /\ IsFiniteSet(Tasks)
    /\ Projects \cap Tasks = {} /\ None \notin Projects \cup Values
    /\ Rules \in Seq(TriggerRules)
    /\ MaxDepth \in Nat /\ MaxRequests \in Nat

\* What a designer may choose for the relation and the tables: a foreign key
\* that is set NULL on delete is nullable.
Designs == {d \in [soft: BOOLEAN, required: BOOLEAN,
                   onDelete: {"SET NULL", "CASCADE", "RESTRICT"}] :
              d.onDelete = "SET NULL" => ~d.required}

VARIABLES
    design,     \* chosen once
    row,        \* unused, live, in the trash, or gone: keys are not used again
    ref, value, shown,      \* the columns of tasks
    note, total,            \* the columns of projects
    link,       \* the junction table of projects and tags
    att, disk,  \* tasks with an attachment row; with a stored file
    todo,       \* the transactions the running request has still to commit
    \* History.
    stale,      \* rows whose formulas the code leaves behind (README lists them)
    crashed,    \* a request died half way
    pair,       \* the survivor and the duplicate of a running merge
    asked,      \* the rows the last request asked to remove
    made,       \* the longest chain of tasks created by triggers in the request
    requests

data == <<row, ref, value, shown, note, total, link, att, disk>>
past == <<pair, asked, made, requests>>
vars == <<design, row, ref, value, shown, note, total, link, att, disk, todo,
          stale, crashed, pair, asked, made, requests>>

-----------------------------------------------------------------------------
Idle == todo = <<>>
At(d) == todo # <<>> /\ Head(todo).do = d
This == Head(todo)
Then(steps) == todo' = steps \o Tail(todo)

\* WHERE fk = p; the trash is not excluded.
Exists(r) == row[r] \in {"live", "trash"}
Children(p) == {t \in Tasks : Exists(t) /\ ref[t] = p}

\* rollup('tasks', 'value', 'count') of a project: COUNT(value) skips NULL.
Rollup(p) == Cardinality({t \in Children(p) : value[t] # None})

\* lookup('project', 'note') of a task that points at p.
Lookup(p) == IF p = None THEN None ELSE note[p]

-----------------------------------------------------------------------------
(* The transactions.                                                          *)

\* INSERT, with the row's own formulas computed before it.
Insert ==
    /\ At("insert")
    /\ \E t \in Tasks :
         /\ row[t] = "unused"
         /\ row' = [row EXCEPT ![t] = "live"]
         /\ ref' = [ref EXCEPT ![t] = This.ref]
         /\ value' = [value EXCEPT ![t] = This.value]
         /\ shown' = [shown EXCEPT ![t] = Lookup(This.ref)]
         /\ Then(<<[do |-> "fire", event |-> "create", t |-> t, old |-> None,
                    k |-> 1, depth |-> This.depth],
                   [do |-> "ripple", r |-> t, ref |-> This.ref]>>
                 \o IF This.file THEN <<[do |-> "save", t |-> t]>> ELSE <<>>)
    /\ made' = IF This.depth > made THEN This.depth ELSE made
    /\ UNCHANGED <<design, note, total, link, att, disk, stale, crashed, pair,
                   asked, requests>>

\* UPDATE of a task by record_service.update: the project it leaves behind is
\* not refreshed by the ripple, which follows the new row.
WriteTask ==
    /\ At("write task")
    /\ LET t == This.t IN
       /\ ref' = [ref EXCEPT ![t] = This.ref]
       /\ value' = [value EXCEPT ![t] = This.value]
       /\ shown' = [shown EXCEPT ![t] = Lookup(This.ref)]
       /\ stale' = (stale \ {t})
                     \cup (IF ref[t] \in Projects \ {This.ref} THEN {ref[t]} ELSE {})
       /\ Then(<<[do |-> "fire", event |-> "update", t |-> t, old |-> value[t],
                  k |-> 1, depth |-> 0],
                 [do |-> "ripple", r |-> t, ref |-> This.ref]>>)
    /\ UNCHANGED <<design, row, note, total, link, att, disk, crashed, past>>

\* UPDATE of a project: its rollup is computed with it.
WriteProject ==
    /\ At("write project")
    /\ LET p == This.p IN
       /\ note' = [note EXCEPT ![p] = This.note]
       /\ total' = [total EXCEPT ![p] = Rollup(p)]
       /\ stale' = stale \ {p}
       /\ Then(<<[do |-> "ripple", r |-> p, ref |-> None]>>)
    /\ UNCHANGED <<design, row, ref, value, shown, link, att, disk, crashed, past>>

\* Mutant: only the rows that point here are refreshed, not the row pointed at.
RippleDown ==
    /\ At("ripple")
    /\ Then(<<[do |-> "refresh",
               rows |-> IF This.r \in Projects THEN Children(This.r) ELSE {}]>>)
    /\ UNCHANGED <<design, data, stale, crashed, past>>

\* recompute_related: the project a task points at, or the tasks that point at
\* a project; nothing beyond them.
Ripple ==
    /\ At("ripple")
    /\ Then(<<[do |-> "refresh",
               rows |-> IF This.r \in Projects THEN Children(This.r)
                        ELSE {This.ref} \ {None}]>>)
    /\ UNCHANGED <<design, data, stale, crashed, past>>

\* One row recomputed and stored, past the chokepoint: no trigger, no ripple.
Refresh(r) ==
    /\ IF r \in Projects
       THEN total' = [total EXCEPT ![r] = Rollup(r)] /\ UNCHANGED shown
       ELSE shown' = [shown EXCEPT ![r] = Lookup(ref[r])] /\ UNCHANGED total
    /\ stale' = stale \ {r}

RefreshOne ==
    /\ At("refresh")
    /\ \E r \in This.rows :
         /\ IF Exists(r) THEN Refresh(r) ELSE UNCHANGED <<total, shown, stale>>
         /\ Then(<<[This EXCEPT !.rows = @ \ {r}]>>)
    /\ UNCHANGED <<design, row, ref, value, note, link, att, disk, crashed, past>>

RefreshDone ==
    /\ At("refresh") /\ This.rows = {}
    /\ Then(<<>>)
    /\ UNCHANGED <<design, data, stale, crashed, past>>

-----------------------------------------------------------------------------
(* Triggers: the rules of the table in the order of their ids, each on the    *)
(* row as the ones before it left it.                                         *)

\* `transition` is a change of the value during an update.
Matches(rule, s) ==
    CASE rule.event = "transition" -> s.event = "update" /\ s.old # value[s.t]
      [] OTHER -> rule.event = s.event

ConditionOk(rule, s) == rule.when = "any" \/ rule.when = value[s.t]

Applies(s) == Matches(Rules[s.k], s) /\ ConditionOk(Rules[s.k], s)

\* Mutant: no depth cap.
SpawnedUncapped(rule, s) ==
    IF rule.spawn = "no" \/ \A t \in Tasks : row[t] # "unused" THEN <<>>
    ELSE <<[do |-> "insert", ref |-> ref[s.t], value |-> rule.spawn,
            depth |-> s.depth + 1, file |-> FALSE]>>

\* _create_record runs record_service.create, whose own triggers run first; the
\* depth cap ends the chain (and so does the bound on keys).
Spawned(rule, s) ==
    IF rule.spawn = "no" \/ s.depth >= MaxDepth \/ \A t \in Tasks : row[t] # "unused"
    THEN <<>>
    ELSE <<[do |-> "insert", ref |-> ref[s.t], value |-> rule.spawn,
            depth |-> s.depth + 1, file |-> FALSE]>>

\* set_field writes past the chokepoint: no trigger, no ripple of its own.
RunRule ==
    /\ At("fire") /\ This.k <= Len(Rules) /\ Applies(This)
    /\ LET rule == Rules[This.k] IN
       /\ value' = IF rule.set = "keep" THEN value
                   ELSE [value EXCEPT ![This.t] = rule.set]
       /\ Then(Spawned(rule, This) \o <<[This EXCEPT !.k = @ + 1]>>)
    /\ UNCHANGED <<design, row, ref, shown, note, total, link, att, disk, stale,
                   crashed, past>>

SkipRule ==
    /\ At("fire") /\ This.k <= Len(Rules) /\ ~Applies(This)
    /\ Then(<<[This EXCEPT !.k = @ + 1]>>)
    /\ UNCHANGED <<design, data, stale, crashed, past>>

FireDone ==
    /\ At("fire") /\ This.k > Len(Rules)
    /\ Then(<<>>)
    /\ UNCHANGED <<design, data, stale, crashed, past>>

-----------------------------------------------------------------------------
(* Removal.                                                                   *)

\* set_links: one transaction replaces the links of a project.
SetLinks ==
    /\ At("set links")
    /\ link' = {l \in link : l[1] # This.p} \cup {<<This.p, g>> : g \in This.tags}
    /\ Then(<<>>)
    /\ UNCHANGED <<design, row, ref, value, shown, note, total, att, disk, stale,
                   crashed, past>>

\* delete_where on the junction.
Unlink ==
    /\ At("unlink")
    /\ link' = {l \in link : l[1] # This.p}
    /\ Then(<<>>)
    /\ UNCHANGED <<design, row, ref, value, shown, note, total, att, disk, stale,
                   crashed, past>>

\* clear_fk: the incoming references of a project on its way to the trash.
ClearFk ==
    /\ At("dissociate") /\ ~design.required
    /\ ref' = [t \in Tasks |-> IF t \in Children(This.p) THEN None ELSE ref[t]]
    /\ stale' = stale \cup Children(This.p) \cup {This.p}
    /\ Then(<<>>)
    /\ UNCHANGED <<design, row, value, shown, note, total, link, att, disk,
                   crashed, past>>

\* delete_where on the child table: a required reference takes the task along,
\* without its attachments, triggers or log.
DropChildren ==
    /\ At("dissociate") /\ design.required
    /\ row' = [r \in Rows |-> IF r \in Children(This.p) THEN "gone" ELSE row[r]]
    /\ stale' = stale \cup {This.p}
    /\ Then(<<>>)
    /\ UNCHANGED <<design, ref, value, shown, note, total, link, att, disk,
                   crashed, past>>

\* deleted_at is set, or cleared; on a key that is not there the UPDATE hits
\* nothing.
Mark ==
    /\ At("mark")
    /\ row' = IF Exists(This.r) THEN [row EXCEPT ![This.r] = This.state] ELSE row
    /\ Then(<<>>)
    /\ UNCHANGED <<design, ref, value, shown, note, total, link, att, disk, stale,
                   crashed, past>>

\* Mutant: the first row that cannot be removed ends the request.
AfterFailureNothing == <<>>

\* What is left of a request whose current removal raised: in a bulk delete the
\* rows that follow, which are last in todo, otherwise nothing.
AfterFailure ==
    LET n == Cardinality({i \in DOMAIN todo : todo[i].do = "remove"}) IN
    [i \in 1..n |-> todo[Len(todo) - n + i]]

Restricted(r) == design.onDelete = "RESTRICT" /\ r \in Projects /\ Children(r) # {}

\* DELETE, with what the foreign keys do: the junction cascades, the tasks
\* follow the relation's on_delete.
Delete ==
    /\ At("delete") /\ ~Restricted(This.r)
    /\ LET r == This.r
           hit == IF r \in Projects THEN Children(r) ELSE {}
           lost == IF design.onDelete = "CASCADE" THEN hit ELSE {} IN
       /\ row' = [x \in Rows |-> IF x \in lost \cup {r} THEN "gone" ELSE row[x]]
       /\ ref' = [t \in Tasks |-> IF t \in hit \ lost THEN None ELSE ref[t]]
       /\ link' = {l \in link : l[1] # r}
       /\ stale' = stale \cup hit
                     \cup (IF r \in Tasks /\ ref[r] # None THEN {ref[r]} ELSE {})
       /\ Then(<<>>)
    /\ UNCHANGED <<design, value, shown, note, total, att, disk, crashed, past>>

DeleteRefused ==
    /\ At("delete") /\ Restricted(This.r)
    /\ todo' = AfterFailure
    /\ pair' = <<>>
    /\ UNCHANGED <<design, data, stale, crashed, asked, made, requests>>

\* file_store.delete, then the commit that drops the attachment row.
DeleteFile ==
    /\ At("delete file")
    /\ disk' = disk \ {This.t}
    /\ Then(<<[do |-> "detach", t |-> This.t]>>)
    /\ UNCHANGED <<design, row, ref, value, shown, note, total, link, att, stale,
                   crashed, past>>

Detach ==
    /\ At("detach")
    /\ att' = att \ {This.t}
    /\ Then(<<>>)
    /\ UNCHANGED <<design, row, ref, value, shown, note, total, link, disk, stale,
                   crashed, past>>

\* An upload is on disk before its row is committed.
SaveFile ==
    /\ At("save")
    /\ disk' = disk \cup {This.t}
    /\ Then(<<[do |-> "attach", t |-> This.t]>>)
    /\ UNCHANGED <<design, row, ref, value, shown, note, total, link, att, stale,
                   crashed, past>>

Attach ==
    /\ At("attach")
    /\ att' = att \cup {This.t}
    /\ Then(<<>>)
    /\ UNCHANGED <<design, row, ref, value, shown, note, total, link, disk, stale,
                   crashed, past>>

\* _purge_attachments.
Purge(r) == IF r \in att THEN <<[do |-> "delete file", t |-> r]>> ELSE <<>>

\* Mutant: the files go before the record.
RemovalFilesFirst(r) ==
    (IF ~design.soft THEN Purge(r) \o <<[do |-> "delete", r |-> r]>>
     ELSE (IF r \in Projects
           THEN <<[do |-> "unlink", p |-> r], [do |-> "dissociate", p |-> r]>> ELSE <<>>)
          \o <<[do |-> "mark", r |-> r, state |-> "trash"]>>)

\* record_service.remove; the ripple works from the row as it was, whose
\* references are the ones it had.
Removal(r) ==
    (IF ~design.soft THEN <<[do |-> "delete", r |-> r]>> \o Purge(r)
     ELSE (IF r \in Projects
           THEN <<[do |-> "unlink", p |-> r], [do |-> "dissociate", p |-> r]>> ELSE <<>>)
          \o <<[do |-> "mark", r |-> r, state |-> "trash"]>>)
    \o (IF Exists(r)
        THEN <<[do |-> "ripple", r |-> r,
                ref |-> IF r \in Tasks THEN ref[r] ELSE None]>> ELSE <<>>)

RemoveRecord ==
    /\ At("remove")
    /\ Then(Removal(This.r))
    /\ UNCHANGED <<design, data, stale, crashed, past>>

-----------------------------------------------------------------------------
(* Merging a duplicate project into a survivor.                               *)

\* repoint_fk: no formula is recomputed for it.
Repoint ==
    /\ At("repoint")
    /\ ref' = [t \in Tasks |-> IF t \in Children(This.d) THEN This.s ELSE ref[t]]
    /\ stale' = stale \cup Children(This.d) \cup {This.s}
    /\ Then(<<>>)
    /\ UNCHANGED <<design, row, value, shown, note, total, link, att, disk,
                   crashed, past>>

TagsOf(p) == {g \in Tags : <<p, g>> \in link}

\* Mutant: the duplicate's links go before the survivor has them.
MoveLinksDropFirst(s, d) ==
    IF TagsOf(d) = {} THEN <<>>
    ELSE <<[do |-> "unlink", p |-> d],
           [do |-> "set links", p |-> s, tags |-> TagsOf(s) \cup TagsOf(d)]>>

\* The union is written to the survivor before the duplicate's links go.
MoveLinks(s, d) ==
    IF TagsOf(d) = {} THEN <<>>
    ELSE <<[do |-> "set links", p |-> s, tags |-> TagsOf(s) \cup TagsOf(d)],
           [do |-> "unlink", p |-> d]>>

\* _fills: what the survivor leaves empty.
Fills(s, d) ==
    IF note[s] = None /\ note[d] # None
    THEN <<[do |-> "write project", p |-> s, note |-> note[d]]>> ELSE <<>>

Merging(s, d) ==
    <<[do |-> "repoint", s |-> s, d |-> d]>> \o MoveLinks(s, d) \o Fills(s, d)
    \o <<[do |-> "remove", r |-> d]>>

-----------------------------------------------------------------------------
(* The requests.                                                              *)
Request(steps) ==
    /\ Idle /\ requests < MaxRequests
    /\ todo' = steps
    /\ requests' = requests + 1 /\ made' = 0
    /\ UNCHANGED <<design, data, stale, crashed>>

\* What a task's form or an API call may send as its project: any row that is
\* there, the trash included.
RefChoices == {p \in Projects : Exists(p)} \cup (IF design.required THEN {} ELSE {None})

\* A new task from the form (its clone too), the API or the portal.
CreateTask ==
    \E p \in RefChoices, v \in Values \cup {None}, file \in BOOLEAN :
        /\ \E t \in Tasks : row[t] = "unused"
        /\ Request(<<[do |-> "insert", ref |-> p, value |-> v, depth |-> 0,
                      file |-> file]>>)
        /\ pair' = <<>> /\ asked' = {}

\* record_service.create of a project, then the form's links.
CreateProject ==
    \E p \in Projects, n \in Notes \cup {None}, S \in SUBSET Tags :
        /\ Idle /\ requests < MaxRequests
        /\ row[p] = "unused"
        /\ row' = [row EXCEPT ![p] = "live"]
        /\ note' = [note EXCEPT ![p] = n]
        /\ total' = [total EXCEPT ![p] = 0]
        /\ todo' = <<[do |-> "set links", p |-> p, tags |-> S]>>
        /\ requests' = requests + 1 /\ made' = 0
        /\ pair' = <<>> /\ asked' = {}
        /\ UNCHANGED <<design, ref, value, shown, link, att, disk, stale, crashed>>

\* _save_record of a task: the write, then its files.
Files(t, files) ==
    CASE files = "add" /\ t \notin att -> <<[do |-> "save", t |-> t]>>
      [] files = "remove" -> Purge(t)
      [] OTHER -> <<>>

EditTask ==
    \E t \in Tasks, p \in RefChoices, v \in Values \cup {None},
       files \in {"keep", "add", "remove"} :
        /\ row[t] = "live"
        /\ Request(<<[do |-> "write task", t |-> t, ref |-> p, value |-> v]>>
                   \o Files(t, files))
        /\ pair' = <<>> /\ asked' = {}

\* _save_record of a project: the write, then its links.
EditProject ==
    \E p \in Projects, n \in Notes \cup {None}, S \in SUBSET Tags :
        /\ row[p] = "live"
        /\ Request(<<[do |-> "write project", p |-> p, note |-> n],
                     [do |-> "set links", p |-> p, tags |-> S]>>)
        /\ pair' = <<>> /\ asked' = {}

\* bulk_edit_apply on one column: rows that are not there or hold the value
\* already are skipped, row by row.
BulkEdit ==
    \E S \in SUBSET {t \in Tasks : Exists(t)}, v \in Values \cup {None} :
        /\ S # {}
        /\ Request([i \in 1..Cardinality(S) |->
                     [do |-> "edit cell", t |-> SetToSeq(S)[i], value |-> v]])
        /\ pair' = <<>> /\ asked' = {}

EditCell ==
    /\ At("edit cell")
    /\ LET t == This.t IN
       Then(IF row[t] = "live" /\ value[t] # This.value
            THEN <<[do |-> "write task", t |-> t, ref |-> ref[t], value |-> This.value]>>
            ELSE <<>>)
    /\ UNCHANGED <<design, data, stale, crashed, past>>

\* record_delete of one row, bulk_delete_run of several: a row that cannot be
\* removed is counted and the others go on.
DeleteRecords ==
    \E S \in ((SUBSET Tasks) \cup {{p} : p \in Projects} \cup {Projects}) \ {{}} :
        /\ \A r \in S : Exists(r)
        /\ Request([i \in 1..Cardinality(S) |-> [do |-> "remove", r |-> SetToSeq(S)[i]]])
        /\ asked' = S /\ pair' = <<>>

\* The API: rows are looked up as a reader sees them, so the trash is out of
\* reach; bulk calls take their items one by one and isolate a bad one.
ApiCreate ==
    \E p \in RefChoices, v \in Values \cup {None}, n \in 1..2 :
        /\ Cardinality({t \in Tasks : row[t] = "unused"}) >= n
        /\ Request([i \in 1..n |-> [do |-> "insert", ref |-> p, value |-> v, depth |-> 0,
                                    file |-> FALSE]])
        /\ pair' = <<>> /\ asked' = {}

ApiUpdate ==
    \E t \in Tasks, v \in Values \cup {None} :
        /\ row[t] = "live"
        /\ Request(<<[do |-> "write task", t |-> t, ref |-> ref[t], value |-> v]>>)
        /\ pair' = <<>> /\ asked' = {}

ApiDelete ==
    \E S \in ((SUBSET Tasks) \cup {{p} : p \in Projects} \cup {Projects}) \ {{}} :
        /\ \A r \in S : row[r] = "live"
        /\ Request([i \in 1..Cardinality(S) |-> [do |-> "remove", r |-> SetToSeq(S)[i]]])
        /\ asked' = S /\ pair' = <<>>

\* assign_to_me and other one-column writes past the form: the columns modelled
\* here keep their values, triggers and formulas run all the same.
AssignToMe ==
    \E t \in Tasks :
        /\ row[t] = "live"
        /\ Request(<<[do |-> "write task", t |-> t, ref |-> ref[t], value |-> value[t]]>>)
        /\ pair' = <<>> /\ asked' = {}

\* restore brings the row back as it is, not what was dissociated from it.
RestoreRecord ==
    \E r \in Rows :
        /\ row[r] = "trash"
        /\ Request(<<[do |-> "mark", r |-> r, state |-> "live"]>>)
        /\ pair' = <<>> /\ asked' = {}

\* destroy: the row and its files, without a ripple.
DestroyRecord ==
    \E r \in Rows :
        /\ row[r] = "trash"
        /\ Request(<<[do |-> "delete", r |-> r]>> \o Purge(r))
        /\ pair' = <<>> /\ asked' = {r}

MergeProjects ==
    \E s, d \in Projects :
        /\ s # d /\ Exists(s) /\ Exists(d)
        /\ Request(Merging(s, d))
        /\ pair' = <<s, d>> /\ asked' = {}

\* import_rows inserts past the chokepoint in one transaction; recompute_table
\* then fills the formulas of the imported table only.
ImportTasks ==
    \E t \in Tasks, p \in RefChoices, v \in Values \cup {None} :
        /\ Idle /\ requests < MaxRequests
        /\ row[t] = "unused"
        /\ row' = [row EXCEPT ![t] = "live"]
        /\ ref' = [ref EXCEPT ![t] = p]
        /\ value' = [value EXCEPT ![t] = v]
        /\ todo' = <<[do |-> "refresh", rows |-> {x \in Tasks : Exists(x)} \cup {t}]>>
        /\ stale' = stale \cup ({p} \ {None})
        /\ requests' = requests + 1 /\ made' = 0
        /\ pair' = <<>> /\ asked' = {}
        /\ UNCHANGED <<design, shown, note, total, link, att, disk, crashed>>

Crash ==
    /\ ~Idle
    /\ todo' = <<>> /\ crashed' = TRUE
    /\ UNCHANGED <<design, data, stale, past>>

\* The server waits for requests; past the bounds it only waits.
Rest == Idle /\ UNCHANGED vars

-----------------------------------------------------------------------------
\* An empty application, or one where every project is there and one of them
\* has a task with a file already, and perhaps tags.
Init ==
    /\ design \in Designs
    /\ \E old \in {{}, Projects}, first \in SUBSET Tasks, p \in Projects, v \in Values :
         /\ IF old = {} THEN first = {} ELSE Cardinality(first) = 1
         /\ row = [r \in Rows |-> IF r \in old \cup first THEN "live" ELSE "unused"]
         /\ ref = [t \in Tasks |-> IF t \in first THEN p ELSE None]
         /\ value = [t \in Tasks |-> IF t \in first THEN v ELSE None]
         /\ note \in [Projects -> IF old = {} THEN {None} ELSE Notes \cup {None}]
         /\ shown = [t \in Tasks |-> IF t \in first THEN note[p] ELSE None]
         /\ total = [q \in Projects |-> IF first # {} /\ q = p THEN 1 ELSE 0]
         /\ link \in {{}, (old \cap {p}) \X Tags}
         /\ att = first /\ disk = first
    /\ todo = <<>> /\ stale = {} /\ crashed = FALSE
    /\ pair = <<>> /\ asked = {} /\ made = 0 /\ requests = 0

Transaction ==
    \/ Insert \/ WriteTask \/ WriteProject \/ EditCell
    \/ RunRule \/ SkipRule \/ FireDone
    \/ Ripple \/ RefreshOne \/ RefreshDone
    \/ SetLinks \/ Unlink \/ ClearFk \/ DropChildren \/ Mark \/ RemoveRecord
    \/ Delete \/ DeleteRefused \/ DeleteFile \/ Detach \/ SaveFile \/ Attach
    \/ Repoint

Start ==
    \/ CreateTask \/ CreateProject \/ EditTask \/ EditProject \/ BulkEdit
    \/ ApiCreate \/ ApiUpdate \/ ApiDelete \/ AssignToMe
    \/ DeleteRecords \/ RestoreRecord \/ DestroyRecord \/ MergeProjects \/ ImportTasks

Next == Transaction \/ Start \/ Crash \/ Rest

Spec == Init /\ [][Next]_vars

-----------------------------------------------------------------------------
(* Properties.                                                                *)

\* Every column holds what its type allows.
TypeOK ==
    /\ design \in Designs
    /\ row \in [Rows -> {"unused", "live", "trash", "gone"}]
    /\ ref \in [Tasks -> Projects \cup {None}]
    /\ value \in [Tasks -> Values \cup {None}]
    /\ shown \in [Tasks -> Notes \cup {None}]
    /\ note \in [Projects -> Notes \cup {None}]
    /\ total \in [Projects -> 0..Cardinality(Tasks)]
    /\ link \subseteq Projects \X Tags
    /\ att \subseteq Tasks /\ disk \subseteq Tasks
    /\ stale \subseteq Rows /\ asked \subseteq Rows

\* No chain of tasks that triggers create for one another is longer than
\* MaxDepth, whatever the rules and however many tasks a request starts with.
ChainEnds == made <= MaxDepth

\* Foreign keys hold through every sequence of removals, merges and deletions:
\* a row that is there points at rows that are there.
NoDanglingReference ==
    /\ \A t \in Tasks : Exists(t) /\ ref[t] # None => Exists(ref[t])
    /\ \A l \in link : Exists(l[1])

\* The rows are well formed and whole after every transaction, however long the
\* chain of triggers.
RowsSound == TypeOK /\ ChainEnds /\ NoDanglingReference

\* After a request the stored formulas are what the rows say, whatever it
\* touched and whatever its triggers did, but for the rows that are known to be
\* left behind: recompute_related has refreshed everything else.
FormulasExact ==
    Idle /\ ~crashed =>
        /\ \A p \in Projects \ stale : Exists(p) => total[p] = Rollup(p)
        /\ \A t \in Tasks \ stale : Exists(t) => shown[t] = Lookup(ref[t])

\* The files on disk are those of the attachment rows, and neither outlives its
\* record, unless the record went with a required or cascading reference.
FilesFollowRows ==
    Idle /\ ~crashed =>
        /\ att = disk
        /\ ~design.required /\ design.onDelete # "CASCADE" =>
             \A t \in att : Exists(t)

\* A record that is being deleted loses its files only once it is gone: a
\* process that dies on the way leaves files too many, never a record whose
\* attachment cannot be opened.
RecordGoesFirst == \A t \in (asked \cap disk) \ disk' : row[t] = "gone"

FilesKept == [][FilesFollowRows' /\ RecordGoesFirst]_vars

\* Every row a request was asked to remove is removed, except a project that
\* tasks still restrict: one refusal does not stop the rest of a bulk delete.
RemovedAsAsked ==
    Idle /\ ~crashed => \A r \in asked : row[r] = "live" => ~design.soft /\ Restricted(r)

\* A project that goes to the trash has been dissociated before: nothing points
\* at it and it has no links, even if the process dies on the way.
DetachedFirst ==
    \A p \in Projects : row[p] = "live" /\ row'[p] = "trash" =>
        Children(p) = {} /\ TagsOf(p) = {}

RemovalsKept == [][RemovedAsAsked' /\ DetachedFirst]_vars

\* A merge that ends has moved everything: the duplicate is gone from view and
\* nothing points at it.
MergedOnto ==
    Idle /\ ~crashed /\ pair # <<>> =>
        row[pair[2]] # "live" /\ Children(pair[2]) = {} /\ TagsOf(pair[2]) = {}

\* While it runs, and wherever it dies, no task that pointed at either project
\* loses its reference and no tag falls off both.
LosesNothing ==
    pair # <<>> /\ ~Idle =>
        /\ \A t \in Tasks : Exists(t) /\ ref[t] \in {pair[1], pair[2]} =>
              ref'[t] \in {pair[1], pair[2]} /\ row'[t] = row[t]
        /\ TagsOf(pair[1]) \cup TagsOf(pair[2])
              = TagsOf(pair[1])' \cup TagsOf(pair[2])'

MergesKept == [][MergedOnto' /\ LosesNothing]_vars

=============================================================================
