------------------------------- MODULE Drafts -------------------------------
(* The shared draft of one form: the builder, its saves and previews,         *)
(* publication with its revisions, templates that are reviewed and then       *)
(* applied to the draft, and the direct editor that changes the live form.    *)
(*                                                                            *)
(* A request reads the database as it was at its first query (REPEATABLE      *)
(* READ; load_user is that query) and then waits for the lock on the form's   *)
(* row.  What it reads FOR UPDATE (the form's row, the draft) is current;     *)
(* the items and the table's fields, plain reads, are those of the old        *)
(* snapshot.  So a request is two steps, Arrive and an atomic rest.           *)
EXTENDS Integers, Sequences, FiniteSets, SequencesExt

CONSTANTS
    Designers,
    Fields,         \* the fields the table has or may be given
    FirstFields,    \* those it has at first
    Titles,         \* the form's settings (FORM_KEYS)
    None,
    BuiltIn,        \* the built-in templates: sequences of items
    MaxRequests     \* bound: requests, direct edits and schema changes

\* An item that is required and read-only with no default is "locked", which
\* the health check of the form (check_form) reports; `when` is the field its
\* conditional rule reads.
Items == [field: Fields, state: {"open", "locked"}, when: Fields \cup {None}]
\* An item as a row of the form.
ItemRows == [id: Nat \ {0}, field: Fields, state: {"open", "locked"},
             when: Fields \cup {None}]

\* What a snapshot holds, and what a draft rests on.
Configs == [title: Titles, items: Seq(Items)]
Schemas == [Fields -> {"new", "there", "gone"}]
Bases == [config: Configs, schema: Schemas]
DraftRows == [config: Configs, version: Nat \ {0}, base: Bases,
              tested: Configs \cup {None}]
Proofs == [config: Configs, base: Bases, passed: BOOLEAN]

ASSUME DraftsAssumption ==
    /\ IsFiniteSet(Fields)
    /\ FirstFields \in (SUBSET Fields) \ {{}}
    /\ BuiltIn \subseteq Seq(Items)
    /\ MaxRequests \in Nat
\* None is no value of any of these kinds.
ASSUME NoneAssumption == None \notin Configs /\ None \notin DraftRows /\ None \notin Proofs

VARIABLES
    fields,     \* fields of the table, each with its state
    title, live,    \* the form's row and its items, rows with an id
    nextId,
    draft,      \* None, or its row
    revs,       \* FormRevision rows, oldest first
    templates,  \* FormTemplate rows and the built-in ones
    view,       \* the snapshot a designer's request reads, None between requests
    page,       \* the draft as a designer's builder page shows it
    offer,      \* what a designer's template page was opened on
    review,     \* the reviewed application of a template a designer holds
    \* History.
    proof,      \* the last preview: its config, its base and whether it passed
    used,       \* the reviews that were applied
    requests

form == <<fields, title, live, nextId>>
library == <<templates, offer>>
vars == <<fields, title, live, nextId, draft, revs, templates, view, page,
          offer, review, proof, used, requests>>

-----------------------------------------------------------------------------
There(fs) == {f \in Fields : fs[f] = "there"}
Content(row) == [field |-> row.field, state |-> row.state, when |-> row.when]
\* The rows by id: the i-th one has i - 1 rows before it.
Before(rows, r) == {s \in rows : s.id < r.id}
InOrder(rows) ==
    [i \in 1..Cardinality(rows) |->
        CHOOSE r \in rows : Cardinality(Before(rows, r)) = i - 1]

\* snapshot and live_hash of the form as a request sees it.
Snapshot(rows) ==
    LET sorted == InOrder(rows) IN
    [title |-> title, items |-> [i \in DOMAIN sorted |-> Content(sorted[i])]]
\* Mutant: the hash leaves the table's fields out.
LayoutHash(v) ==
    [config |-> Snapshot(v.live), schema |-> [f \in Fields |-> "there"]]
LiveHash(v) == [config |-> Snapshot(v.live), schema |-> v.fields]

\* validate_config raises on what is not well formed ...
ItemOf(config, f) == CHOOSE i \in Range(config.items) : i.field = f
WellFormed(config, fs) ==
    LET on == {i.field : i \in Range(config.items)} IN
    /\ on \subseteq There(fs)
    /\ Cardinality(on) = Len(config.items)
    /\ \A i \in Range(config.items) : i.when # None => i.when \in on
    \* form_rules.order: no cycle of conditions.
    /\ \A s \in (SUBSET on) \ {{}} : \E f \in s : ItemOf(config, f).when \notin s
\* ... and reports what check_form finds wrong.
Healthy(config) == \A i \in Range(config.items) : i.state = "open"

-----------------------------------------------------------------------------
Init ==
    /\ fields = [f \in Fields |-> IF f \in FirstFields THEN "there" ELSE "new"]
    /\ title \in Titles
    /\ live = {[id |-> 1, field |-> f, state |-> "open", when |-> None] :
               f \in {CHOOSE f \in FirstFields : TRUE}}
    /\ nextId = 2
    /\ draft = None
    /\ revs = <<>>
    /\ templates = BuiltIn
    /\ offer = [d \in Designers |-> None]
    /\ view = [d \in Designers |-> None]
    /\ page = [d \in Designers |-> None]
    /\ review = [d \in Designers |-> None]
    /\ proof = None
    /\ used = <<>>
    /\ requests = 0

\* The first query of a request.
Arrive(d) ==
    /\ view[d] = None
    /\ requests < MaxRequests
    /\ requests' = requests + 1
    /\ view' = [view EXCEPT ![d] = [live |-> live, fields |-> fields,
                                    draft |-> draft, revs |-> Len(revs)]]
    /\ UNCHANGED <<form, draft, revs, page, library, review, proof, used>>

\* The lock on the form's row is granted: the rest of the request runs.
Locked(d) == view[d] # None
Done(d) == view' = [view EXCEPT ![d] = None] /\ UNCHANGED requests

\* It changed nothing: a refusal, a lock wait that timed out, a conflict the
\* server reports, a crash.
Refused(d) ==
    /\ Locked(d)
    /\ Done(d)
    /\ UNCHANGED <<form, draft, revs, page, library, review, proof, used>>

\* response_data: the page shows the draft as it is now.
Shows(d, row) == page' = [page EXCEPT ![d] = [config |-> row.config, version |-> row.version]]

\* GET builder.  The draft is a plain read: where the snapshot has none but
\* another request has made one, the unique key refuses this one.
Builder(d) ==
    /\ Locked(d)
    /\ IF view[d].draft # None
       THEN Shows(d, view[d].draft) /\ UNCHANGED draft
       ELSE /\ draft = None
            /\ draft' = [config |-> Snapshot(view[d].live), version |-> 1,
                         base |-> LiveHash(view[d]), tested |-> None]
            /\ Shows(d, draft')
    /\ Done(d)
    /\ UNCHANGED <<form, revs, library, review, proof, used>>

\* Mutant: any page may change the draft.
LockDraftUnversioned(d) ==
    Locked(d) /\ draft # None /\ page[d] # None
\* lock_draft: the draft, read FOR UPDATE, is the one the page shows.
LockDraft(d) ==
    /\ Locked(d)
    /\ draft # None
    /\ page[d] # None
    /\ page[d].version = draft.version

\* Mutant: the version stays.
RedraftSameVersion(d, config, base) ==
    /\ draft' = [config |-> config, version |-> draft.version,
                 base |-> base, tested |-> None]
    /\ Shows(d, draft')
    /\ Done(d)
\* What every change of the draft through the builder does.
Redraft(d, config, base) ==
    /\ draft' = [config |-> config, version |-> draft.version + 1,
                 base |-> base, tested |-> None]
    /\ Shows(d, draft')
    /\ Done(d)

\* The designer's change to the page: an item put, changed or taken off, or
\* another setting.
Changed(config) ==
    {[config EXCEPT !.title = t] : t \in Titles}
      \cup {[config EXCEPT !.items = Append(@, i)] : i \in Items}
      \cup (UNION {{[config EXCEPT !.items[n] = i] : i \in {i \in Items :
                       i.field = config.items[n].field}} : n \in DOMAIN config.items})
      \cup {[config EXCEPT !.items = RemoveAt(@, n)] : n \in DOMAIN config.items}

Save(d) ==
    /\ LockDraft(d)
    /\ \E config \in Changed(page[d].config) :
          /\ WellFormed(config, view[d].fields)
          /\ Redraft(d, config, draft.base)
    /\ UNCHANGED <<form, revs, library, review, proof, used>>

\* A preview fills the draft's form with sample values for a role: whether
\* they validate is the designer's choice of sample, role and permissions.
Preview(d) ==
    /\ LockDraft(d)
    /\ WellFormed(draft.config, view[d].fields)
    /\ \E valid \in BOOLEAN :
          LET passed == valid /\ Healthy(draft.config) IN
          /\ draft' = [draft EXCEPT !.version = @ + 1,
                                    !.tested = IF passed THEN draft.config ELSE None]
          /\ proof' = [config |-> draft.config, base |-> draft.base, passed |-> passed]
    /\ Shows(d, draft')
    /\ Done(d)
    /\ UNCHANGED <<form, revs, library, review, used>>

\* The guards of publish.
MayPublish(v) ==
    /\ draft.base = LiveHash(v)
    /\ WellFormed(draft.config, v.fields)
    /\ Healthy(draft.config)
    /\ draft.tested = draft.config

\* New rows with the next ids.
Rows(items) ==
    {[id |-> nextId + n - 1, field |-> items[n].field, state |-> items[n].state,
      when |-> items[n].when] : n \in DOMAIN items}

\* Mutant: the old items are not cleared.
ReplacedAdded(rows, config) ==
    live \cup Rows(config.items)
\* form.items.clear() deletes the rows the snapshot has, whatever else the
\* form has by now; the published ones are new rows.
Replaced(rows, config) ==
    {r \in live : \A old \in rows : r.id # old.id}
      \cup Rows(config.items)

Publish(d) ==
    /\ LockDraft(d)
    /\ MayPublish(view[d])
    /\ title' = draft.config.title
    /\ live' = Replaced(view[d].live, draft.config)
    /\ nextId' = nextId + Len(draft.config.items)
    /\ revs' = revs \o <<Snapshot(view[d].live), draft.config>>
    /\ Redraft(d, draft.config, [config |-> draft.config, schema |-> view[d].fields])
    /\ UNCHANGED <<fields, library, review, proof, used>>

Reset(d) ==
    /\ LockDraft(d)
    /\ Redraft(d, Snapshot(view[d].live), LiveHash(view[d]))
    /\ UNCHANGED <<form, revs, library, review, proof, used>>

Restore(d) ==
    /\ LockDraft(d)
    /\ \E n \in 1..view[d].revs :
          /\ WellFormed(revs[n], view[d].fields)
          /\ Redraft(d, revs[n], LiveHash(view[d]))
    /\ UNCHANGED <<form, revs, library, review, proof, used>>

-----------------------------------------------------------------------------
\* Templates: items that name fields by kind, mapped to fields of a form.

\* The page that saves one names the live form and the version of the draft it
\* was opened on; the draft is a plain read, here and when it is saved.
OfferTemplate(d) ==
    /\ Locked(d)
    /\ offer' = [offer EXCEPT ![d] =
          [live |-> LiveHash(view[d]),
           draft |-> IF view[d].draft = None THEN None
                     ELSE [config |-> view[d].draft.config, version |-> view[d].draft.version]]]
    /\ Done(d)
    /\ UNCHANGED <<form, draft, revs, templates, page, review, proof, used>>

\* The live form, or the draft of the version the page was opened on.
Offered(d) ==
    IF offer[d].live # LiveHash(view[d]) THEN {}
    ELSE {Snapshot(view[d].live)} \cup
         (IF view[d].draft # None /\ offer[d].draft # None
             /\ view[d].draft.version = offer[d].draft.version
          THEN {view[d].draft.config} ELSE {})

SaveTemplate(d) ==
    /\ Locked(d)
    /\ offer[d] # None
    /\ \E config \in Offered(d) :
          /\ WellFormed(config, view[d].fields)
          /\ templates' = templates \cup {config.items}
    /\ Done(d)
    /\ UNCHANGED <<form, draft, revs, page, offer, review, proof, used>>

\* map_config: the template with fields of this form; the form keeps its title.
MapConfig(template) == [title |-> title, items |-> template]

\* Mutant: the stamp forgets the draft.
PrepareVersionless(d, template) ==
    [by |-> d, template |-> template,
     config |-> MapConfig(template),
     live |-> LiveHash(view[d]), draft |-> 0]
\* prepare: what a review shows and an application does, stamped with all it
\* rests on.
Prepare(d, template) ==
    [by |-> d, template |-> template,
     config |-> MapConfig(template),
     live |-> LiveHash(view[d]),
     draft |-> IF draft = None THEN 0 ELSE draft.version]

\* Only the stamp is kept, with what the review replaces (history).
Review(d) ==
    /\ Locked(d)
    /\ \E template \in templates :
          LET stamp == Prepare(d, template) IN
          /\ WellFormed(stamp.config, view[d].fields)
          /\ review' = [review EXCEPT ![d] = [stamp |-> stamp,
                 replaces |-> IF draft = None THEN None ELSE draft.config]]
    /\ Done(d)
    /\ UNCHANGED <<form, draft, revs, page, library, proof, used>>

\* The page keeps its token after an application (a repeated submission).
Apply(d) ==
    /\ Locked(d)
    /\ review[d] # None
    /\ LET stamp == Prepare(d, review[d].stamp.template) IN
       /\ WellFormed(stamp.config, view[d].fields)
       /\ stamp = review[d].stamp
       /\ draft' = [config |-> stamp.config, version |-> stamp.draft + 1,
                    base |-> LiveHash(view[d]), tested |-> None]
    /\ used' = Append(used, review[d].stamp)
    /\ Done(d)
    /\ UNCHANGED <<form, revs, page, library, review, proof>>

-----------------------------------------------------------------------------
\* The direct editor (Live settings) holds the form's lock, too, and finds the
\* items in its snapshot.
Unused(v) == There(v.fields) \ {r.field : r \in v.live}
NewItems(fs, s) ==
    LET order == SetToSeq(fs) IN
    Rows([n \in DOMAIN order |-> [field |-> order[n], state |-> s, when |-> None]])

AddItem(d) ==
    /\ Locked(d)
    /\ \E f \in Unused(view[d]), s \in {"open", "locked"} : live' = live \cup NewItems({f}, s)
    /\ nextId' = nextId + 1
    /\ Done(d)
    /\ UNCHANGED <<fields, title, draft, revs, page, library, review, proof, used>>

\* An item for every field the form does not show yet.
AddAll(d) ==
    /\ Locked(d)
    /\ live' = live \cup NewItems(Unused(view[d]), "open")
    /\ nextId' = nextId + Cardinality(Unused(view[d]))
    /\ Done(d)
    /\ UNCHANGED <<fields, title, draft, revs, page, library, review, proof, used>>

\* An UPDATE that finds no row is an error (Refused).
EditItem(d) ==
    /\ Locked(d)
    /\ \E r \in live, seen \in view[d].live :
          /\ seen.id = r.id
          /\ live' = (live \ {r}) \cup
                {[r EXCEPT !.state = IF seen.state = "open" THEN "locked" ELSE "open"]}
    /\ Done(d)
    /\ UNCHANGED <<fields, title, nextId, draft, revs, page, library, review, proof, used>>

DeleteItem(d) ==
    /\ Locked(d)
    /\ \E r \in view[d].live : live' = {l \in live : l.id # r.id}
    /\ Done(d)
    /\ UNCHANGED <<fields, title, nextId, draft, revs, page, library, review, proof, used>>

\* form_catalog, form_purpose: the form's own row, which is current.
EditSettings(d) ==
    /\ Locked(d)
    /\ title' \in Titles
    /\ Done(d)
    /\ UNCHANGED <<fields, live, nextId, draft, revs, page, library, review, proof, used>>

\* A field added or deleted: these requests do not take the form's
\* lock, and leave the form's items as they are.
FieldChange ==
    /\ requests < MaxRequests
    /\ requests' = requests + 1
    /\ \E f \in Fields :
          \/ fields[f] = "new" /\ fields' = [fields EXCEPT ![f] = "there"]
          \/ fields[f] = "there" /\ fields' = [fields EXCEPT ![f] = "gone"]
    /\ UNCHANGED <<title, live, nextId, draft, revs, library, view, page,
                   review, proof, used>>

Next ==
    \/ FieldChange
    \/ \E d \in Designers :
          \/ Arrive(d) \/ Refused(d)
          \/ Builder(d) \/ Save(d) \/ Preview(d) \/ Publish(d) \/ Reset(d) \/ Restore(d)
          \/ OfferTemplate(d) \/ SaveTemplate(d) \/ Review(d) \/ Apply(d)
          \/ AddItem(d) \/ AddAll(d) \/ EditItem(d) \/ DeleteItem(d) \/ EditSettings(d)

Spec == Init /\ [][Next]_vars

-----------------------------------------------------------------------------
\* The rows and the pages are well formed, and no id is given twice.
TypeOK ==
    /\ fields \in Schemas
    /\ title \in Titles
    /\ nextId \in Nat \ {0}
    /\ live \subseteq ItemRows
    /\ \A r \in live : r.id < nextId
    /\ \A r, s \in live : r.id = s.id => r = s
    /\ draft # None => draft \in DraftRows /\ draft.tested \in {None, draft.config}
    /\ revs \in Seq(Configs)
    /\ templates \subseteq Seq(Items)
    /\ \A d \in Designers : page[d] # None =>
          draft # None /\ page[d].version \in 1..draft.version

\* Publications of a step.
Published == Len(revs') = Len(revs) + 2
Actor == CHOOSE d \in Designers : view[d] # None /\ view'[d] = None

\* "Saving a draft ... A concurrent draft save is rejected" (docs): whoever
\* replaces what the draft says - a save, a reset, a restored revision or a
\* template - had been shown exactly what is replaced.
NothingReplacedUnseen ==
    [][(draft # None /\ draft'.config # draft.config) =>
          LET d == Actor IN
          \/ page[d] # None /\ page[d].config = draft.config
          \/ review[d] # None /\ review[d].replaces = draft.config]_vars

\* What is published passed its last preview, and passed it on the live form
\* and schema the draft still rests on.
AsPreviewed ==
    /\ proof # None /\ proof.passed
    /\ proof.config = revs'[Len(revs')]
    /\ proof.base = draft.base

\* A publication replaces the form its draft was started from: whatever was
\* changed on the live form before the publication was asked for stops it, and
\* a change of the form's settings does until the last moment.
OnItsBase ==
    /\ revs'[Len(revs) + 1] = draft.base.config
    /\ title = draft.base.config.title
    /\ view[Actor].fields = draft.base.schema

PublishedAsReviewed == [][Published => AsPreviewed /\ OnItsBase]_vars

\* Where no one changed the items while the publication waited, the form is
\* what was published, no item twice, and both versions are kept.
PublishedWhole ==
    [][(Published /\ view[Actor].live = live) =>
          LET now == InOrder(live') IN
          /\ [i \in DOMAIN now |-> Content(now[i])] = draft.config.items
          /\ title' = draft.config.title
          /\ revs'[Len(revs) + 1] = Snapshot(live)
          /\ revs'[Len(revs')] = draft.config]_vars

\* A review is good for one application (a repeated submission is refused),
\* and the draft then rests on the live form that was reviewed.
AppliedOnce ==
    used' # used =>
        LET stamp == used'[Len(used')] IN
        /\ stamp \notin Range(used)
        /\ draft'.base = stamp.live

\* A template is saved as what the page was opened on said, live or draft.
SavedAsOffered ==
    \A items \in templates' \ templates :
        LET shown == offer[Actor] IN
        items \in {shown.live.config.items} \cup
                  (IF shown.draft = None THEN {} ELSE {shown.draft.config.items})

TemplatesAsShown == [][AppliedOnce /\ SavedAsOffered]_vars

\* Whatever names a version of the draft names one content: the pages, the
\* reviews and the snapshots of the requests under way.
Names(version, config) == version = draft.version => config = draft.config
OneContentPerVersion ==
    draft # None => \A d \in Designers :
        /\ page[d] # None => Names(page[d].version, page[d].config)
        /\ review[d] # None => Names(review[d].stamp.draft, review[d].replaces)
        /\ view[d] # None /\ view[d].draft # None =>
              Names(view[d].draft.version, view[d].draft.config)

\* The form, its draft and whatever names a version of it are well formed.
VersionsSound == TypeOK /\ OneContentPerVersion

\* docs/admin-configuration.md: publishing "updates the form in one
\* transaction, records its previous and new versions".  The previous version
\* may be another one than the form had: an item added, edited or removed
\* while the publication waited for the form's lock.
PreviousVersionKept == [][Published => revs'[Len(revs) + 1] = Snapshot(live)]_vars

=============================================================================
