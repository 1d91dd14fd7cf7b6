# Biggy in TLA+

Biggy is a low-code database front end: designers define tables, forms, status
workflows, approvals, triggers, feeds and SLA policies in the browser, and users
edit records through generated forms, a REST API and a customer portal.  It is a
Flask application over MariaDB/MySQL that may run in several web processes at
once, next to one or more schedulers.  This directory holds TLA+ models of its
core logic, TLC configurations that check them on small instances, and TLAPS
proofs of what matters most for every instance.

## What makes this code hard

* **Every web request and every scheduler pass is a process of its own.**
  `app/db.py` gives each thread a session; its first query takes a snapshot of the
  `app_*` tables (REPEATABLE READ), and everything it reads until it commits comes
  from there.  Records of user tables are read and written through *other*
  connections, each operation in its own transaction (`app/data_service.py`).  So a
  handler mixes one old view of its configuration and state with fresh record
  reads, and its writes land one by one.
* **Whether a stale write is refused depends on the server.**  MariaDB from 11.6.2
  on (`docker-compose.yml` uses `mariadb:11`) refuses to update a row that changed
  since the snapshot; MySQL and older MariaDB let the last writer win.  This is the
  constant `StaleWritesRefused`.
* **Side effects precede the commits that guard them**: e-mails, HTTP pushes, the
  application of an approved move.
* **Nothing runs once only because it should**: cron, a ticker per web worker and
  "Run now" buttons run the same jobs; some are claimed (`app/jobs.py`), some not.

## Inventory

| Part (source under `src/app/`) | State it keeps | Operations | What would make it wrong | Model |
|---|---|---|---|---|
| Status workflows, approvals (`workflow.py`, `approvals.py`) | transition graph; steps; requests with state and position; actions | divert a change, request, approve, reject, apply; edit steps | a move without its signatures, a lost or overturned decision, a stuck request | `Approvals`, `SignOff` |
| Job claim (`jobs.py`) | `last_run_at` of each job | `claim_due` | a job run twice, or never | `Feeds` |
| Feeds and connector (`feeds.py`, `connectors.py`) | watermark, last run; the peer's rows | scheduled pass, run now, push | a row skipped, or sent twice | `Feeds` |
| SLA clocks (`sla.py`), windows (`maintenance.py`) | a clock per record and policy; the state shown on the record | start, pause, resume, stop, sweep, escalate | a wrong outcome, a notice twice or never, a mixed-up row | `SlaClock` |
| Scheduler (`scheduler.py`) | none of its own | a pass over all due jobs with one `now`; recurring records | overlap of passes, an old `now` | `Feeds`, `SlaClock`, `Intake` |
| Record writes (`record_service.py`) | rows, attachments, trash, automatic numbers | create, update, remove, restore, destroy | half-done removals, dangling references, duplicate numbers | `Records`, `Intake` |
| Formulas and rollups (`formula.py`) | computed columns | recompute self, parent, children | totals that no longer add up | `Records` |
| Triggers (`triggers.py`) | rules | match, act in order, create records | endless chains, rules on stale rows | `Records` |
| Merge (`reconcile.py`), files (`file_store.py`) | references and links of two records; files | merge; upload, purge | references lost half way; orphaned or missing files | `Records` |
| Pulls, webhooks, mailboxes (`pull.py`, `hooks/`, `mailbox.py`) | watermark; upserted rows; flags on the mail server | poll, upsert, fetch, handle | records or mail skipped, lost or taken twice | `Intake` |
| Rate limiter (`rate_limit.py`) | hits in a window | count and insert | exceeded limits | `Intake` |
| Metadata (`metadata/models.py`) and the designer's one-row pages (`designer/routes.py`) | 28 tables of configuration that refer to each other | create, edit, delete | dangling references, cycles | `Catalogue` |
| Impact and health (`schema_impact.py`, `design_health.py`) | none | report | a deletion that touches more than was announced, a broken form not reported | `Inspection` |
| Schema changes (`metadata/schema_service.py`, `adopt.py`) | the database's tables beside the catalogue | add, rename, delete tables, fields, relations, constraints; adopt | rows without storage, storage without rows, foreign tables altered | `Schema` |
| Model export, import, examples, modules (`schema_io.py`, `itsm_modules.py`) | a file | export, wipe, import | references lost or mixed up on the way; a half-imported model | `SchemaIO`, `Schema` |
| Form drafts and templates (`form_design.py`, `designer/studio.py`, `template_library.py`) | draft, version, hashes, revisions, templates | save, preview, publish, reset, restore, review, apply | a lost edit, an untested publication | `Drafts` |
| Companies (`companies.py`) | a tree | subtree, edits | a cycle | `Catalogue` |
| UI, reports, dashboards, access checks, authentication | rows they display | read, check | - | the write paths only |

How they interact: a route (form, cell, bulk edit, API, portal) reads the record,
lets `approvals.plan_diversions` take gated status changes out of the write, checks
the rest with `workflow.check`, and writes through `record_service.update`, which
then *fires* triggers, event feeds and the SLA clocks (`_fire`).  `approvals.act`
applies an approved move through the same chokepoint.  The scheduler claims jobs
in their own rows and calls feeds, pulls, mailboxes and the SLA sweep; the sweep
and the writes share the clocks.  Pulls, webhooks, mailboxes and recurring records
create through `record_service`, and share its counter of automatic numbers.  The
designer's pages change the catalogue; the ones that change tables besides go
through `schema_service`, on connections that commit by themselves; forms are
changed live or through a draft that is published.

## Modules

| Module | What it is |
|---|---|
| `Approvals` | status workflow with sign-off: handlers on snapshots, five write paths, the designer's step edits |
| `SignOff` | the abstract promise of sign-off that `Approvals` implements |
| `ApprovalsProofs` | their theorems: signatures; decisions, the refinement, and gated moves |
| `Feeds` | the claim of a due job and the feed pass it guards |
| `FeedsProofs` | its theorems |
| `SlaClock` | one SLA clock, its handlers and its sweep |
| `SlaClockProofs` | its theorems |
| `Records` | two related tables behind the record service: writes, formulas, triggers, removal, merge, files |
| `RecordsProofs` | its theorems |
| `Intake` | a pull, a webhook with its limiter, a mailbox, recurring records, and the counter of automatic numbers |
| `IntakeProofs` | its theorems |
| `Catalogue` | the rows a designer configures, their references, and the requests that change one of them |
| `Inspection` | the reports on the catalogue; extends `Catalogue` |
| `SchemaIO` | the model's export and import as functions of the catalogue; extends `Catalogue` |
| `Schema` | what is stored in the database beside the catalogue, and the requests that change both; composes the three |
| `SchemaProofs` | its theorems for any designers: types, and tables of others |
| `CatalogueProofs` | its theorems for designers of whom none deletes beside another's request: a sound catalogue, complete reports, faithful exports; extends `SchemaProofs` |
| `Drafts` | the shared draft of a form, its publication, templates, and the live editor |
| `DraftsProofs` | its theorems |
| `MC...` | constants of the TLC instances |

Definitions named after a bug (`OpenAfterFirst`, `ClaimReadsOnly`, ...), each with a
comment that begins "Mutant:", are not part of the models.  Each is a plausible
mistake; put in place of the definition that follows it, it makes TLC report the
property `PROJECT.json` names for it.

### Approvals

| In the model | In the code |
|---|---|
| `status` | the status column of the records |
| `live`, `gone` | rows of `app_approval_step`, and deleted ones, whose ids do not return |
| `state`, `move`, `pos` | `app_approval_request`: state, record and from/to states, current position |
| `actions` | `app_approval_action` |
| `asked`, `applied` | history: the steps a request was created with; the requests whose move was written |
| `pc`, `job` | where each process's handler is; its inputs and its session's snapshot |
| `ActBegin`, `Reject`, `ApproveSibling`, `ApproveAdvance`, `ApproveFinal`, `Apply`, `Refused` | `approval_act` and `approvals.act`: the check, the action insert with the re-query of open steps, the four outcomes, and `_apply` after the commit |
| `EditBegin`, `EditRead` (`Divert`, `Direct`, `Decline`), `EditWrite`, `EditResnapshot`, `RequestTransition` | the write paths: snapshot, read and decide, write, or create or reuse a request; `EditResnapshot` is the commit of a save that also changes other fields |
| `AddStep`, `DeleteStep` | the designer's routes |
| `Fail` | a crash, a deadlock victim or an exception between two commits |

Steps and requests are numbered, since the code orders both by id.  Roles, users
and the designer override are one relation, `Approvers`.  Each request keeps its
record, so several records only multiply the states: one is used.

### Feeds

| In the model | In the code |
|---|---|
| `rows` | the source table; an id is taken at insert and seen at commit |
| `watermark`, `lastRun` | `app_feed.watermark`, `last_run_at` |
| `claimed`, `tried` | history: stamp of the latest claim; rows whose push was logged |
| `peer` | the peer's copies of each row |
| `Begin`, `Claim`, `Load`, `List`, `LookUp`, `Send`, `Finish` | `run_due` takes its `now`; `claim_due`; the reload after its commit; `list_rows_after`; `connectors.push`'s GET, then PATCH or POST; the final write |
| `RunNow` | `designer.feed_run`, which does not claim |
| `Crash` | the process dies, or an exception aborts the pass |

Time is modelled by ages: a stamp is known by the ticks since it was taken, and two
stamps are compared by their ages.  Ages stop counting where every pass finds the
stamp due, so the model is finite without a bound on time.  `MaxAge` bounds the
length of a pass, which is what matters: with `MaxAge < Period` passes end before
they are due again, with `MaxAge >= Period` they overlap.  A request that a dead process
left in flight takes effect when it dies, if at all, not later.

### SlaClock

| In the model | In the code |
|---|---|
| `status` | what the policy makes of the record's status (`_applies`, `_classify`): run, pause, stop, none |
| `shown` | the state written back to the record; `on_track` and `due_soon` are one |
| `clock` | the `app_sla_clock` row: state, due, remaining, breached at, notified, level |
| `window` | the instants `maintenance.is_active` is true for |
| `spent`, `sent`, `fired` | history: time in running statuses; notices; deliveries of each level |
| `Write`, `React`, `Show`, `Settle` | the record's write; `_apply`; the write-back, a transaction of its own; the commit |
| `SweepBegin`, `SweepList`, `SweepReload`, `SweepMark`, `SweepCommit` | `run_due`'s `now`; the list of running clocks; the reload after the commit for another clock; hold, breach or show; the commit |
| `ChainFire`, `ChainSkip`, `ChainCommit` | the second loop: one level per pass |
| `Flushed`, `Refused` | SQLAlchemy writes the changed columns into the row; the server may refuse |

The breach sweep handles many clocks; the others matter to this one only by the
commit that expires it (`SweepReload`) and the time they take.

### Records

| In the model | In the code |
|---|---|
| `design` | what a designer chose: trash or hard delete, a required reference, ON DELETE |
| `row` | rows of both tables: live, in the trash (`deleted_at`), gone |
| `ref`, `link` | the M:1 column of tasks; the junction table |
| `value`, `note`; `shown`, `total` | plain columns; a lookup() of tasks and a rollup() of projects, stored by `compute_values` |
| `att`, `disk` | `Attachment` rows; stored files |
| `todo` | the transactions the running request has still to commit |
| `Insert`, `WriteTask`, `WriteProject` | `record_service.create`, `update` with the row's own formulas |
| `RunRule`, `SkipRule`, `FireDone` | `triggers.fire`: rules by id, on the row as the earlier ones left it; a created record runs its own triggers first |
| `Ripple`, `RefreshOne` | `recompute_related` and what it recomputes |
| `RemoveRecord` (`Removal`), `Unlink`, `ClearFk`, `DropChildren`, `Mark`, `Delete`, `DeleteFile`, `Detach` | `remove`, `restore`, `destroy` and the calls they make |
| `MergeProjects` (`Merging`), `Repoint`, `SetLinks` | `reconcile.merge` |
| `CreateTask`, `EditTask`, `BulkEdit`, `Api...`, `ImportTasks`, ... | the routes that start a request |
| `Crash` | the process dies between two transactions |

One task table and one project table stand for any pair of related tables; the
formulas are the two kinds that read other rows.  Requests follow one another:
interleavings of record writes are the subject of `Approvals`, `SlaClock` and
`Intake`.  `stale` (history) holds the rows whose formulas the code leaves behind,
and `FormulasExact` is about all others.  They are: the parent a task was moved
away from; the children a project had when it went to the trash, and the project;
the children and the survivor of a merge; whatever a hard delete, SET NULL or a
destroy pointed at or was pointed at by; the parents of imported rows.

### Intake

| In the model | In the code |
|---|---|
| `env` | the door in use (pull, webhook, mailbox, recurring), upsert or insert, and up to two troubles: overlap, failing writes, crashes, a flaky peer or mail server, a deleting or drifting peer |
| `remote`, `mail` | the peer's rows by cursor, several of which may be the same (`updated_at`); the mailbox with its flags |
| `late`, `lost` | history: changes that came when a pull had come to their cursor (`CameTo`); messages that went with a fetch or a process |
| `wm`, `rows`, `next`, `holder`, `hits` | `PullSource.watermark`; the target table; `Sequence` and its row lock; the `RateHit` rows no older than the window, by age |
| `Page(n)` | what the peer answers for page n (a page of one row): an n-th newest row, the order among equal cursors being the database's, or none |
| `FetchPage`, `FetchAll`, `LoadSource`, `NextRecord`, `FinishPull` | `_peer_records`, `_rest_records`, and `run_one`, whose second look at the source may give what the session has or what is stored |
| `Deliver`, `Hit` | `hooks.receive`; the count and the insert of `hit_ok`, which a limit of zero switches off |
| `SearchMail`, `Download`, `NextMail`, `AddComment`, `MailboxDone` | `_imap_fetch`, which flags every message, also one whose fetch gave nothing, and may break off; and `_handle` |
| `RunRecurring` | `scheduler._run_recurring` |
| `FindRow`, `TakeNumber`, `CommitNumber`, `InsertRow`, `UpdateRow` | `find_id_by_key`, `_next_autonumber`, insert and update |

### Catalogue, Inspection, SchemaIO, Schema

| In the model | In the code |
|---|---|
| `cat` | every row of the configuration tables: its references; `Model` gives each column its target and what the database does with it on delete |
| `None`, `Gone` | NULL; the id of a row that was deleted (columns that are no foreign keys keep it) |
| `topic` | the classes a behaviour is about, with bounds on rows |
| `Create`, `Edit`, `Delete` and the actions built on them | the designer's pages, named as their routes |
| `Dependencies`, `Issue` | `schema_impact.dependencies`; `design_health.check_form` |
| `export_schema`, `import_schema`, `Loads`, `Wiped` | `schema_io` with its maps from old to new ids |
| `phys` | tables, columns, junctions, indexes that are stored; `Foreign` are those that were there before |
| `job` | a request under way: the steps left, and the rows it adds, sets, deletes, and has locked |
| `flush`, `commit`, `build`, `drop`, `rename`, `clear`, `wipe` | the steps: rows sent, committed; statements on tables, which commit by themselves |
| `deadlock_victim`, `crash`, refused statements (`Refused`, `Undo`) | what may go wrong, and what the code does about it |
| `torn` | ghost: what a request that stopped half way left unlike the catalogue |

A row keeps its key through export and import, because the map of ids is one to
one.  A table or field has its key for a name, so that a name given up can be
given again.  One-row requests do not overlap with anything (`Quiet`), a request
that changes the model as a whole (`Whole`: an import, an example, a module, an
adoption) does not overlap with any other (`Quiet`, `Alone`), and new requests are
made until one of them is left half way (`AllWhole`).  A request names a field and
its own table, but where `topic.of` has "misrouted": `field_delete` takes both from
the address and believes it.  The flags of a table are no references and are left
out; so nothing here notices that `table_duplicate` copies them without the columns
they stand for (`designer/routes.py:1118`).  Requests are refused, end as victims of a
deadlock and die where `topic.of` has "faults".  `SchemaAssumption` says what
there is to start with: catalogues whose references name rows, files of rows of the
exported classes, and tables of others with a name of their own and their columns.
`SoundStart` says that nothing is wrong with them: the catalogues are `Sane`, as an
empty one is, and the files were written of such catalogues, though parts of them
may be missing (`Readable`).  A file that somebody wrote by hand can bring anything.

### Drafts

| In the model | In the code |
|---|---|
| `fields`, `title`, `live` | the table's fields, the form's settings and its items |
| `draft`, `revs`, `templates` | `FormDraft` (config, version, base and tested hash), `FormRevision`, `FormTemplate` |
| `view` | the snapshot a request reads, from `load_user`'s query on |
| `page`, `offer`, `review` | what a designer's browser holds: the builder page, the template page, the signed review |
| `Arrive` | the first query of a request, before it waits for the form's lock |
| `Builder`, `Save`, `Preview`, `Publish`, `Reset`, `Restore` | `designer/studio.py` with `form_design.py` |
| `OfferTemplate`, `SaveTemplate`, `Review`, `Apply` | `designer/template_library.py` |
| `AddItem`, `AddAll`, `EditItem`, `DeleteItem`, `EditSettings`, `FieldChange` | the live editor, and changes of the table |

Hashes are the contents they hash.  The form's row and the draft are read FOR
UPDATE and are current; items and fields are plain reads and belong to the
snapshot.  This difference is what `Drafts_unseen` is about.

## Runs

`tlc -config <run>.cfg <module>`; the configurations are `MC<run>.cfg`.

| Run | Expect | Question and bounds |
|---|---|---|
| `Approvals_overlap` | holds | Two processes on stale snapshots that may die anywhere, server refuses stale writes; one request, while step 3 is deleted and added, and step 2 beside step 1, or two requests of steps 1 and 3.  Signatures complete and in order, a rejection cancels, decisions final, `SignOff` implemented, a gated move only by an approved request or by a write path that was overtaken after its reading |
| `Approvals_parallel` | violated | Two processes, two parallel steps.  Both sign at once, each handler sees the other's step open, the request stays pending (`approvals.py:178`) |
| `Feeds_claimed` | holds | Passes shorter than the period, crashes anywhere, upsert mode, three rows and a limit of two.  One pass at a time, no duplicates, the watermark only advances |
| `Feeds_overlap` | holds | Passes as long as the period, "Run now", a failing peer, create mode, a limit of one.  No committed row is passed over in silence, every one is tried in the end |
| `SlaClock_serial` | holds | One process, prompt handlers, a target of two, a chain of two levels, a window over the deadline or none, six units of time.  Clock, status and record agree, pauses keep the target, breaches are late, each level goes out once and in order |
| `SlaClock_refused` | holds | Two processes with stale reads and old times, server refuses stale writes, sweeps may die between notice and commit, a target of one, two levels.  No row is torn, no clock is reopened; breach, notice and levels come in order and none is skipped |
| `Records_crash` | holds | Every design, two projects, four tasks, a tag, a rule that sets a value and one that creates tasks, up to two requests that may die anywhere.  References hold, formulas are exact, files follow records, removals and merges lose nothing, chains end |
| `Intake_doors` | holds | Two workers, two keys or messages, two cursors, every pair of troubles; two pulls, or four jobs at another door.  Numbers unique and accounted for, no key twice while one worker looks it up, nothing missed but what came when a pull had come to its cursor, batches in order, the limit bounded, flagged mail handled once or its loss accounted for |
| `Schema_config` | holds | Two designers; 17 small catalogues, one for each part of the configuration with what it refers to, with one request at a time, and seven in which requests overlap, deadlock, are refused and die.  Catalogue and database differ only by what a stopped request left, references are kept or reported, deletions do what was announced, exports load and come back the same, foreign tables remain |
| `Schema_labels` | violated | One designer.  An import loses the label of a picker that is the column of a later relation (`schema_io.py:414`) |
| `Drafts_overlap` | holds | Two designers, two fields, two titles, two built-in templates, six requests.  Nothing is replaced unseen, publications are previewed, rest on their base and are whole, templates and reviews are what was shown |
| `Drafts_unseen` | violated | A direct edit of an item is committed while a publication waits for the lock: the recorded previous version is not what the form had (`form_design.py:127`) |

Several properties are conjunctions of named parts, with a comment on each:
`RowsSound`, `FilesKept`, `RemovalsKept`, `MergesKept`, `NumbersSound`,
`PullComplete`, `MailHandled`, `SidesAgree`, `CatalogueSound`, `ReportsComplete`,
`ExportsFaithful`, `PublishedAsReviewed`, `TemplatesAsShown`, `VersionsSound`,
`ClockMatchesRecord`, `EscalatedInOrder`, `BreachInOrder`, `ClockNeverTorn`.

A violated run checks one sentence of the repository against what the code does.  So
`LastSignatureDecides` fails where `SignedOff` and `RejectionCancels` hold: sign-off is
never given too early, but may be lost; and an export keeps what `ExportsFaithful`
says, which excepts the labels that `LabelsRoundTrip` is about (`LabelledByKey`).
Other sentences that the code does not keep have no run, and are listed below.  Where
a property that holds excuses such a case it does so by name: `PullComplete` by `late`,
`MailHandled` by `lost`, `GatedMoveIsSigned` by the write paths that were overtaken.

Why the bounds are enough for the cases of interest: two processes show every
pairwise race, and a race of three needs no code path that two do not take; three
steps have a parallel group and a later group; two requests are a duplicate and a
request on top of another, and are not combined with edits of steps (`MCSpec` of
`MCApprovals`), which only multiplies the states; a row limit below the number of
rows needs a second pass; six units of time contain start, pause, resume, breach and
both levels. `MaxCopies` and `Many` count copies and deliveries as none, one,
several, and `RoomForRequest` keeps handlers from needing a request id that is not
there. In `Records`, requests start either from nothing or from projects with a
task, a file and links, so that two of them suffice for a removal after a change and
a restore after a removal; four tasks leave room for a chain that hits `MaxDepth`.
In `Intake`, two cursors over two rows give rows that share one, a row that comes to
the watermark's cursor and one that is changed twice; two pulls (`MCSpec`) are a
first pass and one that overlaps, repeats or follows it, and four deliveries or
polls fill the limiter and its window twice.  In `Schema`, each catalogue has room
for two or three rows of each class it is about (deletion and reuse of a name need
two), and `AllWhole` ends a behaviour's requests after the first that stops half
way, since every later one starts from a database that differs from its catalogue.
`Together` (`MCSchema`) bounds what overlaps: nothing without "faults", and where
relations are made no request is under way while another has still to delete rows
(`DeletesAlone`), for there the references do break, as said below.  In `Drafts`,
six requests are two designers with a builder page, an edit and a preview between
them, and a publication that races one more request.  Symmetry is used for
processes, designers, keys, rows and titles, of which nothing tells one from
another, and for safety only.

### Further disagreements

These sentences of the repository are not kept by the code.  Each is stated as a
property, and TLC violates it when the run named is changed as described.

| Property | What happens | The sentence | To see it |
|---|---|---|---|
| `GraphKept` | the record leaves `from_state` while its request is pending, and `_apply` writes `to_state` without `workflow.check` (`approvals.py:210`) | "Designers bypass the per-transition *role* gate but not the graph itself (an illegal state change is a data-integrity error for everyone)" (`workflow.py:6-7`) | `Approvals_overlap` with one worker |
| `LastSignatureDecides` | the one open step of a request is deleted, and nobody decides the request (`designer/routes.py:3409`) | "the record stays in ``from_state`` until every step approves [...] or one rejects" (`metadata/models.py:838-840`) | `Approvals_overlap` with one worker |
| `OnePendingRequest` | two handlers find no pending request, and both insert one (`approvals.py:120`) | "Create (or reuse) a pending request for ``frm→to``" (`approvals.py:119`) | `Approvals_overlap` |
| `ApprovedIsApplied` | the process dies between the decision's commit and the move (`approvals.py:188`); no job takes it up | "When the last position approves, the transition is applied for real" (`approvals.py:9-10`) | `Approvals_overlap` with `FairSpec`, `Requests = {1}` and `Editable = {}` |
| `NoDuplicate` | a pass as long as the period is overtaken by the next, which reads the same rows; both find no row at the peer and create one (`feeds.py:154`) | "atomic claim so concurrent workers don't push the same rows twice" (`feeds.py:147`) | `Feeds_claimed` with `MaxAge = 2` |
| `MetMeansInTime` | a clock that overran in a window, or between two sweeps, is paused; what is left is clamped at 0, and it ends as met (`sla.py:114`) | "measures **24×7** wall-clock time (paused spans excluded) against the target" (`sla.py:5-6`) | `SlaClock_serial` |
| `NotifiedOnce` | a sweep dies between the notice and the commit of its mark (`sla.py:327`) | "Mark overdue running clocks breached + escalate (once)" (`sla.py:307`) | `SlaClock_serial` with `MayFail = TRUE` |
| `EachTaken` | a row is changed in the instant the watermark has come to; only what is strictly later is taken (`pull.py:79`) | "maps each remote record to local fields by **dotted path** and **upserts** it" (`pull.py:5-6`), with "a cursor field (e.g. id or updated_at)" (`templates/designer/pull_source_form.html:47`) | `Intake_doors` |
| `AlwaysOldestFirst` | rows move between two pages: one is collected twice, its older version behind the newer (`pull.py:179`) | "oldest-first so the watermark advances monotonically" (`pull.py:182`) | `Intake_doors` with `MaxCursor = 3` |
| `NothingLost` | a message is flagged whether or not its fetch gave anything, and an error part way drops what was fetched (`mailbox.py:65`) | "unknown or unauthorized senders land as an **internal guest note** so nothing is lost" (`mailbox.py:11-12`) | `Intake_doors` |
| `ForeignUntouched` | tracking is switched on for an adopted table, and its columns are added there (`designer/routes.py:2087`) | "Biggy never issues DDL against them" (`docs/schema-json-format.md:343-344`) | `Schema_labels` with `Seeds <- ForeignSeeds` |
| `SidesAgree` | a field is deleted at the address of another table, whose column of that name is dropped; its own column stays (`designer/routes.py:924`) | "Deleting it drops its column and stored values." (`templates/designer/schema_impact.html:13`) | `Schema_labels` with `Seeds <- CrossedSeeds` |

### Further hazards

These are real too, and the models show them when their constants or guards are
changed (and so they bound what is claimed above); no document says otherwise where
none is quoted.

* Approvals: with `StaleWritesRefused = FALSE` a concurrent vote overturns a decision
  (`approvals.py:157`), against "has already been decided".
* Feeds: a pass slower than the period writes its old `now` over a newer claim
  (`feeds.py:162`), so that the feed runs early, and puts the watermark back, so that
  rows are sent again; with `PeerMayFail` a refused lookup counts as "not there" and
  duplicates the row (`connectors.py:162`); with `CommitsInOrder = FALSE` a row that
  commits late, under a watermark that has passed its id, is never pushed
  (`data_service.py:100`).
* SLA clocks: with two workers, a clock that was met while the sweep was busy with
  another is reloaded and marked breached (`OutcomeFinal`; `sla.py:322`, against
  `sla.py:202` "terminal - leave as-is"); a record stopped late inside a maintenance
  window is marked breached by the write (`sla.py:130`, against
  `docs/designer-manual.md:170`), and a breach marked by a write is never notified
  although its escalation chain runs.  What `SlaClock_serial` leaves out: a process
  that dies between the clock's transaction and the one that shows its state leaves an
  old state on the record until the next write or sweep; and a sweep with an old `now`
  breaches late.
* Records: the rows `stale` lists; children of a required or CASCADE reference go
  without audit, triggers or purge of their files; a form offers projects that are in
  the trash.
* Intake: two overlapping deliveries or pulls both create, and afterwards the key
  matches two rows and every upsert of it fails; a crash loses mail that was fetched,
  and a refused page the older pages.
* Schema, two designers of whom one deletes beside the other's request: a relation
  made while its table is deleted is left with the id of a table that is gone, and
  then no export of the model can be read.
* Schema, what `torn` excuses: a crash between a statement and its commit leaves a
  column that its field lacks or a field that can never be deleted, for its column is
  not there; two requests for one name, of which the later drops by name what another
  has made since (`designer/routes.py:941`, `:1085`); concurrent additions of a first
  text field deadlock and leave a stray column (`:913`); an import that fails has lost
  the model it was to replace (`schema_io.py:254`).
* Catalogue: a role that approves steps may be deleted, users that rows refer to too;
  menu groups can become each other's parents; the impact page does not look at
  widgets, windows and mailboxes.
* Drafts: the snapshot behind `Drafts_unseen` also lets a field that is deleted while
  a publication waits stay on the form as a dangling item, and two concurrent direct
  edits of one item keep the last.

## Fairness

One run is about progress.  `Feeds_overlap` assumes weak fairness of time, of
starting passes (cron and the ticker start them for ever) and of a pass's own steps
(requests have timeouts).  `FairSpec` of `Approvals`, which no run uses, assumes weak
fairness of `Step(w)`: a handler that was started and does not die is run to its end
by its web worker; nobody is obliged to vote, and a handler that died is not started
again, since nothing does that.

## Proofs

`tlapm <module>Proofs.tla`.  The theorems hold for every value of the constants
that satisfies the modules' ASSUMEs; what a theorem assumes besides stands in its
statement, and is what the run that checks the property assumes, too.  Each
invariant named below was checked by TLC on the run's instance first.  In each
module `TypeCorrect` comes first, for the later steps need it.

**Approvals** (`ApprovalsProofs`).  `SignedOff` (an approved request has a
signature for each required step) is not inductive: a handler approves on a
snapshot, so one has to know what a snapshot can miss.  `SignOffInv` adds that
below a request's position, and below the position in a handler's snapshot,
everything required is signed (positions only grow, steps added later are not
required); that a snapshot holds every step the request still requires; and that
it holds no signature that was not given.  `VoteKeepsOrder`, `VoteKeepsRequests`
and `PositionComplete` are the three facts about a vote; `HandlerStep` covers all
steps that only move a handler.  The invariant does not assume that stale writes
are refused: signatures are complete on either server.  `DecisionFinalHolds` does,
and TLC shows it false without.

**Approvals, decisions** (`ApprovalsProofs`, second part).

* `RejectionCancelsHolds` assumes that stale writes are refused, or that handlers
  do not overlap (`OneHandler`: there is one process).  `DecisionsInv` adds that
  what is being applied was approved, is not applied yet and by nobody else.
* `HandlersImplementSignOff`: where stale writes are refused, `Spec` implements
  `SignOff!Spec` under the mapping of `Approvals`.  A vote, a decision, an
  application and a new request map to the step of that name, everything else to a
  stutter; `SignOffInv` and `DecisionsInv` give the guards of the abstract steps.
* `GatedMoveIsSignedHolds` assumes the same as `RejectionCancelsHolds`, and nothing of
  the number of processes, the steps or crashes.  `WritersInv` says of a write path
  that is about to write that it found the change ungated among the steps it knows
  (`WrittenUngated`): what it writes was free, or it was overtaken.

**Feeds** (`FeedsProofs`).  Minima and maxima of sets of rows exist because the
order of the naturals is well founded (`MinRow`, `MaxRow`).  Two groups follow
`TypeCorrect`:

* `NoneForgotten` assumes `CommitsInOrder` and nothing else: passes may overlap,
  die, fail and be started by hand.  `ForgottenInv` adds what a pass in flight
  knows: its watermark is a visible row, and all below a row of its batch is in the
  batch or was tried.  `BatchIsPrefix` is the fact about the row limit (a batch is
  a prefix of what is above the watermark), `PassedStays` the one about rows that
  commit later.
* `OneRunner`, `StampKept`, `ClaimsSpaced` and `WatermarkKept` assume
  `MaxAge < Period` and no manual runs.  `ExclusiveInv` says that the one running
  pass holds the latest claim, so the stamp it writes back is the one that is
  there, and a stamp that young is not due for anybody.  `NoDuplicate` assumes
  besides `Upsert` and a peer that answers; `UpsertInv` says that the answer to a
  lookup is still right when the row is written.  Without `MaxAge < Period` two
  passes may overlap (as in `Feeds_overlap`), and both may create the same row.

**SlaClock** (`SlaClockProofs`).

* `ClockNeverTornHolds` assumes `StaleWritesRefused`.  The columns agree in the row
  because they agree in every version a handler holds (`TornInv`), and because a
  commit replaces exactly the version that was read (`CommitExact`).
* `BreachInOrderHolds` assumes the same, for any number of processes that overlap, read
  stale and die anywhere, and a chain of any length.  `OrderInv` says that the row, and
  every version of it that a handler or sweep is about to write, is `Sound`: breached at
  its deadline and after it, its mark after a notice, its level after the deliveries up
  to it (`FiredInOrder`).  Times and deliveries only grow (`More`, `SoundLater`), a
  breach that stands is not moved (`StaysBreached`), and a commit replaces the version
  that was read, so an old version of the row cannot bring back an old level.

**Drafts** (`DraftsProofs`).  `InOrder` sorts items by the number of smaller ids;
that it is a sequence of all of them is shown by counting (`OrderedRows`).

* `VersionsInvariant`: a version says one thing.  Versions are held by pages,
  offers, reviews and open requests, and stay there while the draft moves on, so
  the invariant states that there is a *history* h, one content per version so far,
  with which all of them agree (`Known(h)`); a new version extends it.
* `NothingReplacedUnseen` follows: who gets past the version check holds a page or a
  review of this version, and so of this content.  `PublishedAsReviewed` needs that
  a draft marked as tested is what the last preview passed (`Previewed`);
  `TemplatesAsShown` that every review applied names an older version (`UsedOK`);
  `PublishedWhole` that the new rows, sorted by their ids, are the draft's items.
  None assumes anything about the number of designers, fields or requests.

**Intake** (`IntakeProofs`).

* `NumbersSound` (any door, any number of processes, crashes): `NumbersInv` adds
  that the number a create holds is the counter's until it commits it and below the
  counter after, and differs from that of every other create.
* `RateBounded`: `RateInv` counts those who passed the limiter and have not inserted
  their hit yet together with the hits.
* `OneCopy`: `Alone` (without overlap one worker at a time) makes the answer of a
  lookup right until the insert (`KeysInv`).
* `MailHandled`: `OnceInv` follows a message from the search through the batch to
  its comment or ticket, each place excluding the others; `KeptInv` says where a
  flagged message is, or that the fetch or the process that had it lost it.
  `MailMoves` describes a step at this door by what it does to the worker's job.
* `PullComplete`: `OrderInv` for the order, which needs only that the peer's rows do
  not move.  For completeness, `Pass` says what a pass in flight knows: while it
  fetches page n it has n - 1 rows that none left is newer than (`PageComplete`: when
  the pages end, everything newer than the watermark is in the batch); while it writes,
  everything up to what it has come to is settled or came late, and each record left
  covers the changes below it.  Crashes and failing records are among its steps, as in the run.

**Records** (`RecordsProofs`).  A request is a queue of transactions, so what makes
an invariant inductive is what the queue may hold.  `RecordsAssumption` is all that
is assumed: tables, rules, cap and number of requests are any.

* `Queued` orders any two steps: after one that ends rows comes none that needs a
  row, after a removal only removals, and what must follow at once is first.
* `RowsSoundHolds`: with that order, `RefsInv` can say that each step of the queue
  is `Sound`: the rows it needs are there, and stay there until it is its turn.
* `FilesKeptHolds`: `FilesInv` pairs files and attachment rows but for the one
  between its two transactions, and has the file of a record being deleted next.
* `RemovalsKeptHolds`: `DetachInv` places the steps before a project's mark;
  `AskedPending` keeps a step for each row asked about that is still in view, also
  past a refusal, which leaves exactly the removals (`AfterFailure`).
* `MergesKeptHolds`: `MergeInv` limits the queue of a merge to the steps a merge of
  these two projects can lead to, and says what is done before what (`Ahead`): no
  task points at the duplicate once the repoint is over, and a tag goes from it only
  when the survivor has it.
* `FormulasExactHolds`: in between, a row that is not known to be stale is `Settled`:
  its formula is exact, or a step that recomputes it is still to come (`Due`) and
  cannot be dropped by a refused deletion, or it is the duplicate of a merge, which
  ends in the trash or gone.  What a trigger writes is covered because a ripple to
  the project follows it (`FireInv`), and because the task cannot change its project
  before (`Unfired`, `RepointInv`).

**Schema** (`SchemaProofs`).  Any number of designers, requests refused, ended as
victims of a deadlock or lost in a crash.

* `SchemaInv` is inductive: the catalogue is finite and typed and puts no index on
  a table of others (`CatOK`); whatever is stored and was not there before is `Ours`,
  and so is every statement that a request has still to send; a request under way is
  `JobOK`: it has a step to take (`EndsWell`), adds rows whose references are of the
  right class (`NewOK`), sets columns that exist (`SetOK`) and locks what it added;
  and who changes the model as a whole is alone (`Lonely`).
* `TypeCorrect` is about `TypeOK`.  A cascade is computed by rounds; that it is closed
  under the foreign keys, and nothing less is, is shown by a growth argument
  (`GrowthEnds`, `CascadedIs`), and from that, that no foreign key is left behind by
  a deletion (`WithoutIs`), by a commit on top of what others committed since the
  request looked (`CommittedIs`), or in a request that somebody's commit made
  outdated (`OutdatedOK`).
* `ForeignKeptHolds`: a statement on a table that Biggy did not make adds the columns
  for tracking or is about a junction, at every request and in any file.

**Schema, the catalogue** (`CatalogueProofs`).  Any number of designers, with crashes
and refused statements, under `SoundStart`; the theorems have `[]DeletesAlone` as a
hypothesis, as the run has where relations are made.  Without it all three fail: a relation made while
its table is deleted is left with the id of a table that is gone, and then no export
of the model can be read.

* None of the three properties is inductive, for what a deletion leaves behind
  depends on columns they do not mention.  `Sane` has what the requests keep up
  together: fields are named of the row's own table, a column and its relation name
  each other and no other, an item shows a field or a relation without a column, and
  any set of companies has one that is below none of the set.
* `SaneInv` is inductive: the catalogue is sane, and so will it be after each request
  under way (`JobSane`).  Requests that only add or set are `Additive`: what they commit
  fits any catalogue that has what they looked at, and so still fits when others have
  added to it (`Later`, `AdditiveLater`, `SaneOthers`).  Of those that delete, adopt or
  import, of which there is one at a time, it is a promise: `Promise` is about the
  catalogue as it will be (`After`), and `JobSaneOn`, `SaneStop`, `SaneFlush` and
  `SaneWipe` show that no step of a request, no refusal and no death breaks it.  One
  lemma per request shows which of the two it is (`SaneFieldEdit`, `SaneRelationMn`,
  `SaneTableDelete`, ...); those of one row change the catalogue at once (`SanePlain`).
* A deletion takes away more than it was asked to.  `SaneDeleted` shows that a sane
  catalogue stays sane when what falls by cascade is gone, provided that nothing
  the requests look after still names a row of it (`Free`); each request that
  deletes is shown to see to that, and so is an import (`SaneWiped`).
* Imports: what a file brings is sane if the file is `Readable` (`ImportedSane`), for
  references are followed through the map of ids or dropped (`BroughtRow`).
* `CatalogueSoundHolds`: a walk up that comes back to its company would be a set of
  companies each of which is below one of them (`SaneTrees`).
* `ReportsCompleteHolds`: whatever a deletion changes falls with it or names a row
  that does, and the impact page lists both (`SubjectCovered`); an item left dangling
  is an `Issue` of its form (`SaneForms`).
* `ExportsFaithfulHolds`: a relation of a sane catalogue names two tables, so its
  export can be read; and a reference to a row of the file is mapped to itself, but for
  labels that are columns of relations (`LabelledByKey`).

**Proved and not run.**  The type invariants of `Approvals`, `Feeds` and `SlaClock`,
all strengthenings, `StampKept` and `ClaimsSpaced` hold for every value of the
constants; no run repeats them.

**Only model-checked.**  Liveness under fairness (`EveryRowTried`) is out of the
prover's reach.  Of the safety properties `SidesAgree` is not proved: it needs an
account of what each step of each request has stored so far, for requests that
overlap, and what `torn` is owed by each; `Schema_config` checks it.  `ClockMatchesRecord`, `TargetKept`, `BreachedMeansLate` and `EscalatedInOrder` speak
of one prompt process that does not die, which is less than what a theorem should
cover; `SlaClock_serial` checks them.

## Plan

1. `Approvals` with `SignOff`, `Feeds`, `SlaClock`, and their first proofs: done.
2. `Records`, `Intake`, the schema modules, `Drafts`: done.
3. Proofs of every safety property of `Approvals`, `Feeds`, `Records`, `Drafts` and
   `Intake`, of the refinement of `SignOff`, of `SlaClock` for processes that overlap,
   and of `Schema` but for `SidesAgree`: done.
4. Pure algorithms over bounded inputs, one module and one run: the order of form
   rules, allowed choices of a workflow, due and state tokens.

## Not modelled

Rendering, request parsing, access checks, authentication, encryption, settings,
reports and dashboards: pure functions of their inputs, or reads.  The text of SQL,
column types and conversions; what the database does with a statement is modelled
where a request depends on it.  The audit log and notifications, except where a
property counts them; watching a record.  Event feeds (pushed by `_fire` after a
write) have no state of their own.  File fields and CSV imports of records in
`Schema`; positions of items, menus and steps; races between edits of companies.
Records in the trash under pending approval requests: the code applies an approved
move to them, and no document says what it should do.
