-------------------------------- MODULE Intake --------------------------------
(* What comes in from outside: a pull source polling a peer page by page, a   *)
(* webhook whose sender posts to us behind a shared rate limit, a mailbox     *)
(* turned into tickets and comments, and records created on a schedule.  All  *)
(* of them write one table, find the row to update by a key, and number what  *)
(* they create from one counter.                                              *)
(*                                                                            *)
(* Workers are scheduler processes, designers pressing Run now, and web       *)
(* processes; each step is one query, HTTP exchange or transaction.           *)
EXTENDS Integers, Sequences, FiniteSets, FiniteSetsExt

CONSTANTS
    Workers, None,
    Keys,           \* values of the match key
    Mails,          \* messages in the mailbox
    MaxCursor,      \* bound: changes of the remote table
    MaxRows,        \* bound: rows of the local table
    MaxWork,        \* bound: jobs started
    MaxTroubles,    \* bound: kinds of trouble in one behaviour
    Limit, Window   \* the webhook's rate limit, its window in ticks

ASSUME IntakeAssumption ==
    /\ IsFiniteSet(Workers) /\ Workers # {} /\ None \notin Workers
    /\ IsFiniteSet(Keys) /\ Keys # {}
    /\ MaxCursor \in Nat /\ MaxRows \in Nat /\ MaxWork \in Nat /\ MaxTroubles \in Nat
    /\ Limit \in Nat /\ Window \in Nat

VARIABLES
    env,        \* which door is in use, and what its surroundings may do
    remote,     \* the cursor of each row of the peer's table, 0 for none
    wm,         \* PullSource.watermark, 0 for NULL
    rows,       \* the local table in the order of its keys: [key, cursor, number]
    next,       \* Sequence.next
    holder,     \* the transaction that holds the counter's row
    hits,       \* RateHit rows no older than the window: [no, age]
    mail,       \* the messages: [subject, known, auto, seen]
    handled,    \* how often each message was commented or made a ticket
    pc, job,
    \* History.
    work,       \* jobs started
    failed,     \* records and messages whose handling raised and was logged
    burnt,      \* numbers taken by creates that failed or died
    late,       \* changes whose cursor a pull had come to when they were made
    lost        \* messages that went with a fetch that failed or a worker that died

vars == <<env, remote, wm, rows, next, holder, hits, mail, handled, pc, job, work,
          failed, burnt, late, lost>>

Doors == {"pull", "hook", "mail", "recurring"}
Troubles == {"overlap", "failing", "crashes", "flaky", "deletes", "drift"}

\* Only pulls have a peer; a mailbox has a server.
Environments ==
    {e \in [door : Doors, upsert : BOOLEAN, trouble : SUBSET Troubles] :
        /\ Cardinality(e.trouble) <= MaxTroubles
        /\ e.door # "pull" => e.trouble \subseteq {"overlap", "failing", "crashes", "flaky"}
        /\ e.door \in {"hook", "recurring"} => "flaky" \notin e.trouble
        /\ e.door \in {"mail", "recurring"} => ~e.upsert}
May(t) == t \in env.trouble

NewJob == [key |-> None, cursor |-> 0, hit |-> 0, number |-> 0, page |-> 1,
           seen |-> 0, new |-> 0, wrote |-> FALSE, left |-> <<>>, unseen |-> {}, age |-> 0]

Goto(w, l) == pc' = [pc EXCEPT ![w] = l]
Idle(w) == pc[w] = "idle"
Done(w) == Goto(w, "idle") /\ job' = [job EXCEPT ![w] = NewJob]

\* A claim, a short period and a patient sender keep a door to one worker;
\* Run now, Poll now and a sender in a hurry do not.
Free(w) == Idle(w) /\ (May("overlap") \/ \A v \in Workers : Idle(v)) /\ work < MaxWork

outside == <<env, remote, late, mail, lost>>
table == <<rows, next, holder, burnt>>

-----------------------------------------------------------------------------
(* The peer.                                                                  *)
Present == {k \in Keys : remote[k] > 0}
LastCursor == Max({remote[k] : k \in Keys})

\* A pull has come to the cursor c, which no later one will look at again.
CameTo(c) ==
    \/ c <= wm
    \/ \E w \in Workers : \/ c <= job[w].new \/ c <= job[w].cursor
                         \/ \E i \in 1..Len(job[w].left) : c <= job[w].left[i][2]

\* The cursor is the time of the change; the next one may fall into its instant.
RemoteWrite ==
    /\ env.door = "pull"
    /\ May("drift") \/ \A w \in Workers : pc[w] # "fetch"
    /\ \E k \in Keys, c \in {LastCursor, LastCursor + 1} \cap 1..MaxCursor :
          /\ remote' = [remote EXCEPT ![k] = c]
          /\ late' = IF CameTo(c) THEN late \cup {<<k, c>>} ELSE late
    /\ UNCHANGED <<env, wm, table, hits, mail, lost, handled, pc, job, work, failed>>

RemoteDelete ==
    /\ May("deletes")
    /\ \E k \in Present : remote[k] < LastCursor /\ remote' = [remote EXCEPT ![k] = 0]
    /\ UNCHANGED <<env, wm, table, hits, mail, late, lost, handled, pc, job, work, failed>>

-----------------------------------------------------------------------------
(* A pull.                                                                    *)
Poll(w) ==
    /\ env.door = "pull" /\ Free(w)
    /\ job' = [job EXCEPT ![w].seen = wm]
    /\ Goto(w, "fetch") /\ work' = work + 1
    /\ UNCHANGED <<outside, wm, table, hits, handled, failed>>

\* sort = cursor, order = desc; the n-th page has one row, an n-th newest: the
\* order among rows of one cursor is left to the peer's database.
Newer(k) == {l \in Present : remote[l] > remote[k]}
NoOlder(k) == {l \in Present : remote[l] >= remote[k]}
Page(n) == {k \in Present : Cardinality(Newer(k)) < n /\ n <= Cardinality(NoOlder(k))}
Collected(w) == {job[w].left[i][1] : i \in 1..Len(job[w].left)}

\* collected, reversed at the end: oldest first.
Collect(got, k) == <<<<k, remote[k]>>>> \o got

\* Mutant: off by one, the last page is never looked at.
PageEndsEarly(n, seen) ==
    n >= Cardinality(Present) \/ \A k \in Page(n) : remote[k] <= seen

\* The page is empty, or down to what was seen already.
PageEnds(n, seen) == \A k \in Page(n) : remote[k] <= seen

\* _peer_records: one page; a page that fails ends the fetch with what there is.
\* Unless the peer's rows move between the pages, no row is on two of them.
FetchPage(w) ==
    /\ pc[w] = "fetch"
    /\ LET n == job[w].page IN
       \/ May("flaky") /\ Goto(w, "load") /\ UNCHANGED job
       \/ /\ PageEnds(n, job[w].seen)
          /\ Goto(w, "load") /\ UNCHANGED job
       \/ /\ ~PageEnds(n, job[w].seen)
          /\ \E k \in Page(n) :
                /\ May("drift") \/ k \notin Collected(w)
                /\ job' = [job EXCEPT ![w].left = Collect(@, k), ![w].page = n + 1]
          /\ IF n >= Cardinality(Present) THEN Goto(w, "load") ELSE UNCHANGED pc
    /\ UNCHANGED <<outside, wm, table, hits, handled, work, failed>>

\* The keys by their cursors.
Sorted(ks) == {s \in [1..Cardinality(ks) -> ks] :
                 \A i, j \in DOMAIN s :
                    i < j => s[i] # s[j] /\ remote[s[i]] <= remote[s[j]]}

\* _rest_records without pagination: everything above the watermark, sorted.
FetchAll(w) ==
    /\ pc[w] = "fetch" /\ job[w].page = 1
    /\ \E new \in Sorted({k \in Present : remote[k] > job[w].seen}) :
          job' = [job EXCEPT ![w].left = [i \in DOMAIN new |-> <<new[i], remote[new[i]]>>]]
    /\ Goto(w, "load")
    /\ UNCHANGED <<outside, wm, table, hits, handled, work, failed>>

\* run_one looks the source up again after the round trip; a session that has it
\* gives it back as it was loaded before the fetch.
LoadSource(w) ==
    /\ pc[w] = "load"
    /\ \E stored \in {wm, job[w].seen} : job' = [job EXCEPT ![w].new = stored]
    /\ Goto(w, "next")
    /\ UNCHANGED <<outside, wm, table, hits, handled, work, failed>>

\* _map_record gives the record its key; every record maps to something here.
NextRecord(w) ==
    /\ env.door = "pull" /\ pc[w] = "next" /\ job[w].left # <<>>
    /\ LET r == Head(job[w].left) IN
       job' = [job EXCEPT ![w].left = Tail(@), ![w].key = r[1], ![w].cursor = r[2],
                          ![w].hit = 0, ![w].wrote = TRUE]
    /\ Goto(w, IF env.upsert THEN "find" ELSE "number")
    /\ UNCHANGED <<outside, wm, table, hits, handled, work, failed>>

\* The watermark the pass has come to is written over whatever is there; without
\* a record in between, the unchanged attribute is not.
FinishPull(w) ==
    /\ env.door = "pull" /\ pc[w] = "next" /\ job[w].left = <<>>
    /\ wm' = IF job[w].wrote THEN job[w].new ELSE wm
    /\ Done(w)
    /\ UNCHANGED <<outside, table, hits, handled, work, failed>>

-----------------------------------------------------------------------------
(* A webhook.                                                                 *)
Counted == Cardinality(hits)

Tick ==
    /\ env.door = "hook" /\ hits # {}
    /\ hits' = {[h EXCEPT !.age = @ + 1] : h \in {h \in hits : h.age + 1 < Window}}
    /\ job' = [w \in Workers |->
                 IF Idle(w) THEN job[w] ELSE [job[w] EXCEPT !.age = Min({@ + 1, Window})]]
    /\ UNCHANGED <<outside, wm, table, handled, pc, work, failed>>

\* Mutant: the limit is passed before it bites.
UnderLimitLate == Limit = 0 \/ Counted <= Limit

\* A limit of zero switches the limiter off.
UnderLimit == Limit = 0 \/ Counted < Limit

\* receive: hit_ok counts first ...
Deliver(w) ==
    /\ env.door = "hook" /\ Free(w)
    /\ work' = work + 1
    /\ \/ ~UnderLimit /\ UNCHANGED <<pc, job>>
       \/ /\ UnderLimit /\ Goto(w, "hit")
          /\ \E k \in Keys : job' = [job EXCEPT ![w].key = k, ![w].cursor = work + 1]
    /\ UNCHANGED <<outside, wm, table, hits, handled, failed>>

\* ... and records the hit in a transaction of its own, as old as the count;
\* then the size, signature and payload may be refused.
Hit(w) ==
    /\ pc[w] = "hit"
    /\ hits' = IF Limit > 0 /\ job[w].age < Window
               THEN hits \cup {[no |-> job[w].cursor, age |-> job[w].age]} ELSE hits
    /\ \/ Done(w)
       \/ Goto(w, IF env.upsert THEN "find" ELSE "number") /\ UNCHANGED job
    /\ UNCHANGED <<outside, wm, table, handled, work, failed>>

-----------------------------------------------------------------------------
(* A mailbox.                                                                 *)
\* _imap_fetch: the search ...
SearchMail(w) ==
    /\ env.door = "mail" /\ Free(w)
    /\ job' = [job EXCEPT ![w].unseen = {m \in Mails : ~mail[m].seen}]
    /\ Goto(w, "download") /\ work' = work + 1
    /\ UNCHANGED <<outside, wm, table, hits, handled, failed>>

\* What worker w has in its hands.
Carried(w) == {m \in Mails : job[w].key = m \/ m \in Collected(w)}

\* ... then message by message, fetched and flagged, whether or not the fetch
\* brought anything.  An IMAP error ends the fetch with nothing.
Download(w) ==
    /\ pc[w] = "download"
    /\ \/ /\ job[w].unseen = {} /\ Goto(w, "next") /\ UNCHANGED <<mail, lost, job>>
       \/ \E m \in job[w].unseen :
            /\ mail' = [mail EXCEPT ![m].seen = TRUE]
            /\ \/ /\ job' = [job EXCEPT ![w].unseen = @ \ {m}, ![w].left = Append(@, <<m, 0>>)]
                  /\ UNCHANGED lost
               \/ /\ May("flaky")
                  /\ job' = [job EXCEPT ![w].unseen = @ \ {m}]
                  /\ lost' = lost \cup {m}
            /\ UNCHANGED pc
       \/ /\ May("flaky")
          /\ lost' = lost \cup Carried(w)
          /\ Done(w) /\ UNCHANGED mail
    /\ UNCHANGED <<env, remote, late, wm, table, hits, handled, work, failed>>

\* _handle: what becomes of a message.  Auto-replies and numberless mail of
\* unknown senders are dropped.
Fate(m) ==
    CASE mail[m].auto -> "drop"
      [] ~mail[m].auto /\ mail[m].subject = "ticket" -> "comment"
      [] OTHER -> IF mail[m].known THEN "number" ELSE "drop"

NextMail(w) ==
    /\ env.door = "mail" /\ pc[w] = "next" /\ job[w].left # <<>>
    /\ LET m == Head(job[w].left)[1] IN
       /\ job' = [job EXCEPT ![w].left = Tail(@), ![w].key = m]
       /\ IF Fate(m) = "drop" THEN UNCHANGED pc ELSE Goto(w, Fate(m))
    /\ UNCHANGED <<outside, wm, table, hits, handled, work, failed>>

\* comments.add, public or an internal guest note.
AddComment(w) ==
    /\ pc[w] = "comment"
    /\ handled' = [handled EXCEPT ![job[w].key] = @ + 1]
    /\ Goto(w, "next")
    /\ UNCHANGED <<outside, wm, table, hits, job, work, failed>>

MailboxDone(w) ==
    /\ env.door = "mail" /\ pc[w] = "next" /\ job[w].left = <<>>
    /\ Done(w)
    /\ UNCHANGED <<outside, wm, table, hits, handled, work, failed>>

-----------------------------------------------------------------------------
(* A record created on a schedule.                                            *)
RunRecurring(w) ==
    /\ env.door = "recurring" /\ Free(w)
    /\ \E k \in Keys : job' = [job EXCEPT ![w].key = k]
    /\ Goto(w, "number") /\ work' = work + 1
    /\ UNCHANGED <<outside, wm, table, hits, handled, failed>>

-----------------------------------------------------------------------------
(* Writing through record_service.                                            *)
Matching(k) == {i \in 1..Len(rows) : rows[i].key = k}

\* Mutant: what follows a bad message is given up with it.
FailedEnds(w) ==
    /\ failed' = failed \cup {<<job[w].key, job[w].cursor>>}
    /\ Done(w)

\* One record or message failed: the pull and the mailbox go on with the next.
Failed(w) ==
    /\ failed' = failed \cup {<<job[w].key, job[w].cursor>>}
    /\ IF env.door \in {"pull", "mail"} THEN Goto(w, "next") /\ UNCHANGED job ELSE Done(w)

\* Mutant: only the newest row is looked at.
LookupNewest(k) == Matching(k) \cap {Len(rows)}

\* find_id_by_key raises when more than one row matches.
Lookup(k) == Matching(k)

FindRow(w) ==
    /\ pc[w] = "find"
    /\ LET found == Lookup(job[w].key) IN
       \/ Cardinality(found) > 1 /\ Failed(w)
       \/ /\ Cardinality(found) = 1
          /\ job' = [job EXCEPT ![w].hit = CHOOSE i \in found : TRUE]
          /\ Goto(w, "update") /\ UNCHANGED failed
       \/ found = {} /\ Goto(w, "number") /\ UNCHANGED <<job, failed>>
    /\ UNCHANGED <<outside, wm, table, hits, handled, work>>

\* Mutant: the counter is read without a lock.
TakeNumberUnlocked(w) ==
    /\ pc[w] = "number" /\ Len(rows) < MaxRows
    /\ holder' = w
    /\ job' = [job EXCEPT ![w].number = next]
    /\ Goto(w, "numbered")
    /\ UNCHANGED <<outside, wm, rows, next, burnt, hits, handled, work, failed>>

\* _next_autonumber: upsert, increment and read in one transaction.
TakeNumber(w) ==
    /\ pc[w] = "number" /\ Len(rows) < MaxRows
    /\ holder = None
    /\ holder' = w
    /\ job' = [job EXCEPT ![w].number = next]
    /\ Goto(w, "numbered")
    /\ UNCHANGED <<outside, wm, rows, next, burnt, hits, handled, work, failed>>

CommitNumber(w) ==
    /\ pc[w] = "numbered"
    /\ next' = job[w].number + 1 /\ holder' = None
    /\ Goto(w, "insert")
    /\ UNCHANGED <<outside, wm, rows, burnt, hits, job, handled, work, failed>>

\* A record that was written moves the pull on and answers the sender.
TakenIn(w) ==
    CASE env.door = "pull" ->
           /\ job' = [job EXCEPT ![w].new = Max({@, job[w].cursor})]
           /\ Goto(w, "next") /\ UNCHANGED handled
      [] env.door = "mail" ->
           /\ handled' = [handled EXCEPT ![job[w].key] = @ + 1]
           /\ Goto(w, "next") /\ UNCHANGED job
      [] OTHER -> Done(w) /\ UNCHANGED handled

\* INSERT; the number is spent if it fails.
InsertRow(w) ==
    /\ pc[w] = "insert"
    /\ \/ /\ rows' = Append(rows, [key |-> job[w].key, cursor |-> job[w].cursor,
                                   number |-> job[w].number])
          /\ TakenIn(w) /\ UNCHANGED <<burnt, failed>>
       \/ May("failing") /\ burnt' = burnt + 1 /\ Failed(w) /\ UNCHANGED <<rows, handled>>
    /\ UNCHANGED <<outside, wm, next, holder, hits, work>>

UpdateRow(w) ==
    /\ pc[w] = "update"
    /\ \/ /\ rows' = [rows EXCEPT ![job[w].hit].cursor = job[w].cursor]
          /\ TakenIn(w) /\ UNCHANGED failed
       \/ May("failing") /\ Failed(w) /\ UNCHANGED <<rows, handled>>
    /\ UNCHANGED <<outside, wm, next, holder, burnt, hits, work>>

\* The process dies: open transactions roll back, what was fetched is gone.
Crash(w) ==
    /\ May("crashes") /\ ~Idle(w)
    /\ holder' = IF holder = w THEN None ELSE holder
    /\ burnt' = IF pc[w] = "insert" THEN burnt + 1 ELSE burnt
    /\ lost' = lost \cup Carried(w)
    /\ Done(w)
    /\ UNCHANGED <<env, remote, late, mail, wm, rows, next, hits, handled, work, failed>>

-----------------------------------------------------------------------------
Init ==
    /\ env \in Environments
    /\ remote = [k \in Keys |-> 0] /\ wm = 0
    /\ rows = <<>> /\ next = 1 /\ holder = None
    /\ hits = {}
    /\ mail \in [Mails -> IF env.door = "mail"
                          THEN [subject : {"ticket", "none"}, known : BOOLEAN,
                                auto : BOOLEAN, seen : {FALSE}]
                          ELSE {[subject |-> "none", known |-> FALSE, auto |-> TRUE,
                                 seen |-> TRUE]}]
    /\ handled = [m \in Mails |-> 0]
    /\ pc = [w \in Workers |-> "idle"] /\ job = [w \in Workers |-> NewJob]
    /\ work = 0 /\ failed = {} /\ burnt = 0 /\ late = {} /\ lost = {}

Step(w) ==
    \/ Poll(w) \/ FetchPage(w) \/ FetchAll(w) \/ LoadSource(w) \/ NextRecord(w)
    \/ FinishPull(w)
    \/ Deliver(w) \/ Hit(w)
    \/ SearchMail(w) \/ Download(w) \/ NextMail(w) \/ AddComment(w) \/ MailboxDone(w)
    \/ RunRecurring(w)
    \/ FindRow(w) \/ TakeNumber(w) \/ CommitNumber(w) \/ InsertRow(w) \/ UpdateRow(w)

Next ==
    \/ RemoteWrite \/ RemoteDelete \/ Tick
    \/ \E w \in Workers : Step(w) \/ Crash(w)

Spec == Init /\ [][Next]_vars

-----------------------------------------------------------------------------
(* Properties.                                                                *)

\* Rows, counters and jobs hold what their columns allow.
TypeOK ==
    /\ wm \in 0 .. MaxCursor
    /\ rows \in Seq([key : Keys \cup Mails, cursor : Nat, number : Nat \ {0}])
    /\ next \in Nat \ {0} /\ holder \in Workers \cup {None}
    /\ \A w \in Workers : pc[w] = "numbered" => holder = w

\* Automatic numbers are unique however many processes create at once.
NumbersUnique ==
    \A i, j \in 1..Len(rows) : i # j => rows[i].number # rows[j].number

\* ... and none is skipped but by a create that failed or died with it.
NumbersAccounted ==
    next - 1 = Len(rows) + burnt + Cardinality({w \in Workers : pc[w] = "insert"})

\* What is in the table and the counter, whoever creates.
NumbersSound == TypeOK /\ NumbersUnique /\ NumbersAccounted

\* While one worker at a time serves a door in upsert mode, no key is taken in
\* twice, whatever failed or died before.
OneCopy ==
    env.upsert /\ ~May("overlap") => \A k \in Keys : Cardinality(Matching(k)) <= 1

UpToDate(k) == \E i \in Matching(k) : rows[i].cursor = remote[k]

Settled(k) == UpToDate(k) \/ <<k, remote[k]>> \in failed

\* A pull's watermark never passes a change of the peer that was neither taken
\* in nor logged as failed, whatever failed or died; but for a change in the
\* very instant a pull had come to, and unless the peer's rows moved between its
\* pages, a page was refused, or a second pull ran.
NothingMissed ==
    env.trouble \subseteq {"failing", "crashes"} =>
        \A k \in Present : remote[k] <= wm => Settled(k) \/ <<k, remote[k]>> \in late

Ascending(batch) ==
    \A i, j \in 1..Len(batch) : i < j => batch[i][2] <= batch[j][2]

\* A pull writes what it collected oldest first, so that no version of a row is
\* written over a newer one; unless the peer's rows moved between its pages.
OldestFirst ==
    env.door = "pull" /\ ~May("drift") => \A w \in Workers : Ascending(job[w].left)

\* What a pull takes in is complete and in order.
PullComplete == NothingMissed /\ OldestFirst

\* The limiter lets at most one call too many in per further worker.
RateBounded ==
    Limit > 0 => Counted <= Limit + IF May("overlap") THEN Cardinality(Workers) - 1 ELSE 0

\* No message becomes two comments or tickets while one worker reads the box.
HandledOnce == ~May("overlap") => \A m \in Mails : handled[m] <= 1

Waiting(m) == \E w \in Workers : m \in Carried(w)
Dealt(m) == handled[m] > 0 \/ <<m, 0>> \in failed \/ Fate(m) = "drop"

\* A message that is flagged as seen is still to be handled, is handled, was one
\* to drop, or went with the fetch or the worker that had it; one that fails
\* loses itself only.
MailKept ==
    \A m \in Mails : mail[m].seen => Dealt(m) \/ Waiting(m) \/ m \in lost

\* Every message is handled, once.
MailHandled == HandledOnce /\ MailKept

(* What the code says of itself and does not keep.                            *)

\* Each record of the peer is taken in (pull.py:5), with no trouble at all.
EachTaken ==
    env.trouble = {} => \A k \in Present : remote[k] <= wm => Settled(k)

\* What was collected is oldest first (pull.py:182), whatever the peer does.
AlwaysOldestFirst == env.door = "pull" => \A w \in Workers : Ascending(job[w].left)

\* No message that was flagged is lost (mailbox.py:11), but for what a worker
\* that dies has with it.
NothingLost ==
    ~May("crashes") => \A m \in Mails : mail[m].seen => Dealt(m) \/ Waiting(m)

=============================================================================
