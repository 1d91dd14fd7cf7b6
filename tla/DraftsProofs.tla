---------------------------- MODULE DraftsProofs ----------------------------
(* Proofs about Drafts, for any number of designers, requests, fields and     *)
(* templates.                                                                 *)
EXTENDS Drafts, TLAPS, FiniteSetTheorems

-----------------------------------------------------------------------------
(* The items of a form in the order of their ids. *)

RowsOK(rows) ==
    /\ rows \subseteq ItemRows
    /\ IsFiniteSet(rows)
    /\ \A r, s \in rows : r.id = s.id => r = s

\* The number of rows before a row numbers the rows from 0 without a gap.
LEMMA RowsAreNumbered ==
  ASSUME NEW rows, RowsOK(rows)
  PROVE  /\ Cardinality(rows) \in Nat
         /\ \A i \in 1..Cardinality(rows) :
              \E r \in rows : Cardinality(Before(rows, r)) = i - 1
         /\ \A r, s \in rows : r.id < s.id =>
              Cardinality(Before(rows, r)) < Cardinality(Before(rows, s))
<1>1. Cardinality(rows) \in Nat /\ \A r \in rows : r.id \in Nat
  BY FS_CardinalityType DEF RowsOK, ItemRows
<1>2. ASSUME NEW r \in rows
      PROVE  /\ IsFiniteSet(Before(rows, r)) /\ Cardinality(Before(rows, r)) \in Nat
             /\ Cardinality(Before(rows, r)) < Cardinality(rows)
  <2>1. Before(rows, r) \subseteq rows /\ r \notin Before(rows, r)
    BY <1>1 DEF Before
  <2>2. IsFiniteSet(rows)
    BY DEF RowsOK
  <2>3. IsFiniteSet(Before(rows, r)) /\ Cardinality(Before(rows, r)) <= Cardinality(rows)
        /\ Cardinality(Before(rows, r)) # Cardinality(rows)
    BY <2>1, <2>2, FS_Subset
  <2>4. Cardinality(Before(rows, r)) \in Nat
    BY <2>3, FS_CardinalityType
  <2>5. QED
    BY <1>1, <2>3, <2>4
<1>3. ASSUME NEW r \in rows, NEW s \in rows, r.id < s.id
      PROVE  Cardinality(Before(rows, r)) < Cardinality(Before(rows, s))
  <2>1. /\ Before(rows, r) \subseteq Before(rows, s)
        /\ r \in Before(rows, s) /\ r \notin Before(rows, r)
    BY <1>1, <1>3 DEF Before
  <2>2. /\ Cardinality(Before(rows, r)) <= Cardinality(Before(rows, s))
        /\ Cardinality(Before(rows, r)) # Cardinality(Before(rows, s))
    BY <1>2, <2>1, FS_Subset
  <2>3. QED
    BY <1>2, <2>2
<1> DEFINE f == [r \in rows |-> Cardinality(Before(rows, r)) + 1]
           T == 1..Cardinality(rows)
<1>4. f \in [rows -> T]
  BY <1>1, <1>2
<1>5. ASSUME NEW r \in rows, NEW s \in rows, f[r] = f[s] PROVE r = s
  <2>1. Cardinality(Before(rows, r)) = Cardinality(Before(rows, s))
    BY <1>2, <1>5
  <2>2. ~(r.id < s.id) /\ ~(s.id < r.id)
    BY <1>2, <1>3, <2>1
  <2>3. QED
    BY <1>1, <2>2 DEF RowsOK
<1>6. IsFiniteSet(T) /\ Cardinality(T) = Cardinality(rows)
  BY <1>1, FS_Interval
<1> HIDE DEF f, T
<1>7. f \in Injection(rows, T)
  BY <1>4, <1>5 DEF Injection, IsInjective
<1>8. f \in Surjection(rows, T)
  BY <1>6, <1>7, FS_Injection
<1>9. \A i \in T : \E r \in rows : f[r] = i
  BY <1>8 DEF Surjection
<1>10. QED
  BY <1>1, <1>2, <1>3, <1>9 DEF f, T

\* InOrder lists the rows, by id.
LEMMA OrderedRows ==
  ASSUME NEW rows, RowsOK(rows)
  PROVE  /\ InOrder(rows) \in Seq(rows)
         /\ Len(InOrder(rows)) = Cardinality(rows)
         /\ DOMAIN InOrder(rows) = 1..Cardinality(rows)
         /\ \A i \in 1..Cardinality(rows) :
              InOrder(rows)[i] \in rows /\ Cardinality(Before(rows, InOrder(rows)[i])) = i - 1
<1>1. /\ Cardinality(rows) \in Nat
      /\ \A i \in 1..Cardinality(rows) :
           \E r \in rows : Cardinality(Before(rows, r)) = i - 1
  BY RowsAreNumbered
<1>2. \A i \in 1..Cardinality(rows) :
        InOrder(rows)[i] \in rows /\ Cardinality(Before(rows, InOrder(rows)[i])) = i - 1
  BY <1>1 DEF InOrder
<1>3. InOrder(rows) = [i \in 1..Cardinality(rows) |-> InOrder(rows)[i]]
  BY DEF InOrder
<1>4. QED
  BY <1>1, <1>2, <1>3

LEMMA SnapshotType ==
  ASSUME NEW rows, RowsOK(rows), title \in Titles
  PROVE  Snapshot(rows) \in Configs
<1> DEFINE items == [i \in DOMAIN InOrder(rows) |-> Content(InOrder(rows)[i])]
<1>1. \A r \in rows : Content(r) \in Items
  BY DEF RowsOK, ItemRows, Items, Content
<1>2. Cardinality(rows) \in Nat
  BY RowsAreNumbered
<1>3. items \in Seq(Items)
  BY <1>1, <1>2, OrderedRows
<1>4. Snapshot(rows) = [title |-> title, items |-> items]
  BY DEF Snapshot
<1> HIDE DEF items
<1>5. QED
  BY <1>3, <1>4 DEF Configs

-----------------------------------------------------------------------------
(* New contents and new rows. *)

\* Taking an item off leaves a sequence of items.
LEMMA RemovedType ==
  ASSUME NEW items \in Seq(Items), NEW n \in DOMAIN items
  PROVE  RemoveAt(items, n) \in Seq(Items)
<1>1. n \in 1..Len(items) /\ Len(items) \in Nat
  OBVIOUS
<1>2. SubSeq(items, 1, n - 1) \in Seq(Items) /\ SubSeq(items, n + 1, Len(items)) \in Seq(Items)
  BY <1>1
<1>3. QED
  BY <1>2 DEF RemoveAt

LEMMA ChangedType ==
  ASSUME NEW config \in Configs, NEW new \in Changed(config)
  PROVE  new \in Configs
<1>1. config.title \in Titles /\ config.items \in Seq(Items)
  BY DEF Configs
<1>2. config = [title |-> config.title, items |-> config.items]
  BY DEF Configs
<1>3. ASSUME NEW items \in Seq(Items) PROVE [config EXCEPT !.items = items] \in Configs
  BY <1>1, <1>2, <1>3 DEF Configs
<1>4. ASSUME NEW t \in Titles PROVE [config EXCEPT !.title = t] \in Configs
  BY <1>1, <1>2, <1>4 DEF Configs
<1>5. ASSUME NEW i \in Items PROVE [config EXCEPT !.items = Append(@, i)] \in Configs
  <2>1. Append(config.items, i) \in Seq(Items)
    BY <1>1, <1>5
  <2>2. [config EXCEPT !.items = Append(@, i)] = [config EXCEPT !.items = Append(config.items, i)]
    BY <1>2
  <2>3. QED
    BY <1>3, <2>1, <2>2
<1>6. ASSUME NEW n \in DOMAIN config.items, NEW i \in Items
      PROVE  [config EXCEPT !.items[n] = i] \in Configs
  <2>1. [config.items EXCEPT ![n] = i] \in Seq(Items)
    BY <1>1, <1>6
  <2>2. [config EXCEPT !.items[n] = i]
          = [config EXCEPT !.items = [config.items EXCEPT ![n] = i]]
    BY <1>2
  <2>3. QED
    BY <1>3, <2>1, <2>2
<1>7. ASSUME NEW n \in DOMAIN config.items
      PROVE  [config EXCEPT !.items = RemoveAt(@, n)] \in Configs
  <2>1. RemoveAt(config.items, n) \in Seq(Items)
    BY <1>1, <1>7, RemovedType
  <2>2. [config EXCEPT !.items = RemoveAt(@, n)]
          = [config EXCEPT !.items = RemoveAt(config.items, n)]
    BY <1>2
  <2>3. QED
    BY <1>3, <2>1, <2>2
<1>8. \/ \E t \in Titles : new = [config EXCEPT !.title = t]
      \/ \E i \in Items : new = [config EXCEPT !.items = Append(@, i)]
      \/ \E n \in DOMAIN config.items : \E i \in Items : new = [config EXCEPT !.items[n] = i]
      \/ \E n \in DOMAIN config.items : new = [config EXCEPT !.items = RemoveAt(@, n)]
  <2> DEFINE A == {[config EXCEPT !.title = t] : t \in Titles}
             B == {[config EXCEPT !.items = Append(@, i)] : i \in Items}
             C(n) == {[config EXCEPT !.items[n] = i] :
                        i \in {i \in Items : i.field = config.items[n].field}}
             U == UNION {C(n) : n \in DOMAIN config.items}
             D == {[config EXCEPT !.items = RemoveAt(@, n)] : n \in DOMAIN config.items}
  <2>1. Changed(config) = A \cup B \cup U \cup D
    BY DEF Changed
  <2>2. \A n \in DOMAIN config.items : new \in C(n) =>
          \E i \in Items : new = [config EXCEPT !.items[n] = i]
    BY Zenon
  <2>3. /\ new \in A => \E t \in Titles : new = [config EXCEPT !.title = t]
        /\ new \in B => \E i \in Items : new = [config EXCEPT !.items = Append(@, i)]
        /\ new \in D => \E n \in DOMAIN config.items :
                          new = [config EXCEPT !.items = RemoveAt(@, n)]
    BY Zenon
  <2>4. new \in U => \E n \in DOMAIN config.items : new \in C(n)
    <3> HIDE DEF C
    <3> QED  BY Zenon
  <2>5. new \in A \/ new \in B \/ new \in U \/ new \in D
    <3> HIDE DEF A, B, U, D
    <3> QED  BY <2>1
  <2>6. QED
    BY <2>2, <2>3, <2>4, <2>5
<1>9. QED
  BY <1>4, <1>5, <1>6, <1>7, <1>8

\* Inserted rows have the ids that were not given yet.
LEMMA InsertedRows ==
  ASSUME NEW items \in Seq(Items), nextId \in Nat \ {0}
  PROVE  /\ RowsOK(Rows(items))
         /\ \A r \in Rows(items) : r.id >= nextId /\ r.id < nextId + Len(items)
<1> DEFINE row(n) == [id |-> nextId + n - 1, field |-> items[n].field,
                      state |-> items[n].state, when |-> items[n].when]
           f == [n \in 1..Len(items) |-> row(n)]
<1>1. Len(items) \in Nat /\ DOMAIN items = 1..Len(items)
  OBVIOUS
<1>2. ASSUME NEW n \in 1..Len(items)
      PROVE  /\ row(n) \in ItemRows
             /\ row(n).id = nextId + n - 1
             /\ row(n).id >= nextId /\ row(n).id < nextId + Len(items)
  <2>1. items[n] \in Items
    BY <1>1, <1>2
  <2>2. items[n].field \in Fields /\ items[n].state \in {"open", "locked"}
        /\ items[n].when \in Fields \cup {None}
    BY <2>1 DEF Items
  <2>3. nextId + n - 1 \in Nat \ {0} /\ nextId + n - 1 >= nextId
        /\ nextId + n - 1 < nextId + Len(items)
    BY <1>1, <1>2
  <2>4. QED
    BY <2>2, <2>3 DEF ItemRows
<1>3. Rows(items) = {row(n) : n \in 1..Len(items)}
  BY <1>1 DEF Rows
<1> HIDE DEF row
<1>4. f \in Surjection(1..Len(items), Rows(items))
  BY <1>3 DEF Surjection
<1>5. IsFiniteSet(Rows(items))
  BY <1>1, <1>4, FS_Interval, FS_Surjection
<1>6. ASSUME NEW m \in 1..Len(items), NEW n \in 1..Len(items), row(m).id = row(n).id
      PROVE  row(m) = row(n)
  <2>1. m = n
    BY <1>1, <1>2, <1>6
  <2>2. QED
    BY <2>1
<1>7. QED
  BY <1>2, <1>3, <1>5, <1>6 DEF RowsOK

LEMMA ListedOnce ==
  ASSUME NEW S, IsFiniteSet(S)
  PROVE  SetToSeq(S) \in [1..Cardinality(S) -> S] /\ Cardinality(S) \in Nat
<1>1. ExistsBijection(1..Cardinality(S), S) /\ Cardinality(S) \in Nat
  BY FS_CardinalityType
<1>2. \E f \in [1..Cardinality(S) -> S] : IsInjective(f)
  BY <1>1 DEF ExistsBijection, Bijection, Injection, IsInjective
<1>3. QED
  BY <1>1, <1>2 DEF SetToSeq

\* So have the rows that the direct editor adds.
LEMMA AddedRows ==
  ASSUME NEW fs \in SUBSET Fields, NEW s \in {"open", "locked"}, nextId \in Nat \ {0}
  PROVE  /\ Cardinality(fs) \in Nat
         /\ RowsOK(NewItems(fs, s))
         /\ \A r \in NewItems(fs, s) : r.id >= nextId /\ r.id < nextId + Cardinality(fs)
<1> DEFINE order == SetToSeq(fs)
           items == [n \in DOMAIN order |-> [field |-> order[n], state |-> s, when |-> None]]
<1>1. IsFiniteSet(fs)
  BY DraftsAssumption, FS_Subset
<1>2. order \in [1..Cardinality(fs) -> fs] /\ Cardinality(fs) \in Nat
  BY <1>1, ListedOnce
<1> HIDE DEF order
<1>3. items \in Seq(Items) /\ Len(items) = Cardinality(fs)
  <2>1. DOMAIN order = 1..Cardinality(fs)
    BY <1>2
  <2>2. \A n \in 1..Cardinality(fs) : [field |-> order[n], state |-> s, when |-> None] \in Items
    BY <1>2 DEF Items
  <2>3. QED
    BY <1>2, <2>1, <2>2
<1>4. NewItems(fs, s) = Rows(items)
  BY DEF NewItems, order
<1> HIDE DEF items
<1>5. QED
  BY <1>2, <1>3, <1>4, InsertedRows

-----------------------------------------------------------------------------
(* The variables have their types. *)

\* What a request read at its first query, where the draft is d and the form
\* has n revisions by now.
ViewOK(v, d, n) == v # None =>
    /\ RowsOK(v.live)
    /\ v.fields \in Schemas
    /\ v.draft # None => v.draft \in DraftRows /\ d # None /\ v.draft.version <= d.version
    /\ v.revs \in 0..n

PageOK(p, d) == p # None =>
    /\ d # None
    /\ p.config \in Configs
    /\ p.version \in 1..d.version

\* What a review stamps.
Stamps == [by: Designers, template: Seq(Items), config: Configs, live: Bases, draft: Nat]
ReviewOK(r) == r # None => r.stamp \in Stamps

\* The form's row, its items and the ids given to them.
FormOK(t, rows, n) ==
    t \in Titles /\ n \in Nat \ {0} /\ RowsOK(rows) /\ \A r \in rows : r.id < n

DraftOK(d) == d # None => d \in DraftRows /\ d.tested \in {None, d.config}

TypeInv ==
    /\ fields \in Schemas
    /\ FormOK(title, live, nextId)
    /\ DraftOK(draft)
    /\ revs \in Seq(Configs)
    /\ templates \subseteq Seq(Items)
    /\ view = [d \in Designers |-> view[d]]
    /\ page = [d \in Designers |-> page[d]]
    /\ review = [d \in Designers |-> review[d]]
    /\ \A d \in Designers :
          ViewOK(view[d], draft, Len(revs)) /\ PageOK(page[d], draft) /\ ReviewOK(review[d])

LEMMA WellTyped == TypeInv => TypeOK
BY DEF TypeInv, TypeOK, FormOK, DraftOK, PageOK, RowsOK

\* What a request sees of the form is a well-formed configuration, and so is
\* what a draft made of it rests on.
LEMMA SeenType ==
  ASSUME NEW v, v # None, ViewOK(v, draft, Len(revs)), title \in Titles
  PROVE  Snapshot(v.live) \in Configs /\ LiveHash(v) \in Bases
BY SnapshotType DEF ViewOK, LiveHash, Bases

\* A request that is done leaves the views of the others, whose draft and
\* revisions are still there.
LEMMA ViewsLeft ==
  ASSUME TypeInv, NEW d \in Designers, Done(d),
         draft # None => draft' # None /\ draft'.version \in Nat /\ draft'.version >= draft.version,
         Len(revs) \in Nat, Len(revs') \in Nat, Len(revs) <= Len(revs')
  PROVE  /\ view' = [e \in Designers |-> view'[e]]
         /\ \A e \in Designers : ViewOK(view'[e], draft', Len(revs'))
<1>1. view' = [view EXCEPT ![d] = None] /\ view = [e \in Designers |-> view[e]]
  BY DEF Done, TypeInv
<1>2. view' = [e \in Designers |-> view'[e]]
  BY <1>1
<1>3. \A e \in Designers : view'[e] = IF e = d THEN None ELSE view[e]
  BY <1>1
<1>4. ASSUME NEW e \in Designers, e # d PROVE ViewOK(view'[e], draft', Len(revs'))
  <2>1. ViewOK(view[e], draft, Len(revs)) /\ view'[e] = view[e]
    BY <1>3, <1>4 DEF TypeInv
  <2>2. draft # None => draft.version \in Nat
    BY DEF TypeInv, DraftOK, DraftRows
  <2>3. view[e] # None /\ view[e].draft # None => view[e].draft.version \in Nat
    BY <2>1 DEF ViewOK, DraftRows
  <2>4. QED
    BY <2>1, <2>2, <2>3 DEF ViewOK
<1>5. QED
  BY <1>2, <1>3, <1>4 DEF ViewOK

\* A change of the draft, shown on the designer's page.
LEMMA NewDraft ==
  ASSUME TypeInv, NEW d \in Designers, draft # None => draft'.version > draft.version,
         Shows(d, draft'), draft' \in DraftRows
  PROVE  /\ page' = [e \in Designers |-> page'[e]]
         /\ \A e \in Designers : PageOK(page'[e], draft')
<1>1. page' = [page EXCEPT ![d] = [config |-> draft'.config, version |-> draft'.version]]
      /\ page = [e \in Designers |-> page[e]]
  BY DEF Shows, TypeInv
<1>2. draft' # None /\ draft'.version \in Nat \ {0} /\ draft'.config \in Configs
  BY NoneAssumption DEF DraftRows
<1>3. page'[d].config = draft'.config /\ page'[d].version = draft'.version
  BY <1>1
<1>4. PageOK(page'[d], draft')
  BY <1>2, <1>3 DEF PageOK
<1>5. ASSUME NEW e \in Designers, e # d PROVE PageOK(page'[e], draft')
  <2>1. PageOK(page[e], draft) /\ page'[e] = page[e]
    BY <1>1, <1>5 DEF TypeInv
  <2>2. draft # None => draft.version \in Nat
    BY DEF TypeInv, DraftOK, DraftRows
  <2>3. QED
    BY <1>2, <2>1, <2>2 DEF PageOK
<1>6. QED
  BY <1>1, <1>4, <1>5

\* A request that leaves the draft and the pages alone.
LEMMA DraftLeft ==
  ASSUME TypeInv, NEW d \in Designers, Done(d), UNCHANGED <<fields, draft, revs, page>>,
         FormOK(title, live, nextId)', templates' \subseteq Seq(Items),
         review' = [e \in Designers |-> review'[e]],
         \A e \in Designers : ReviewOK(review'[e])
  PROVE  TypeInv'
<1>1. Len(revs) \in Nat /\ (draft # None => draft.version \in Nat)
  BY DEF TypeInv, DraftOK, DraftRows
<1>2. /\ view' = [e \in Designers |-> view'[e]]
      /\ \A e \in Designers : ViewOK(view'[e], draft', Len(revs'))
  BY <1>1, ViewsLeft
<1>3. QED
  BY <1>2 DEF TypeInv

\* A request that writes the draft and shows it.
LEMMA DraftWritten ==
  ASSUME TypeInv, NEW d \in Designers, Done(d), UNCHANGED <<fields, templates, review>>,
         FormOK(title, live, nextId)', revs' \in Seq(Configs), Len(revs) <= Len(revs'),
         draft # None => draft'.version > draft.version,
         DraftOK(draft'), draft' \in DraftRows, Shows(d, draft')
  PROVE  TypeInv'
<1>1. /\ Len(revs) \in Nat /\ Len(revs') \in Nat
      /\ draft' # None /\ draft'.version \in Nat /\ (draft # None => draft.version \in Nat)
  BY NoneAssumption DEF TypeInv, DraftOK, DraftRows
<1>2. /\ view' = [e \in Designers |-> view'[e]]
      /\ \A e \in Designers : ViewOK(view'[e], draft', Len(revs'))
  BY <1>1, ViewsLeft
<1>3. /\ page' = [e \in Designers |-> page'[e]]
      /\ \A e \in Designers : PageOK(page'[e], draft')
  BY NewDraft
<1>4. QED
  BY <1>2, <1>3 DEF TypeInv

\* What Redraft writes.
LEMMA RedraftType ==
  ASSUME TypeInv, NEW d \in Designers, NEW config \in Configs, NEW base \in Bases,
         draft # None, Redraft(d, config, base)
  PROVE  /\ draft' \in DraftRows /\ DraftOK(draft')
         /\ draft'.version = draft.version + 1 /\ Shows(d, draft') /\ Done(d)
<1>1. draft.version \in Nat \ {0}
  BY DEF TypeInv, DraftOK, DraftRows
<1>2. draft' = [config |-> config, version |-> draft.version + 1, base |-> base, tested |-> None]
  BY DEF Redraft
<1>3. QED
  BY <1>1, <1>2 DEF Redraft, DraftRows, DraftOK

\* What a request finds that holds the lock with a page that is up to date.
LEMMA LockedDraft ==
  ASSUME TypeInv, NEW d \in Designers, LockDraft(d)
  PROVE  /\ draft # None /\ draft \in DraftRows /\ draft.config \in Configs
         /\ draft.base \in Bases /\ draft.version \in Nat \ {0} /\ Locked(d)
         /\ page[d] # None /\ page[d].config \in Configs
         /\ Snapshot(view[d].live) \in Configs /\ LiveHash(view[d]) \in Bases
<1>1. Locked(d) /\ ViewOK(view[d], draft, Len(revs)) /\ title \in Titles
  BY DEF LockDraft, TypeInv, FormOK
<1>2. Snapshot(view[d].live) \in Configs /\ LiveHash(view[d]) \in Bases
  BY <1>1, SeenType DEF Locked
<1>3. QED
  BY <1>1, <1>2 DEF LockDraft, TypeInv, DraftOK, DraftRows, PageOK

\* The requests of the builder that change the draft give it the next version.
LEMMA WritesDraft ==
  ASSUME TypeInv, NEW d \in Designers,
         Save(d) \/ Preview(d) \/ Publish(d) \/ Reset(d) \/ Restore(d)
  PROVE  /\ LockDraft(d) /\ draft' \in DraftRows /\ DraftOK(draft')
         /\ draft'.version = draft.version + 1
         /\ Shows(d, draft') /\ Done(d) /\ UNCHANGED <<fields, templates, offer, review>>
<1> USE DEF form, library
<1>1. LockDraft(d) /\ UNCHANGED <<fields, templates, offer, review>>
  BY DEF Save, Preview, Publish, Reset, Restore
<1>2. /\ draft # None /\ draft \in DraftRows /\ draft.config \in Configs
      /\ draft.base \in Bases /\ draft.version \in Nat \ {0} /\ Locked(d)
      /\ page[d] # None /\ page[d].config \in Configs
      /\ Snapshot(view[d].live) \in Configs /\ LiveHash(view[d]) \in Bases
      /\ view[d] # None /\ ViewOK(view[d], draft, Len(revs)) /\ Len(revs) \in Nat
  BY <1>1, LockedDraft DEF TypeInv, Locked
<1>3. CASE Save(d)
  <2>1. PICK config \in Changed(page[d].config) : Redraft(d, config, draft.base)
    BY <1>3 DEF Save
  <2>2. config \in Configs
    BY <1>2, ChangedType
  <2>3. QED
    BY <1>1, <1>2, <2>1, <2>2, RedraftType
<1>4. CASE Preview(d)
  <2>1. PICK tested \in {draft.config, None} :
          draft' = [draft EXCEPT !.version = @ + 1, !.tested = tested]
    BY <1>4 DEF Preview
  <2>2. draft = [config |-> draft.config, version |-> draft.version,
                 base |-> draft.base, tested |-> draft.tested]
    BY <1>2 DEF DraftRows
  <2>3. draft' = [config |-> draft.config, version |-> draft.version + 1,
                  base |-> draft.base, tested |-> tested]
    BY <2>1, <2>2
  <2>4. draft' \in DraftRows /\ DraftOK(draft') /\ draft'.version = draft.version + 1
    BY <1>2, <2>3 DEF DraftRows, DraftOK
  <2>5. QED
    BY <1>1, <1>4, <2>4 DEF Preview
<1>5. CASE Publish(d)
  <2>1. Redraft(d, draft.config, [config |-> draft.config, schema |-> view[d].fields])
    BY <1>5 DEF Publish
  <2>2. [config |-> draft.config, schema |-> view[d].fields] \in Bases
    BY <1>2 DEF ViewOK, Bases
  <2>3. QED
    BY <1>1, <1>2, <2>1, <2>2, RedraftType
<1>6. CASE Reset(d)
  BY <1>1, <1>2, <1>6, RedraftType DEF Reset
<1>7. CASE Restore(d)
  <2>1. PICK n \in 1..view[d].revs : Redraft(d, revs[n], LiveHash(view[d]))
    BY <1>7 DEF Restore
  <2>2. n \in 1..Len(revs)
    BY <1>2 DEF ViewOK
  <2>3. revs[n] \in Configs
    BY <2>2 DEF TypeInv
  <2>4. QED
    BY <1>1, <1>2, <2>1, <2>3, RedraftType
<1>8. QED
  BY <1>3, <1>4, <1>5, <1>6, <1>7

\* So does the application of a template, which shows it on no page.
LEMMA AppliesDraft ==
  ASSUME TypeInv, NEW d \in Designers, Apply(d)
  PROVE  /\ draft' \in DraftRows /\ DraftOK(draft')
         /\ draft' # None /\ draft'.version \in Nat
         /\ draft = None => draft'.version = 1
         /\ draft # None => /\ draft.version \in Nat \ {0}
                            /\ draft'.version = draft.version + 1
         /\ review[d] # None /\ review[d].stamp \in Stamps
         /\ review[d].stamp = Prepare(d, review[d].stamp.template)
         /\ draft'.base = review[d].stamp.live
<1> DEFINE stamp == Prepare(d, review[d].stamp.template)
<1>1. /\ Locked(d) /\ review[d] # None /\ stamp = review[d].stamp
      /\ draft' = [config |-> stamp.config, version |-> stamp.draft + 1,
                   base |-> LiveHash(view[d]), tested |-> None]
  BY DEF Apply
<1>2. /\ stamp.live = LiveHash(view[d])
      /\ stamp.draft = IF draft = None THEN 0 ELSE draft.version
  BY DEF Prepare
<1>3. stamp \in Stamps /\ stamp.config \in Configs /\ LiveHash(view[d]) \in Bases
  <2> HIDE DEF stamp
  <2> QED  BY <1>1, <1>2 DEF TypeInv, ReviewOK, Stamps
<1>4. draft # None => draft.version \in Nat \ {0}
  BY DEF TypeInv, DraftOK, DraftRows
<1> HIDE DEF stamp
<1>5. draft' \in DraftRows /\ DraftOK(draft') /\ draft'.version = stamp.draft + 1
  BY <1>1, <1>2, <1>3, <1>4 DEF DraftRows, DraftOK
<1>6. draft' # None /\ draft'.version \in Nat
  BY <1>5, NoneAssumption DEF DraftRows
<1>7. QED
  BY <1>1, <1>2, <1>3, <1>4, <1>5, <1>6 DEF stamp

LEMMA TypeNext == TypeInv /\ [Next]_vars => TypeInv'
<1> SUFFICES ASSUME TypeInv, [Next]_vars PROVE TypeInv'
  OBVIOUS
<1> USE DEF form, library
<1>1. /\ title \in Titles /\ nextId \in Nat \ {0} /\ RowsOK(live)
      /\ \A r \in live : r.id < nextId
  BY DEF TypeInv, FormOK
<1>2. ASSUME NEW d \in Designers, Locked(d)
      PROVE  Snapshot(view[d].live) \in Configs /\ LiveHash(view[d]) \in Bases
  BY <1>1, <1>2, SeenType DEF TypeInv, Locked
<1>3. ASSUME NEW d \in Designers,
             Save(d) \/ Preview(d) \/ Publish(d) \/ Reset(d) \/ Restore(d),
             FormOK(title, live, nextId)', revs' \in Seq(Configs), Len(revs) <= Len(revs')
      PROVE  TypeInv'
  <2>1. /\ LockDraft(d) /\ draft' \in DraftRows /\ DraftOK(draft')
        /\ draft'.version = draft.version + 1
        /\ Shows(d, draft') /\ Done(d) /\ UNCHANGED <<fields, templates, review>>
    BY <1>3, WritesDraft
  <2>2. draft'.version > draft.version
    BY <2>1, LockedDraft
  <2>3. QED
    BY <1>3, <2>1, <2>2, DraftWritten
<1>4. Len(revs) \in Nat
  BY DEF TypeInv
<1>5. ASSUME NEW d \in Designers, Arrive(d) PROVE TypeInv'
  <2>1. /\ view' = [view EXCEPT ![d] = [live |-> live, fields |-> fields,
                                         draft |-> draft, revs |-> Len(revs)]]
        /\ UNCHANGED <<fields, title, live, nextId, draft, revs, page, templates, review>>
    BY <1>5 DEF Arrive
  <2>2. /\ view'[d].live = live /\ view'[d].fields = fields
        /\ view'[d].draft = draft /\ view'[d].revs = Len(revs)
    BY <2>1 DEF TypeInv
  <2>3. ViewOK(view'[d], draft, Len(revs))
    BY <1>1, <1>4, <2>2 DEF ViewOK, TypeInv, DraftOK, DraftRows
  <2>4. \A e \in Designers \ {d} : view'[e] = view[e]
    BY <2>1 DEF TypeInv
  <2>5. view' = [e \in Designers |-> view'[e]]
    BY <2>1 DEF TypeInv
  <2>6. QED
    BY <2>1, <2>3, <2>4, <2>5 DEF TypeInv
<1>6. ASSUME NEW d \in Designers, Refused(d) \/ OfferTemplate(d) PROVE TypeInv'
  <2>1. /\ UNCHANGED <<fields, title, live, nextId, draft, revs, page, templates, review>>
        /\ Done(d)
    BY <1>6 DEF Refused, OfferTemplate
  <2>2. QED
    BY <2>1, DraftLeft DEF TypeInv
<1>7. ASSUME NEW d \in Designers, Review(d) PROVE TypeInv'
  <2>1. /\ UNCHANGED <<fields, title, live, nextId, draft, revs, page, templates>>
        /\ Done(d) /\ Locked(d)
    BY <1>7 DEF Review
  <2>2. PICK template \in templates :
          review' = [review EXCEPT ![d] = [stamp |-> Prepare(d, template),
                       replaces |-> IF draft = None THEN None ELSE draft.config]]
    BY <1>7 DEF Review
  <2>3. Prepare(d, template) \in Stamps
    <3>1. template \in Seq(Items) /\ MapConfig(template) \in Configs
      BY <1>1 DEF TypeInv, MapConfig, Configs
    <3>2. (IF draft = None THEN 0 ELSE draft.version) \in Nat
      BY DEF TypeInv, DraftOK, DraftRows
    <3>3. QED
      BY <1>2, <2>1, <3>1, <3>2 DEF Prepare, Stamps
  <2>4. ReviewOK(review'[d]) /\ \A e \in Designers \ {d} : review'[e] = review[e]
    BY <2>2, <2>3 DEF TypeInv, ReviewOK
  <2>5. review' = [e \in Designers |-> review'[e]]
    BY <2>2 DEF TypeInv
  <2>6. QED
    BY <2>1, <2>4, <2>5, DraftLeft DEF TypeInv
<1>8. ASSUME NEW d \in Designers, SaveTemplate(d) PROVE TypeInv'
  <2>1. /\ UNCHANGED <<fields, title, live, nextId, draft, revs, page, review>>
        /\ Done(d) /\ Locked(d)
    BY <1>8 DEF SaveTemplate
  <2>2. PICK config \in Offered(d) : templates' = templates \cup {config.items}
    BY <1>8 DEF SaveTemplate
  <2>3. \/ config = Snapshot(view[d].live)
        \/ view[d].draft # None /\ config = view[d].draft.config
    BY DEF Offered
  <2>4. config \in Configs
    BY <1>2, <2>1, <2>3 DEF TypeInv, ViewOK, Locked, DraftRows
  <2>5. templates' \subseteq Seq(Items)
    BY <2>2, <2>4 DEF TypeInv, Configs
  <2>6. QED
    BY <2>1, <2>5, DraftLeft DEF TypeInv
<1>9. ASSUME NEW d \in Designers, Builder(d) PROVE TypeInv'
  <2>1. /\ UNCHANGED <<fields, title, live, nextId, revs, templates, review>>
        /\ Done(d) /\ Locked(d)
    BY <1>9 DEF Builder
  <2>2. CASE view[d].draft # None
    <3>1. Shows(d, view[d].draft) /\ UNCHANGED draft
      BY <1>9, <2>2 DEF Builder
    <3>2. /\ view[d].draft \in DraftRows /\ draft # None
          /\ view[d].draft.version <= draft.version /\ draft.version \in Nat
      BY <2>1, <2>2 DEF TypeInv, ViewOK, Locked, DraftOK, DraftRows
    <3>3. page' = [page EXCEPT ![d] = [config |-> view[d].draft.config,
                                       version |-> view[d].draft.version]]
      BY <3>1 DEF Shows
    <3>4. PageOK(page'[d], draft)
      BY <3>2, <3>3 DEF PageOK, TypeInv, DraftRows
    <3>5. /\ page' = [e \in Designers |-> page'[e]]
          /\ \A e \in Designers : PageOK(page'[e], draft)
      BY <3>3, <3>4 DEF TypeInv
    <3>6. /\ view' = [e \in Designers |-> view'[e]]
          /\ \A e \in Designers : ViewOK(view'[e], draft, Len(revs))
      BY <1>4, <2>1, <3>1, <3>2, ViewsLeft
    <3>7. QED
      BY <2>1, <3>1, <3>5, <3>6 DEF TypeInv
  <2>3. CASE view[d].draft = None
    <3>1. /\ draft = None /\ Shows(d, draft')
          /\ draft' = [config |-> Snapshot(view[d].live), version |-> 1,
                       base |-> LiveHash(view[d]), tested |-> None]
      BY <1>9, <2>3 DEF Builder
    <3>2. draft' \in DraftRows /\ DraftOK(draft')
      BY <1>2, <2>1, <3>1 DEF DraftRows, DraftOK
    <3>3. QED
      BY <1>4, <2>1, <3>1, <3>2, DraftWritten DEF TypeInv
  <2>4. QED
    BY <2>2, <2>3
<1>10. ASSUME NEW d \in Designers, Save(d) \/ Preview(d) \/ Reset(d) \/ Restore(d)
       PROVE  TypeInv'
  <2>1. UNCHANGED <<title, live, nextId, revs>>
    BY <1>10 DEF Save, Preview, Reset, Restore
  <2>2. QED
    BY <1>3, <1>4, <1>10, <2>1 DEF TypeInv
<1>11. ASSUME NEW d \in Designers, Publish(d) PROVE TypeInv'
  <2>1. /\ LockDraft(d)
        /\ title' = draft.config.title
        /\ live' = Replaced(view[d].live, draft.config)
        /\ nextId' = nextId + Len(draft.config.items)
        /\ revs' = revs \o <<Snapshot(view[d].live), draft.config>>
    BY <1>11 DEF Publish
  <2>2. /\ draft.config.title \in Titles /\ draft.config.items \in Seq(Items)
        /\ Len(draft.config.items) \in Nat
    BY <2>1, LockedDraft DEF Configs
  <2>3. revs' \in Seq(Configs) /\ Len(revs') = Len(revs) + 2
    BY <2>1, LockedDraft DEF TypeInv
  <2>4. FormOK(title, live, nextId)'
    <3> DEFINE kept == {r \in live : \A old \in view[d].live : r.id # old.id}
               new == Rows(draft.config.items)
    <3>1. kept \subseteq live /\ IsFiniteSet(kept)
      BY <1>1, FS_Subset DEF RowsOK
    <3>2. RowsOK(new) /\ \A r \in new : r.id >= nextId /\ r.id < nextId'
      BY <1>1, <2>1, <2>2, InsertedRows
    <3>3. live' = kept \cup new
      BY <2>1 DEF Replaced
    <3> HIDE DEF kept, new
    <3>4. IsFiniteSet(live')
      BY <3>1, <3>2, <3>3, FS_Union DEF RowsOK
    <3>5. /\ \A r \in kept : r \in ItemRows /\ r.id \in Nat /\ r.id < nextId
          /\ \A r \in new : r \in ItemRows /\ r.id \in Nat
      BY <1>1, <3>1, <3>2 DEF RowsOK, ItemRows
    <3>6. \A r \in live' : r.id < nextId' /\ r \in ItemRows
      BY <1>1, <2>1, <2>2, <3>2, <3>3, <3>5
    <3>7. ASSUME NEW r \in live', NEW s \in live', r.id = s.id PROVE r = s
      BY <1>1, <3>1, <3>2, <3>3, <3>5, <3>7 DEF RowsOK
    <3>8. QED
      BY <1>1, <2>1, <2>2, <3>4, <3>6, <3>7 DEF FormOK, RowsOK
  <2>5. QED
    BY <1>3, <1>4, <1>11, <2>3, <2>4
<1>12. ASSUME NEW d \in Designers, Apply(d) PROVE TypeInv'
  <2>1. /\ UNCHANGED <<fields, title, live, nextId, revs, page, templates, review>> /\ Done(d)
    BY <1>12 DEF Apply
  <2>2. /\ draft' \in DraftRows /\ DraftOK(draft') /\ draft' # None /\ draft'.version \in Nat
        /\ draft # None => draft.version \in Nat /\ draft'.version = draft.version + 1
    BY <1>12, AppliesDraft
  <2>3. /\ view' = [e \in Designers |-> view'[e]]
        /\ \A e \in Designers : ViewOK(view'[e], draft', Len(revs'))
    BY <1>4, <2>1, <2>2, ViewsLeft
  <2>4. \A e \in Designers : PageOK(page[e], draft')
    BY <2>2 DEF TypeInv, PageOK
  <2>5. QED
    BY <2>1, <2>2, <2>3, <2>4 DEF TypeInv
<1>13. ASSUME NEW d \in Designers, FormOK(title, live, nextId)', Done(d),
              UNCHANGED <<fields, draft, revs, page, templates, review>>
       PROVE  TypeInv'
  BY <1>13, DraftLeft DEF TypeInv
<1>14. ASSUME NEW new, RowsOK(new), \A r \in new : r.id >= nextId /\ r.id < nextId',
              live' = live \cup new, nextId' \in Nat, nextId' >= nextId, UNCHANGED title
       PROVE  FormOK(title, live, nextId)'
  <2>1. IsFiniteSet(live')
    BY <1>1, <1>14, FS_Union DEF RowsOK
  <2>2. /\ \A r \in live : r \in ItemRows /\ r.id \in Nat /\ r.id < nextId
        /\ \A r \in new : r \in ItemRows /\ r.id \in Nat
    BY <1>1, <1>14 DEF RowsOK, ItemRows
  <2>3. \A r \in live' : r.id < nextId' /\ r \in ItemRows
    BY <1>1, <1>14, <2>2
  <2>4. ASSUME NEW r \in live', NEW s \in live', r.id = s.id PROVE r = s
    BY <1>1, <1>14, <2>2, <2>4 DEF RowsOK
  <2>5. QED
    BY <1>1, <1>14, <2>1, <2>3, <2>4 DEF FormOK, RowsOK
<1>15. ASSUME NEW d \in Designers, AddItem(d) PROVE TypeInv'
  <2>1. /\ UNCHANGED <<fields, title, draft, revs, page, templates, review>>
        /\ Done(d) /\ Locked(d) /\ nextId' = nextId + 1
    BY <1>15 DEF AddItem
  <2>2. PICK f \in Unused(view[d]), s \in {"open", "locked"} : live' = live \cup NewItems({f}, s)
    BY <1>15 DEF AddItem
  <2>3. {f} \in SUBSET Fields
    BY DEF Unused, There
  <2>4. Cardinality({f}) = 1
    BY FS_Singleton
  <2>5. RowsOK(NewItems({f}, s)) /\ \A r \in NewItems({f}, s) : r.id >= nextId /\ r.id < nextId'
    BY <1>1, <2>1, <2>3, <2>4, AddedRows
  <2>6. FormOK(title, live, nextId)'
    <3>1. nextId' \in Nat /\ nextId' >= nextId /\ UNCHANGED title
      BY <1>1, <2>1
    <3>2. QED
      BY <1>14, <2>2, <2>5, <3>1
  <2>7. QED
    BY <1>13, <2>1, <2>6
<1>16. ASSUME NEW d \in Designers, AddAll(d) PROVE TypeInv'
  <2> DEFINE fs == Unused(view[d])
  <2>1. /\ UNCHANGED <<fields, title, draft, revs, page, templates, review>>
        /\ Done(d) /\ nextId' = nextId + Cardinality(fs)
        /\ live' = live \cup NewItems(fs, "open")
    BY <1>16 DEF AddAll
  <2>2. fs \in SUBSET Fields
    BY DEF Unused, There
  <2> HIDE DEF fs
  <2>3. /\ RowsOK(NewItems(fs, "open")) /\ Cardinality(fs) \in Nat
        /\ \A r \in NewItems(fs, "open") : r.id >= nextId /\ r.id < nextId'
    BY <1>1, <2>1, <2>2, AddedRows
  <2>4. FormOK(title, live, nextId)'
    <3>1. nextId' \in Nat /\ nextId' >= nextId /\ UNCHANGED title
      BY <1>1, <2>1, <2>3
    <3>2. QED
      BY <1>14, <2>1, <2>3, <3>1
  <2>5. QED
    BY <1>13, <2>1, <2>4
<1>17. ASSUME NEW d \in Designers, EditItem(d) PROVE TypeInv'
  <2>1. /\ UNCHANGED <<fields, title, nextId, draft, revs, page, templates, review>> /\ Done(d)
    BY <1>17 DEF EditItem
  <2>2. PICK r \in live, s \in {"open", "locked"} :
          live' = (live \ {r}) \cup {[r EXCEPT !.state = s]}
    BY <1>17 DEF EditItem
  <2>3. r \in ItemRows
    BY <1>1 DEF RowsOK
  <2>4. [r EXCEPT !.state = s] \in ItemRows /\ [r EXCEPT !.state = s].id = r.id
    BY <2>3 DEF ItemRows
  <2>5. IsFiniteSet(live')
    BY <1>1, <2>2, FS_RemoveElement, FS_AddElement DEF RowsOK
  <2>6. FormOK(title, live, nextId)'
    <3>1. /\ live \subseteq ItemRows
          /\ \A x, y \in live : x.id = y.id => x = y
      BY <1>1 DEF RowsOK
    <3>2. \A x \in live' : x \in ItemRows /\ x.id < nextId
      BY <1>1, <2>2, <2>4, <3>1
    <3>3. ASSUME NEW x \in live', NEW y \in live', x.id = y.id PROVE x = y
      BY <2>2, <2>4, <3>1, <3>3
    <3>4. QED
      BY <1>1, <2>1, <2>5, <3>2, <3>3 DEF FormOK, RowsOK
  <2>7. QED
    BY <1>13, <2>1, <2>6
<1>18. ASSUME NEW d \in Designers, DeleteItem(d) \/ EditSettings(d) PROVE TypeInv'
  <2>1. /\ UNCHANGED <<fields, nextId, draft, revs, page, templates, review>> /\ Done(d)
        /\ live' \subseteq live /\ title' \in Titles
    BY <1>1, <1>18 DEF DeleteItem, EditSettings
  <2>2. IsFiniteSet(live')
    BY <1>1, <2>1, FS_Subset DEF RowsOK
  <2>3. FormOK(title, live, nextId)'
    <3>1. RowsOK(live')
      BY <1>1, <2>1, <2>2 DEF RowsOK
    <3>2. QED
      BY <1>1, <2>1, <3>1 DEF FormOK
  <2>4. QED
    BY <1>13, <2>1, <2>3
<1>19. CASE FieldChange
  BY <1>19 DEF FieldChange, TypeInv, Schemas
<1>20. CASE UNCHANGED vars
  BY <1>20 DEF vars, TypeInv
<1>21. QED
  BY <1>5, <1>6, <1>7, <1>8, <1>9, <1>10, <1>11, <1>12, <1>15, <1>16,
     <1>17, <1>18, <1>19, <1>20 DEF Next

LEMMA TypeInit == Init => TypeInv
<1> SUFFICES ASSUME Init PROVE TypeInv
  OBVIOUS
<1>1. fields \in Schemas
  BY DEF Init, Schemas
<1>2. FormOK(title, live, nextId)
  <2>1. PICK f \in Fields : live = {[id |-> 1, field |-> f, state |-> "open", when |-> None]}
    BY DraftsAssumption DEF Init
  <2>2. [id |-> 1, field |-> f, state |-> "open", when |-> None] \in ItemRows
    BY DEF ItemRows
  <2>3. RowsOK(live)
    BY <2>1, <2>2, FS_Singleton DEF RowsOK
  <2>4. QED
    BY <2>1, <2>3 DEF Init, FormOK
<1>3. QED
  BY <1>1, <1>2, DraftsAssumption
  DEF Init, TypeInv, DraftOK, ViewOK, PageOK, ReviewOK

\* The form, its draft and what every request holds are well formed.
THEOREM TypeCorrect == Spec => []TypeInv
BY TypeInit, TypeNext, PTL DEF Spec

-----------------------------------------------------------------------------
(* What a version of the draft says. *)

\* The draft's version, 0 before there is one.
Latest(d) == IF d = None THEN 0 ELSE d.version

\* Version v of a draft that has had n versions said c: h is what they said.
Said(h, n, v, c) == v \in 1..n /\ c = h[v]

\* Whatever names a version names what it said; h is what each version said.
Known(h) ==
    /\ offer = [d \in Designers |-> offer[d]]
    /\ draft # None => Said(h, Latest(draft), draft.version, draft.config)
    /\ \A d \in Designers :
          /\ page[d] # None => Said(h, Latest(draft), page[d].version, page[d].config)
          /\ view[d] # None /\ view[d].draft # None =>
                Said(h, Latest(draft), view[d].draft.version, view[d].draft.config)
          /\ offer[d] # None /\ offer[d].draft # None =>
                Said(h, Latest(draft), offer[d].draft.version, offer[d].draft.config)
          /\ review[d] # None =>
                \/ review[d].stamp.draft = 0
                \/ Said(h, Latest(draft), review[d].stamp.draft, review[d].replaces)

Histories == [Nat -> Configs \cup {None}]

\* One more version leaves what the earlier ones said.
LEMMA StillSaid ==
  ASSUME NEW h \in Histories, NEW n \in Nat, NEW v, NEW c, Said(h, n, v, c),
         NEW new
  PROVE  Said([h EXCEPT ![n + 1] = new], n + 1, v, c)
BY DEF Said, Histories

\* A request that makes a new version of the draft, shown on its page or not.
LEMMA NewVersionKnown ==
  ASSUME TypeInv, NEW h \in Histories, Known(h), NEW d \in Designers,
         Done(d), UNCHANGED <<offer, review>>, draft' \in DraftRows,
         draft'.version = Latest(draft) + 1,
         Shows(d, draft') \/ UNCHANGED page
  PROVE  \E h2 \in Histories : Known(h2)'
<1> PICK n : n = Latest(draft)
  OBVIOUS
<1>1. n \in Nat /\ draft'.config \in Configs /\ draft' # None /\ draft'.version = n + 1
  BY NoneAssumption DEF TypeInv, DraftOK, DraftRows, Latest
<1>2. PICK h2 \in Histories : h2 = [h EXCEPT ![n + 1] = draft'.config]
  BY <1>1 DEF Histories
<1>3. \A v, c : Said(h, n, v, c) => Said(h2, n + 1, v, c)
  BY <1>1, <1>2, StillSaid
<1>4. Said(h2, n + 1, draft'.version, draft'.config)
  BY <1>1, <1>2 DEF Said, Histories
<1>5. \A e \in Designers : view'[e] = IF e = d THEN None ELSE view[e]
  BY DEF Done, TypeInv
<1>6. \A e \in Designers :
        \/ page'[e] = page[e]
        \/ page'[e] = [config |-> draft'.config, version |-> draft'.version]
  BY DEF Shows, TypeInv
<1>7. ASSUME NEW e \in Designers
      PROVE  /\ page'[e] # None => Said(h2, n + 1, page'[e].version, page'[e].config)
             /\ view'[e] # None /\ view'[e].draft # None =>
                   Said(h2, n + 1, view'[e].draft.version, view'[e].draft.config)
             /\ offer[e] # None /\ offer[e].draft # None =>
                   Said(h2, n + 1, offer[e].draft.version, offer[e].draft.config)
             /\ review[e] # None =>
                   \/ review[e].stamp.draft = 0
                   \/ Said(h2, n + 1, review[e].stamp.draft, review[e].replaces)
  <2>1. page'[e] # None => Said(h2, n + 1, page'[e].version, page'[e].config)
    BY <1>3, <1>4, <1>6 DEF Known
  <2>2. QED
    BY <1>3, <1>5, <2>1 DEF Known
<1>8. Known(h2)'
  <2>1. Latest(draft') = n + 1
    BY <1>1 DEF Latest
  <2>2. offer' = [e \in Designers |-> offer'[e]]
    BY DEF Known
  <2>3. QED
    BY <1>4, <1>7, <2>1, <2>2 DEF Known
<1>9. QED
  BY <1>8

LEMMA KnownNext ==
  ASSUME TypeInv, NEW h \in Histories, Known(h), [Next]_vars
  PROVE  \E h2 \in Histories : Known(h2)'
<1> USE DEF form, library
<1>1. /\ draft # None =>
           draft \in DraftRows /\ draft.version \in Nat \ {0} /\ Latest(draft) = draft.version
      /\ draft = None => Latest(draft) = 0
  BY DEF TypeInv, DraftOK, DraftRows, Latest
<1>2. ASSUME NEW d \in Designers, Done(d), UNCHANGED <<draft, page, offer, review>>
      PROVE  Known(h)'
  BY <1>2 DEF Known, Done, TypeInv
<1>3. ASSUME NEW d \in Designers,
             Save(d) \/ Preview(d) \/ Publish(d) \/ Reset(d) \/ Restore(d)
      PROVE  \E h2 \in Histories : Known(h2)'
  <2>1. draft' \in DraftRows /\ draft'.version = Latest(draft) + 1
    BY <1>1, <1>3, WritesDraft, LockedDraft
  <2>2. QED
    BY <1>3, <2>1, WritesDraft, NewVersionKnown
<1>4. ASSUME NEW d \in Designers, Arrive(d) PROVE Known(h)'
  <2>1. /\ UNCHANGED <<draft, page, offer, review>>
        /\ \A e \in Designers \ {d} : view'[e] = view[e]
        /\ view'[d].draft = draft
    BY <1>4 DEF Arrive, TypeInv
  <2>2. QED
    BY <2>1 DEF Known
<1>5. ASSUME NEW d \in Designers,
             \/ Refused(d) \/ SaveTemplate(d) \/ AddItem(d) \/ AddAll(d)
             \/ EditItem(d) \/ DeleteItem(d) \/ EditSettings(d)
      PROVE  Known(h)'
  BY <1>2, <1>5
  DEF Refused, SaveTemplate, AddItem, AddAll, EditItem, DeleteItem, EditSettings
<1>6. ASSUME NEW d \in Designers, OfferTemplate(d) PROVE Known(h)'
  <2>1. /\ UNCHANGED <<draft, page, review>> /\ Locked(d)
        /\ \A e \in Designers : view'[e] = IF e = d THEN None ELSE view[e]
        /\ offer' = [offer EXCEPT ![d] =
             [live |-> LiveHash(view[d]),
              draft |-> IF view[d].draft = None THEN None
                        ELSE [config |-> view[d].draft.config,
                              version |-> view[d].draft.version]]]
    BY <1>6 DEF OfferTemplate, Done, TypeInv
  <2>2. /\ offer' = [e \in Designers |-> offer'[e]]
        /\ \A e \in Designers \ {d} : offer'[e] = offer[e]
        /\ offer'[d].draft = IF view[d].draft = None THEN None
                             ELSE [config |-> view[d].draft.config,
                                   version |-> view[d].draft.version]
    BY <2>1 DEF Known
  <2>3. view[d].draft # None =>
          Said(h, Latest(draft), view[d].draft.version, view[d].draft.config)
    BY <2>1 DEF Known, Locked
  <2>4. offer'[d].draft # None =>
          Said(h, Latest(draft), offer'[d].draft.version, offer'[d].draft.config)
    BY <2>2, <2>3
  <2>5. QED
    BY <2>1, <2>2, <2>4 DEF Known
<1>7. ASSUME NEW d \in Designers, Review(d) PROVE Known(h)'
  <2>1. /\ UNCHANGED <<draft, page, offer>>
        /\ \A e \in Designers : view'[e] = IF e = d THEN None ELSE view[e]
    BY <1>7 DEF Review, Done, TypeInv
  <2>2. PICK template :
          review' = [review EXCEPT ![d] = [stamp |-> Prepare(d, template),
                       replaces |-> IF draft = None THEN None ELSE draft.config]]
    BY <1>7 DEF Review
  <2>3. /\ \A e \in Designers \ {d} : review'[e] = review[e]
        /\ review'[d].stamp = Prepare(d, template)
        /\ review'[d].replaces = IF draft = None THEN None ELSE draft.config
    BY <2>2 DEF TypeInv
  <2>4. Prepare(d, template).draft = Latest(draft)
    BY DEF Prepare, Latest
  <2>5. \/ review'[d].stamp.draft = 0
        \/ Said(h, Latest(draft), review'[d].stamp.draft, review'[d].replaces)
    BY <1>1, <2>3, <2>4 DEF Known
  <2>6. QED
    BY <2>1, <2>3, <2>5 DEF Known
<1>8. ASSUME NEW d \in Designers, Builder(d) PROVE \E h2 \in Histories : Known(h2)'
  <2>1. /\ UNCHANGED <<offer, review>> /\ Done(d) /\ Locked(d)
    BY <1>8 DEF Builder
  <2>2. CASE view[d].draft # None
    <3>1. /\ UNCHANGED draft
          /\ \A e \in Designers : view'[e] = IF e = d THEN None ELSE view[e]
          /\ page' = [page EXCEPT ![d] = [config |-> view[d].draft.config,
                                          version |-> view[d].draft.version]]
      BY <1>8, <2>1, <2>2 DEF Builder, Shows, Done, TypeInv
    <3>2. Said(h, Latest(draft), view[d].draft.version, view[d].draft.config)
      BY <2>1, <2>2 DEF Known, Locked
    <3>3. /\ \A e \in Designers \ {d} : page'[e] = page[e]
          /\ page'[d].config = view[d].draft.config /\ page'[d].version = view[d].draft.version
      BY <3>1 DEF TypeInv
    <3>4. Known(h)'
      BY <2>1, <3>1, <3>2, <3>3 DEF Known
    <3>5. QED
      BY <3>4
  <2>3. CASE view[d].draft = None
    <3>1. /\ draft = None /\ Shows(d, draft')
          /\ draft' = [config |-> Snapshot(view[d].live), version |-> 1,
                       base |-> LiveHash(view[d]), tested |-> None]
      BY <1>8, <2>3 DEF Builder
    <3>2. Snapshot(view[d].live) \in Configs /\ LiveHash(view[d]) \in Bases
      BY <2>1, SeenType DEF TypeInv, FormOK, Locked
    <3>3. draft' \in DraftRows /\ draft'.version = Latest(draft) + 1
      BY <1>1, <3>1, <3>2 DEF DraftRows
    <3>4. QED
      BY <2>1, <3>1, <3>3, NewVersionKnown
  <2>4. QED
    BY <2>2, <2>3
<1>9. ASSUME NEW d \in Designers, Apply(d) PROVE \E h2 \in Histories : Known(h2)'
  <2>1. UNCHANGED <<offer, review, page>> /\ Done(d)
    BY <1>9 DEF Apply
  <2>2. draft' \in DraftRows /\ draft'.version = Latest(draft) + 1
    BY <1>1, <1>9, AppliesDraft
  <2>3. QED
    BY <2>1, <2>2, NewVersionKnown
<1>10. CASE FieldChange
  BY <1>10 DEF FieldChange, Known
<1>11. CASE UNCHANGED vars
  BY <1>11 DEF vars, Known
<1>12. QED
  BY <1>3, <1>4, <1>5, <1>6, <1>7, <1>8, <1>9, <1>10, <1>11 DEF Next

\* Every version of the draft says one thing, to whoever names it.
VersionsInv == \E h \in Histories : Known(h)

THEOREM VersionsInvariant == Spec => []VersionsInv
<1>1. Init => VersionsInv
  <2> SUFFICES ASSUME Init PROVE VersionsInv
    OBVIOUS
  <2>1. [n \in Nat |-> None] \in Histories
    BY DEF Histories
  <2>2. Known([n \in Nat |-> None])
    BY DEF Init, Known
  <2>3. QED
    BY <2>1, <2>2 DEF VersionsInv
<1>2. TypeInv /\ VersionsInv /\ [Next]_vars => VersionsInv'
  BY KnownNext DEF VersionsInv
<1>3. QED
  BY <1>1, <1>2, TypeCorrect, PTL DEF Spec

\* The rows are well formed and no version of the draft names two contents.
THEOREM VersionsSoundHolds == Spec => []VersionsSound
<1>1. TypeInv /\ VersionsInv => VersionsSound
  <2> SUFFICES ASSUME TypeInv, NEW h \in Histories, Known(h) PROVE VersionsSound
    BY DEF VersionsInv
  <2>1. TypeOK
    BY WellTyped
  <2>2. draft # None => draft.version # 0
    BY DEF TypeInv, DraftOK, DraftRows
  <2>3. OneContentPerVersion
    BY <2>2 DEF Known, Said, OneContentPerVersion, Names
  <2>4. QED
    BY <2>1, <2>3 DEF VersionsSound
<1>2. QED
  BY <1>1, TypeCorrect, VersionsInvariant, PTL

-----------------------------------------------------------------------------
(* What a step may do. *)

\* The request that ends with a step is the one that took it.
LEMMA ActorEnds ==
  ASSUME TypeInv, NEW d \in Designers, Locked(d), Done(d)
  PROVE  Actor = d
<1>1. /\ view[d] # None /\ view'[d] = None
      /\ \A e \in Designers \ {d} : view'[e] = view[e]
  BY DEF Locked, Done, TypeInv
<1>2. QED
  BY <1>1 DEF Actor

\* The requests that leave the draft, the revisions and the templates alone.
Aside(d) ==
    \/ Arrive(d) \/ Refused(d) \/ OfferTemplate(d) \/ Review(d)
    \/ AddItem(d) \/ AddAll(d) \/ EditItem(d) \/ DeleteItem(d) \/ EditSettings(d)

LEMMA AsideLeaves ==
  ASSUME NEW d \in Designers, Aside(d) \/ FieldChange
  PROVE  UNCHANGED <<draft, revs, templates, proof, used>>
BY DEF Aside, Arrive, Refused, OfferTemplate, Review, AddItem, AddAll, EditItem, DeleteItem,
       EditSettings, FieldChange, form, library

\* Whoever replaces what the draft says has been shown what is replaced.
THEOREM NothingReplacedUnseenHolds == Spec => NothingReplacedUnseen
<1> DEFINE Seen == (draft # None /\ draft'.config # draft.config) =>
                     \/ page[Actor] # None /\ page[Actor].config = draft.config
                     \/ review[Actor] # None /\ review[Actor].replaces = draft.config
<1>1. ASSUME TypeInv, VersionsInv, [Next]_vars PROVE [Seen]_vars
  <2>1. PICK h \in Histories : Known(h)
    BY <1>1 DEF VersionsInv
  <2>2. draft # None => draft.config = h[draft.version] /\ draft.version # 0
    BY <1>1, <2>1 DEF Known, Said, TypeInv, DraftOK, DraftRows
  <2>3. ASSUME NEW d \in Designers,
               Save(d) \/ Preview(d) \/ Publish(d) \/ Reset(d) \/ Restore(d)
        PROVE  Seen
    <3>1. LockDraft(d) /\ Locked(d) /\ Done(d)
      BY <1>1, <2>3, WritesDraft, LockedDraft
    <3>2. page[d] # None /\ page[d].version = draft.version
      BY <3>1 DEF LockDraft
    <3>3. page[d].config = h[draft.version]
      BY <2>1, <3>2 DEF Known, Said
    <3>4. Actor = d
      BY <1>1, <3>1, ActorEnds
    <3>5. QED
      BY <2>2, <3>2, <3>3, <3>4
  <2>4. ASSUME NEW d \in Designers, Apply(d) PROVE Seen
    <3>1. /\ Locked(d) /\ Done(d) /\ review[d] # None
          /\ review[d].stamp = Prepare(d, review[d].stamp.template)
      BY <1>1, <2>4, AppliesDraft DEF Apply
    <3>2. draft # None => review[d].stamp.draft = draft.version
      <4>1. \A template : Prepare(d, template).draft = IF draft = None THEN 0 ELSE draft.version
        BY DEF Prepare
      <4>2. QED
        BY <3>1, <4>1
    <3>3. draft # None => review[d].replaces = h[draft.version]
      BY <2>1, <2>2, <3>1, <3>2 DEF Known, Said
    <3>4. Actor = d
      BY <1>1, <3>1, ActorEnds
    <3>5. QED
      BY <2>2, <3>1, <3>3, <3>4
  <2>5. ASSUME NEW d \in Designers, Builder(d) \/ SaveTemplate(d) PROVE Seen
    BY <2>5 DEF Builder, SaveTemplate
  <2>6. ASSUME NEW d \in Designers, Aside(d) PROVE Seen
    BY <2>6, AsideLeaves
  <2>7. CASE FieldChange
    BY <2>7 DEF FieldChange
  <2> HIDE DEF Seen
  <2>8. QED
    BY <1>1, <2>3, <2>4, <2>5, <2>6, <2>7 DEF Next, Aside
<1>2. QED
  BY <1>1, TypeCorrect, VersionsInvariant, PTL DEF Spec, NothingReplacedUnseen

\* A draft that is marked tested is what the last preview passed.
Previewed ==
    draft # None /\ draft.tested = draft.config =>
        /\ proof # None /\ proof.passed
        /\ proof.config = draft.config /\ proof.base = draft.base

LEMMA PreviewedNext ==
  ASSUME TypeInv, Previewed, [Next]_vars
  PROVE  Previewed'
<1>1. ASSUME draft'.config \in Configs, draft'.tested = None PROVE Previewed'
  BY <1>1, NoneAssumption DEF Previewed
<1>2. ASSUME NEW d \in Designers, Save(d) \/ Publish(d) \/ Reset(d) \/ Restore(d)
      PROVE  Previewed'
  <2>1. draft' \in DraftRows
    BY <1>2, WritesDraft
  <2>2. draft'.tested = None
    BY <1>2 DEF Save, Publish, Reset, Restore, Redraft
  <2>3. QED
    BY <1>1, <2>1, <2>2 DEF DraftRows
<1>3. ASSUME NEW d \in Designers, Apply(d) PROVE Previewed'
  <2>1. draft' \in DraftRows /\ draft'.tested = None
    BY <1>3, AppliesDraft DEF Apply
  <2>2. QED
    BY <1>1, <2>1 DEF DraftRows
<1>4. ASSUME NEW d \in Designers, Preview(d) PROVE Previewed'
  <2>1. /\ LockDraft(d) /\ draft \in DraftRows /\ draft' \in DraftRows
        /\ draft.config \in Configs /\ draft.base \in Bases
    BY <1>4, WritesDraft, LockedDraft
  <2>2. PICK passed \in BOOLEAN :
          /\ draft' = [draft EXCEPT !.version = @ + 1,
                                    !.tested = IF passed THEN draft.config ELSE None]
          /\ proof' = [config |-> draft.config, base |-> draft.base, passed |-> passed]
    <3>1. \A config : Healthy(config) \in BOOLEAN
      BY DEF Healthy
    <3>2. QED
      BY <1>4, <3>1 DEF Preview
  <2>3. draft'.config = draft.config /\ draft'.base = draft.base
        /\ draft'.tested = IF passed THEN draft.config ELSE None
    BY <2>1, <2>2 DEF DraftRows
  <2>4. CASE ~passed
    BY <1>1, <2>1, <2>3, <2>4
  <2>5. CASE passed
    <3>1. proof' \in Proofs
      BY <2>1, <2>2 DEF Proofs
    <3>2. proof' # None
      BY <3>1, NoneAssumption
    <3>3. QED
      BY <2>2, <2>3, <2>5, <3>2 DEF Previewed
  <2>6. QED
    BY <2>4, <2>5
<1>5. ASSUME NEW d \in Designers, Builder(d) PROVE Previewed'
  <2>1. CASE UNCHANGED draft
    BY <1>5, <2>1 DEF Builder, Previewed
  <2>2. CASE ~UNCHANGED draft
    <3>1. /\ view[d] # None
          /\ draft' = [config |-> Snapshot(view[d].live), version |-> 1,
                       base |-> LiveHash(view[d]), tested |-> None]
      BY <1>5, <2>2 DEF Builder, Locked
    <3>2. Snapshot(view[d].live) \in Configs
      BY <3>1, SeenType DEF TypeInv, FormOK
    <3>3. QED
      BY <1>1, <3>1, <3>2
  <2>3. QED
    BY <2>1, <2>2
<1>6. ASSUME UNCHANGED <<draft, proof>> PROVE Previewed'
  BY <1>6 DEF Previewed
<1>7. ASSUME NEW d \in Designers, Aside(d) \/ SaveTemplate(d) PROVE Previewed'
  BY <1>6, <1>7, AsideLeaves DEF SaveTemplate
<1>8. CASE FieldChange \/ UNCHANGED vars
  BY <1>6, <1>8 DEF FieldChange, vars
<1>9. QED
  BY <1>2, <1>3, <1>4, <1>5, <1>7, <1>8 DEF Next, Aside

\* What is published is what was previewed, on the form it was made from.
THEOREM PublishedAsReviewedHolds == Spec => PublishedAsReviewed
<1> DEFINE Reviewed == Published => AsPreviewed /\ OnItsBase
<1>1. ASSUME TypeInv, Previewed, [Next]_vars PROVE [Reviewed]_vars
  <2>1. Len(revs) \in Nat /\ revs \in Seq(Configs)
    BY <1>1 DEF TypeInv
  <2>2. ASSUME NEW d \in Designers, Publish(d) PROVE Reviewed
    <3>1. /\ LockDraft(d) /\ Locked(d) /\ Done(d) /\ draft # None
          /\ draft.config \in Configs /\ Snapshot(view[d].live) \in Configs
      BY <1>1, <2>2, WritesDraft, LockedDraft
    <3>2. /\ revs' = revs \o <<Snapshot(view[d].live), draft.config>>
          /\ draft.base = LiveHash(view[d]) /\ draft.tested = draft.config
      BY <2>2 DEF Publish, MayPublish
    <3>3. /\ revs'[Len(revs')] = draft.config
          /\ revs'[Len(revs) + 1] = Snapshot(view[d].live)
      BY <2>1, <3>1, <3>2
    <3>4. AsPreviewed
      BY <1>1, <3>1, <3>2, <3>3 DEF AsPreviewed, Previewed
    <3>5. /\ draft.base.config = Snapshot(view[d].live)
          /\ draft.base.schema = view[d].fields
          /\ Snapshot(view[d].live).title = title
      BY <3>2 DEF LiveHash, Snapshot
    <3>6. Actor = d
      BY <1>1, <3>1, ActorEnds
    <3>7. OnItsBase
      BY <3>3, <3>5, <3>6 DEF OnItsBase
    <3>8. QED
      BY <3>4, <3>7
  <2>3. ASSUME UNCHANGED revs PROVE Reviewed
    BY <2>1, <2>3 DEF Published
  <2>4. ASSUME NEW d \in Designers,
               \/ Aside(d) \/ SaveTemplate(d) \/ Builder(d) \/ Save(d) \/ Preview(d)
               \/ Reset(d) \/ Restore(d) \/ Apply(d)
        PROVE  Reviewed
    BY <2>3, <2>4, AsideLeaves
    DEF SaveTemplate, Builder, Save, Preview, Reset, Restore, Apply
  <2>5. CASE FieldChange
    BY <2>3, <2>5 DEF FieldChange
  <2> HIDE DEF Reviewed
  <2>6. QED
    BY <1>1, <2>2, <2>4, <2>5 DEF Next, Aside
<1>2. Init => Previewed
  BY DEF Init, Previewed
<1>3. TypeInv /\ Previewed /\ [Next]_vars => Previewed'
  BY PreviewedNext
<1>4. QED
  BY <1>1, <1>2, <1>3, TypeCorrect, PTL DEF Spec, PublishedAsReviewed

-----------------------------------------------------------------------------
(* Templates. *)

\* The draft is never thrown away, and its version only grows.
LEMMA DraftGrows ==
  ASSUME TypeInv, [Next]_vars, draft # None
  PROVE  draft' # None /\ draft.version \in Nat /\ draft'.version \in Nat
         /\ draft'.version >= draft.version
<1>1. draft.version \in Nat
  BY DEF TypeInv, DraftOK, DraftRows
<1>2. ASSUME NEW d \in Designers,
             Save(d) \/ Preview(d) \/ Publish(d) \/ Reset(d) \/ Restore(d)
      PROVE  draft' \in DraftRows /\ draft'.version = draft.version + 1
  BY <1>2, WritesDraft
<1>3. ASSUME NEW d \in Designers, Apply(d)
      PROVE  draft' \in DraftRows /\ draft'.version = draft.version + 1
  BY <1>3, AppliesDraft
<1>4. ASSUME NEW d \in Designers, Builder(d) PROVE UNCHANGED draft
  BY <1>4 DEF Builder
<1>5. ASSUME NEW d \in Designers, Aside(d) \/ SaveTemplate(d) PROVE UNCHANGED draft
  BY <1>5, AsideLeaves DEF SaveTemplate
<1>6. ASSUME FieldChange \/ UNCHANGED vars PROVE UNCHANGED draft
  BY <1>6 DEF FieldChange, vars
<1>7. \/ draft' \in DraftRows /\ draft'.version = draft.version + 1
      \/ UNCHANGED draft
  BY <1>2, <1>3, <1>4, <1>5, <1>6 DEF Next, Aside
<1>8. QED
  BY <1>1, <1>7, NoneAssumption

\* Only an application uses a review.
LEMMA UsedByApply ==
  ASSUME TypeInv, [Next]_vars, ~ \E d \in Designers : Apply(d)
  PROVE  UNCHANGED used
<1>1. ASSUME NEW d \in Designers,
             \/ Save(d) \/ Preview(d) \/ Publish(d) \/ Reset(d) \/ Restore(d)
             \/ Builder(d) \/ SaveTemplate(d)
      PROVE  UNCHANGED used
  BY <1>1 DEF Save, Preview, Publish, Reset, Restore, Builder, SaveTemplate
<1>2. ASSUME NEW d \in Designers, Aside(d) PROVE UNCHANGED used
  BY <1>2, AsideLeaves
<1>3. CASE FieldChange \/ UNCHANGED vars
  BY <1>3 DEF FieldChange, vars
<1>4. QED
  BY <1>1, <1>2, <1>3 DEF Next, Aside

\* Every review that was applied named an older version than the draft has.
UsedOK ==
    /\ used \in Seq(Stamps)
    /\ \A n \in 1..Len(used) : draft # None /\ used[n].draft < draft.version

LEMMA UsedNext ==
  ASSUME TypeInv, UsedOK, [Next]_vars
  PROVE  UsedOK'
<1>1. CASE UNCHANGED used
  <2>1. ASSUME NEW n \in 1..Len(used)
        PROVE  draft' # None /\ used[n].draft < draft'.version
    <3>1. used[n] \in Stamps
      BY DEF UsedOK
    <3>2. used[n].draft \in Nat /\ draft # None /\ used[n].draft < draft.version
      BY <3>1 DEF UsedOK, Stamps
    <3>3. QED
      BY <3>2, DraftGrows
  <2>2. QED
    BY <1>1, <2>1 DEF UsedOK
<1>2. ASSUME NEW d \in Designers, Apply(d) PROVE UsedOK'
  <2>1. used' = Append(used, review[d].stamp) /\ review[d].stamp \in Stamps
    BY <1>2, AppliesDraft DEF Apply
  <2>2. draft' # None /\ draft'.version \in Nat /\ review[d].stamp.draft < draft'.version
    <3>1. \A template : Prepare(d, template).draft = IF draft = None THEN 0 ELSE draft.version
      BY DEF Prepare
    <3>2. review[d].stamp.draft = IF draft = None THEN 0 ELSE draft.version
      BY <1>2, <3>1, AppliesDraft
    <3>3. QED
      BY <1>2, <3>2, AppliesDraft
  <2>3. used' \in Seq(Stamps) /\ Len(used') = Len(used) + 1 /\ Len(used) \in Nat
    BY <2>1 DEF UsedOK
  <2>4. ASSUME NEW n \in 1..Len(used') PROVE used'[n].draft < draft'.version
    <3>1. CASE n = Len(used) + 1
      BY <2>1, <2>2, <2>3, <3>1 DEF UsedOK
    <3>2. CASE n \in 1..Len(used)
      <4>1. used'[n] = used[n] /\ used[n] \in Stamps
        BY <2>1, <3>2 DEF UsedOK
      <4>2. used[n].draft \in Nat /\ draft # None /\ used[n].draft < draft.version
        BY <3>2, <4>1 DEF UsedOK, Stamps
      <4>3. QED
        BY <4>1, <4>2, DraftGrows
    <3>3. QED
      BY <2>3, <3>1, <3>2
  <2>5. QED
    BY <2>2, <2>3, <2>4 DEF UsedOK
<1>3. QED
  BY <1>1, <1>2, UsedByApply

THEOREM UsedInvariant == Spec => []UsedOK
<1>1. Init => UsedOK
  BY DEF Init, UsedOK
<1>2. TypeInv /\ UsedOK /\ [Next]_vars => UsedOK'
  BY UsedNext
<1>3. QED
  BY <1>1, <1>2, TypeCorrect, PTL DEF Spec

\* A review is good for one application, to the draft and the live form it
\* was made of.
LEMMA AppliedOnceStep ==
  ASSUME TypeInv, UsedOK, [Next]_vars
  PROVE  AppliedOnce
<1>1. ASSUME NEW d \in Designers, Apply(d) PROVE AppliedOnce
  <2>1. used' = Append(used, review[d].stamp) /\ used \in Seq(Stamps)
    BY <1>1 DEF Apply, UsedOK
  <2>2. used'[Len(used')] = review[d].stamp
    BY <2>1
  <2>3. draft'.base = review[d].stamp.live
    BY <1>1, AppliesDraft
  <2>4. draft # None => review[d].stamp.draft = draft.version /\ draft.version \in Nat
    <3>1. \A template : Prepare(d, template).draft = IF draft = None THEN 0 ELSE draft.version
      BY DEF Prepare
    <3>2. QED
      BY <1>1, <3>1, AppliesDraft
  <2>5. review[d].stamp \notin Range(used)
    <3>1. SUFFICES ASSUME NEW n \in 1..Len(used), used[n] = review[d].stamp PROVE FALSE
      BY <2>1 DEF Range
    <3>2. draft # None /\ used[n].draft < draft.version
      BY DEF UsedOK
    <3>3. QED
      BY <2>4, <3>1, <3>2
  <2>6. QED
    BY <2>2, <2>3, <2>5 DEF AppliedOnce
<1>2. CASE UNCHANGED used
  BY <1>2 DEF AppliedOnce
<1>3. QED
  BY <1>1, <1>2, UsedByApply

\* A template is saved as the designer saw it, live or draft.
LEMMA SavedAsOfferedStep ==
  ASSUME TypeInv, VersionsInv, [Next]_vars
  PROVE  SavedAsOffered
<1>1. ASSUME NEW d \in Designers, SaveTemplate(d) PROVE SavedAsOffered
  <2>1. Locked(d) /\ Done(d) /\ offer[d] # None
    BY <1>1 DEF SaveTemplate
  <2>2. PICK config \in Offered(d) : templates' = templates \cup {config.items}
    BY <1>1 DEF SaveTemplate
  <2>3. Actor = d
    BY <2>1, ActorEnds
  <2>4. offer[d].live.config = Snapshot(view[d].live)
    BY <2>2 DEF Offered, LiveHash
  <2>5. PICK h \in Histories : Known(h)
    BY DEF VersionsInv
  <2>6. \/ config = offer[d].live.config
        \/ offer[d].draft # None /\ config = offer[d].draft.config
    <3>1. CASE config = Snapshot(view[d].live)
      BY <2>4, <3>1
    <3>2. CASE config # Snapshot(view[d].live)
      <4>1. /\ view[d].draft # None /\ offer[d].draft # None
            /\ view[d].draft.version = offer[d].draft.version
            /\ config = view[d].draft.config
        BY <2>2, <3>2 DEF Offered
      <4>2. /\ view[d].draft.config = h[view[d].draft.version]
            /\ offer[d].draft.config = h[offer[d].draft.version]
        BY <2>1, <2>5, <4>1 DEF Known, Said, Locked
      <4>3. QED
        BY <4>1, <4>2
    <3>3. QED
      BY <3>1, <3>2
  <2>7. QED
    BY <2>2, <2>3, <2>6 DEF SavedAsOffered
<1>2. ASSUME UNCHANGED templates PROVE SavedAsOffered
  BY <1>2 DEF SavedAsOffered
<1>3. ASSUME NEW d \in Designers,
             \/ Save(d) \/ Preview(d) \/ Publish(d) \/ Reset(d) \/ Restore(d)
             \/ Builder(d) \/ Apply(d) \/ Aside(d)
      PROVE  UNCHANGED templates
  BY <1>3, WritesDraft, AsideLeaves DEF Builder, Apply, library
<1>4. ASSUME FieldChange \/ UNCHANGED vars PROVE UNCHANGED templates
  BY <1>4 DEF FieldChange, vars, library
<1>5. QED
  BY <1>1, <1>2, <1>3, <1>4 DEF Next, Aside

\* No review is applied twice, and no template says what nobody was shown.
THEOREM TemplatesAsShownHolds == Spec => TemplatesAsShown
<1>1. TypeInv /\ VersionsInv /\ UsedOK /\ [Next]_vars => [AppliedOnce /\ SavedAsOffered]_vars
  BY AppliedOnceStep, SavedAsOfferedStep
<1>2. QED
  BY <1>1, TypeCorrect, VersionsInvariant, UsedInvariant, PTL DEF Spec, TemplatesAsShown

-----------------------------------------------------------------------------
(* Publication. *)

\* The rows that items are written to, in the order of their ids, hold the
\* items in the order of the list.
LEMMA RowsInOrder ==
  ASSUME NEW items \in Seq(Items), nextId \in Nat \ {0}
  PROVE  LET now == InOrder(Rows(items)) IN
         [i \in DOMAIN now |-> Content(now[i])] = items
<1> DEFINE row(n) == [id |-> nextId + n - 1, field |-> items[n].field,
                      state |-> items[n].state, when |-> items[n].when]
           R == Rows(items)
           now == InOrder(R)
<1>1. Len(items) \in Nat /\ DOMAIN items = 1..Len(items)
  OBVIOUS
<1>2. R = {row(n) : n \in 1..Len(items)}
  BY <1>1 DEF Rows
<1>3. \A n \in 1..Len(items) : row(n).id = nextId + n - 1
  OBVIOUS
<1>4. ASSUME NEW n \in 1..Len(items) PROVE Content(row(n)) = items[n]
  <2>1. items[n] \in Items
    BY <1>1
  <2>2. items[n] = [field |-> items[n].field, state |-> items[n].state,
                    when |-> items[n].when]
    BY <2>1 DEF Items
  <2>3. QED
    BY <2>2 DEF Content
<1> HIDE DEF row, R
<1>5. ASSUME NEW m \in 0..Len(items), NEW S, S = {row(n) : n \in 1..m}
      PROVE  Cardinality(S) = m
  <2> DEFINE f == [n \in 1..m |-> row(n)]
  <2>1. f \in [1..m -> S] /\ \A s \in S : \E n \in 1..m : f[n] = s
    BY <1>5
  <2>2. ASSUME NEW a \in 1..m, NEW b \in 1..m, f[a] = f[b] PROVE a = b
    <3>1. a \in 1..Len(items) /\ b \in 1..Len(items) /\ row(a) = row(b)
      BY <1>1, <2>2
    <3>2. nextId + a - 1 = nextId + b - 1
      BY <1>3, <3>1
    <3>3. QED
      BY <3>1, <3>2
  <2> HIDE DEF f
  <2>3. f \in Bijection(1..m, S)
    BY <2>1, <2>2 DEF Bijection, Injection, Surjection, IsInjective
  <2>4. ExistsBijection(1..m, S) /\ m \in Nat
    BY <1>1, <2>3 DEF ExistsBijection
  <2>5. QED
    BY <2>4, FS_CountingElements
<1>6. Cardinality(R) = Len(items)
  BY <1>1, <1>2, <1>5
<1>7. ASSUME NEW n \in 1..Len(items) PROVE Cardinality(Before(R, row(n))) = n - 1
  <2>1. n - 1 \in 0..Len(items) /\ 1..(n - 1) \subseteq 1..Len(items)
    BY <1>1
  <2>2. \A m \in 1..Len(items) : row(m).id < row(n).id <=> m \in 1..(n - 1)
    BY <1>1, <1>3
  <2>3. Before(R, row(n)) = {row(m) : m \in 1..(n - 1)}
    BY <1>2, <2>1, <2>2 DEF Before
  <2>4. QED
    BY <1>5, <2>1, <2>3
<1>8. RowsOK(R)
  BY InsertedRows DEF R
<1>9. DOMAIN now = 1..Len(items)
  BY <1>6, <1>8, OrderedRows
<1>10. ASSUME NEW i \in 1..Len(items) PROVE now[i] = row(i)
  <2>1. now[i] \in R /\ Cardinality(Before(R, now[i])) = i - 1
    BY <1>6, <1>8, OrderedRows
  <2>2. PICK n \in 1..Len(items) : now[i] = row(n)
    BY <1>2, <2>1
  <2>3. n - 1 = i - 1
    BY <1>7, <2>1, <2>2
  <2>4. QED
    BY <1>1, <2>2, <2>3
<1> HIDE DEF now
<1>11. [i \in DOMAIN now |-> Content(now[i])] = items
  BY <1>1, <1>4, <1>9, <1>10
<1>12. QED
  BY <1>11 DEF now, R

\* Where nobody changed the items while the publication waited, the form is
\* what was published, and both versions are kept.
THEOREM PublishedWholeHolds == Spec => PublishedWhole
<1> DEFINE Whole == LET now == InOrder(live') IN
                    /\ [i \in DOMAIN now |-> Content(now[i])] = draft.config.items
                    /\ title' = draft.config.title
                    /\ revs'[Len(revs) + 1] = Snapshot(live)
                    /\ revs'[Len(revs')] = draft.config
           Kept == (Published /\ view[Actor].live = live) => Whole
<1>1. ASSUME TypeInv, [Next]_vars PROVE [Kept]_vars
  <2>1. Len(revs) \in Nat /\ revs \in Seq(Configs)
    BY <1>1 DEF TypeInv
  <2>2. ASSUME NEW d \in Designers, Publish(d), view[Actor].live = live PROVE Whole
    <3>1. /\ LockDraft(d) /\ Locked(d) /\ Done(d)
          /\ draft.config \in Configs /\ Snapshot(view[d].live) \in Configs
      BY <1>1, <2>2, WritesDraft, LockedDraft
    <3>2. view[d].live = live
      BY <1>1, <2>2, <3>1, ActorEnds
    <3>3. /\ title' = draft.config.title
          /\ live' = Replaced(live, draft.config)
          /\ revs' = revs \o <<Snapshot(live), draft.config>>
      BY <2>2, <3>2 DEF Publish
    <3>4. live' = Rows(draft.config.items)
      BY <3>3 DEF Replaced
    <3>5. draft.config.items \in Seq(Items) /\ nextId \in Nat \ {0}
      BY <1>1, <3>1 DEF Configs, TypeInv, FormOK
    <3>6. LET now == InOrder(live') IN
          [i \in DOMAIN now |-> Content(now[i])] = draft.config.items
      BY <3>4, <3>5, RowsInOrder
    <3>7. revs'[Len(revs')] = draft.config /\ revs'[Len(revs) + 1] = Snapshot(live)
      BY <2>1, <3>1, <3>2, <3>3
    <3>8. QED
      BY <3>3, <3>6, <3>7
  <2> HIDE DEF Whole
  <2>3. ASSUME UNCHANGED revs PROVE Kept
    BY <2>1, <2>3 DEF Published
  <2>4. ASSUME NEW d \in Designers,
               \/ Aside(d) \/ SaveTemplate(d) \/ Builder(d) \/ Save(d) \/ Preview(d)
               \/ Reset(d) \/ Restore(d) \/ Apply(d)
        PROVE  UNCHANGED revs
    BY <2>4, AsideLeaves DEF SaveTemplate, Builder, Save, Preview, Reset, Restore, Apply
  <2>5. ASSUME FieldChange PROVE UNCHANGED revs
    BY <2>5 DEF FieldChange
  <2>6. ASSUME NEW d \in Designers, Publish(d) PROVE Kept
    BY <2>2, <2>6
  <2> HIDE DEF Kept
  <2>7. QED
    BY <1>1, <2>3, <2>4, <2>5, <2>6 DEF Next, Aside
<1>2. QED
  BY <1>1, TypeCorrect, PTL DEF Spec, PublishedWhole

=============================================================================
