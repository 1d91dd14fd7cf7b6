----------------------------- MODULE SchemaProofs -----------------------------
(* Proofs about changes of the schema: what the catalogue refers to, what is  *)
(* kept of the tables that were there before, and that requests which do not  *)
(* overlap leave the references whole.                                        *)
EXTENDS Schema, TLAPS, FiniteSetTheorems, SequenceTheorems, WellFoundedInduction

-----------------------------------------------------------------------------
(* Walks.  What the catalogue computes by a recursion over the naturals is a  *)
(* function; a set that grows by members of a finite set stops growing after  *)
(* as many steps as the set has members.                                      *)

LEMMA LeastNat ==
  ASSUME NEW T \in SUBSET Nat, T # {}
  PROVE  \E n \in T : \A i \in T : n <= i
<1>1. PICK n \in T : \A i \in T : ~ (<<i, n>> \in OpToRel(<, Nat))
  BY NatLessThanWellFounded, WFMin
<1>2. n \in Nat /\ \A i \in T : i \in Nat
  OBVIOUS
<1>3. ASSUME NEW i \in T PROVE n <= i
  <2>1. ~ (i < n)
    BY <1>1, <1>2 DEF OpToRel
  <2> QED BY <1>2, <2>1
<1> QED BY <1>3

\* A walk of n steps from s.
IsWalk(f, U, step, s, n) ==
    /\ f \in [0 .. n -> U]
    /\ \A i \in 0 .. n : f[i] = IF i = 0 THEN s ELSE step[f[i - 1]]

LEMMA WalkExists ==
  ASSUME NEW U, NEW step \in [U -> U], NEW s \in U, NEW n \in Nat
  PROVE  \E f : IsWalk(f, U, step, s, n)
<1> USE DEF IsWalk
<1> DEFINE Walk(m) == \E f : IsWalk(f, U, step, s, m)
           T == {m \in Nat : ~ Walk(m)}
<1>1. SUFFICES ASSUME T # {} PROVE FALSE
  OBVIOUS
<1>2. PICK m \in T : \A i \in T : m <= i
  <2> HIDE DEF T
  <2>1. T \subseteq Nat
    BY DEF T
  <2> QED BY <1>1, <2>1, LeastNat
<1>3. m \in Nat /\ ~ Walk(m)
  OBVIOUS
<1>4. CASE m = 0
  <2> DEFINE f == [i \in 0 .. 0 |-> s]
  <2>1. f \in [0 .. m -> U] /\ \A i \in 0 .. m : f[i] = IF i = 0 THEN s ELSE step[f[i - 1]]
    BY <1>4
  <2> HIDE DEF f
  <2>2. Walk(m)
    BY <2>1
  <2> QED BY <1>3, <2>2
<1>5. CASE m # 0
  <2>1. m - 1 \in Nat /\ ~ (m <= m - 1)
    BY <1>3, <1>5
  <2>2. Walk(m - 1)
    BY <1>2, <2>1
  <2>3. PICK f \in [0 .. m - 1 -> U] :
          \A i \in 0 .. m - 1 : f[i] = IF i = 0 THEN s ELSE step[f[i - 1]]
    BY <2>2
  <2> DEFINE g == [i \in 0 .. m |-> IF i = 0 THEN s ELSE step[f[i - 1]]]
  <2>4. \A i \in 0 .. m : i # 0 => i - 1 \in 0 .. m - 1
    BY <1>3
  <2>5. g \in [0 .. m -> U]
    BY <2>4
  <2>6. \A i \in 0 .. m - 1 : i \in 0 .. m /\ g[i] = f[i]
    BY <1>3, <2>3
  <2>7. \A i \in 0 .. m : g[i] = IF i = 0 THEN s ELSE step[g[i - 1]]
    <3>1. TAKE i \in 0 .. m
    <3>2. g[i] = IF i = 0 THEN s ELSE step[f[i - 1]]
      OBVIOUS
    <3> HIDE DEF g
    <3> QED BY <2>4, <2>6, <3>2
  <2> HIDE DEF g
  <2> QED BY <1>3, <2>5, <2>7
<1> QED BY <1>4, <1>5

\* After as many steps as D has members, nothing of D is left to be added.
LEMMA GrowthEnds ==
  ASSUME NEW D, IsFiniteSet(D), NEW N, N = Cardinality(D), NEW f, NEW step,
         \A i \in 0 .. N : i # 0 => f[i] = step[f[i - 1]],
         \A i \in 0 .. N : f[i] \subseteq step[f[i]] /\ step[f[i]] \subseteq f[i] \cup D
  PROVE  step[f[N]] = f[N]
<1>1. N \in Nat
  BY FS_CardinalityType
<1> DEFINE Far(i) == step[f[i]] = f[i] \/ Cardinality(f[i] \cap D) >= i
           T == {i \in 0 .. N : ~ Far(i)}
<1>2. \A i \in 0 .. N : IsFiniteSet(f[i] \cap D) /\ Cardinality(f[i] \cap D) \in Nat
  <2>1. \A X : X \cap D \in SUBSET D
    OBVIOUS
  <2> QED BY <2>1, FS_Subset, FS_CardinalityType
<1>3. T = {}
  <2>1. SUFFICES ASSUME T # {} PROVE FALSE
    OBVIOUS
  <2>2. PICK i \in T : \A k \in T : i <= k
    <3>1. T \in SUBSET Nat
      BY <1>1
    <3> HIDE DEF T
    <3> QED BY <2>1, <3>1, LeastNat
  <2>3. i \in 0 .. N /\ ~ Far(i)
    OBVIOUS
  <2>4. i # 0
    BY <1>1, <1>2, <2>3
  <2>5. i - 1 \in 0 .. N /\ ~ (i <= i - 1)
    BY <1>1, <2>3, <2>4
  <2>6. Far(i - 1)
    BY <2>2, <2>5
  <2>7. f[i] = step[f[i - 1]]
    BY <2>3, <2>4
  <2>8. step[f[i - 1]] # f[i - 1]
    BY <2>3, <2>7
  <2>9. PICK x \in D : x \in f[i] /\ x \notin f[i - 1]
    BY <2>5, <2>7, <2>8
  <2>10. Cardinality(f[i - 1] \cap D) >= i - 1
    BY <2>6, <2>8
  <2>11. (f[i - 1] \cap D) \cup {x} \in SUBSET (f[i] \cap D)
    BY <2>5, <2>7, <2>9
  <2>12. Cardinality((f[i - 1] \cap D) \cup {x}) = Cardinality(f[i - 1] \cap D) + 1
    BY <1>2, <2>5, <2>9, FS_AddElement
  <2>13. Cardinality((f[i - 1] \cap D) \cup {x}) <= Cardinality(f[i] \cap D)
    BY <1>2, <2>3, <2>11, FS_Subset
  <2>14. /\ Cardinality(f[i] \cap D) >= i
    <3>1. Cardinality(f[i - 1] \cap D) \in Nat
      BY <1>2, <2>5
    <3>2. Cardinality(f[i] \cap D) \in Nat
      BY <1>2, <2>3
    <3>3. i \in Nat
      BY <1>1, <2>3
    <3> QED BY <2>10, <2>12, <2>13, <3>1, <3>2, <3>3
  <2> QED BY <2>3, <2>14
<1>4. Far(N)
  <2>1. N \in 0 .. N
    BY <1>1
  <2> QED BY <1>3, <2>1
<1>5. CASE Cardinality(f[N] \cap D) >= N
  <2>1. N \in 0 .. N /\ f[N] \cap D \in SUBSET D
    BY <1>1
  <2>2. Cardinality(f[N] \cap D) <= Cardinality(D) /\ Cardinality(f[N] \cap D) \in Nat
    BY <1>2, <2>1, FS_Subset
  <2>3. Cardinality(f[N] \cap D) = Cardinality(D)
    BY <1>1, <1>5, <2>2
  <2>4. f[N] \cap D = D
    BY <2>1, <2>3, FS_Subset
  <2> QED BY <2>1, <2>4
<1> QED BY <1>4, <1>5

\* What holds of the first set, and is kept by a step, holds of each.
LEMMA WalkStays ==
  ASSUME NEW N \in Nat, NEW f, NEW X,
         f[0] \in X, \A i \in 0 .. N : i # 0 /\ f[i - 1] \in X => f[i] \in X
  PROVE  \A i \in 0 .. N : f[i] \in X
<1> DEFINE T == {i \in 0 .. N : f[i] \notin X}
<1>1. SUFFICES ASSUME T # {} PROVE FALSE
  OBVIOUS
<1>2. PICK i \in T : \A k \in T : i <= k
  <2>1. T \in SUBSET Nat
    OBVIOUS
  <2> HIDE DEF T
  <2> QED BY <1>1, <2>1, LeastNat
<1>3. i \in 0 .. N /\ f[i] \notin X /\ i # 0
  OBVIOUS
<1>4. i - 1 \in 0 .. N /\ ~ (i <= i - 1)
  BY <1>3
<1>5. f[i - 1] \in X
  BY <1>2, <1>4
<1> QED BY <1>3, <1>5

\* A row falls with the row that a column of it refers to.
Hangs(c, k, X) == \E m \in Columns(k) : Column(k, m).on = "cascade" /\ c[k][m] \in X

Closed(c, X) == \A k \in DOMAIN c : Hangs(c, k, X) => k \in X

\* What falls with S is the least set that holds S and what hangs on it.
LEMMA CascadedIs ==
  ASSUME NEW c, IsFiniteSet(DOMAIN c), NEW S
  PROVE  /\ S \subseteq Cascaded(c, S) /\ Cascaded(c, S) \subseteq S \cup DOMAIN c
         /\ Closed(c, Cascaded(c, S))
         /\ \A X : S \subseteq X /\ Closed(c, X) => Cascaded(c, S) \subseteq X
<1> DEFINE D == DOMAIN c
           N == Cardinality(D)
           U == SUBSET (S \cup D)
           step == [X \in U |-> X \cup {k \in D : Hangs(c, k, X)}]
           Walk(f) == f = [n \in 0 .. N |->
                             IF n = 0 THEN S ELSE f[n - 1] \cup {k \in D : Hangs(c, k, f[n - 1])}]
           fall == CHOOSE f : Walk(f)
<1>1. N \in Nat
  BY FS_CardinalityType
<1>2. step \in [U -> U] /\ S \in U
  OBVIOUS
<1>3. PICK g : IsWalk(g, U, step, S, N)
  <2> HIDE DEF step, U, N, D
  <2> QED BY <1>1, <1>2, WalkExists
<1>4. Walk(g)
  <2>1. \A i \in 0 .. N : i # 0 => i - 1 \in 0 .. N
    BY <1>1
  <2> HIDE DEF N
  <2>2. /\ \A i \in 0 .. N : g[i] = IF i = 0 THEN S ELSE step[g[i - 1]]
        /\ g \in [0 .. N -> U] /\ \A i \in 0 .. N : g[i] \in U
    <3> HIDE DEF step, U, D
    <3> QED BY <1>3 DEF IsWalk
  <2>3. \A i \in 0 .. N : i # 0 => g[i] = g[i - 1] \cup {k \in D : Hangs(c, k, g[i - 1])}
    BY <2>1, <2>2
  <2> HIDE DEF U, step, D
  <2> QED BY <2>2, <2>3
<1>5. Walk(fall)
  BY <1>4
<1>6. Cascaded(c, S) = fall[N]
  BY DEF Cascaded, Hangs
<1>7. PICK f : f = fall
  OBVIOUS
<1>8. /\ f[0] = S
      /\ \A i \in 0 .. N : i # 0 => i - 1 \in 0 .. N
      /\ \A i \in 0 .. N : i # 0 => f[i] = f[i - 1] \cup {k \in D : Hangs(c, k, f[i - 1])}
  <2>1. f = [n \in 0 .. N |-> IF n = 0 THEN S
                             ELSE f[n - 1] \cup {k \in D : Hangs(c, k, f[n - 1])}]
    BY <1>5, <1>7
  <2> HIDE DEF N, D, fall
  <2>2. \A i \in 0 .. N : f[i] = IF i = 0 THEN S
                              ELSE f[i - 1] \cup {k \in D : Hangs(c, k, f[i - 1])}
    BY <2>1
  <2>3. 0 \in 0 .. N /\ \A i \in 0 .. N : i # 0 => i - 1 \in 0 .. N
    BY <1>1
  <2> QED BY <2>2, <2>3
<1> HIDE DEF Walk, fall, N
<1>9. \A i \in 0 .. N : f[i] \in U
  <2>1. \A i \in 0 .. N : i # 0 /\ f[i - 1] \in U => f[i] \in U
    BY <1>8
  <2>2. f[0] \in U
    BY <1>8
  <2> HIDE DEF U
  <2> QED BY <1>1, <2>1, <2>2, WalkStays
<1>10. \A i \in 0 .. N : i # 0 => f[i] = step[f[i - 1]]
  <2> HIDE DEF D
  <2> QED BY <1>8, <1>9
<1>11. step[f[N]] = f[N]
  <2>1. \A i \in 0 .. N : f[i] \subseteq step[f[i]] /\ step[f[i]] \subseteq f[i] \cup D
    BY <1>9
  <2>2. IsFiniteSet(D) /\ N = Cardinality(D)
    BY DEF N
  <2> HIDE DEF step, D
  <2> QED BY <1>10, <2>1, <2>2, GrowthEnds
<1>12. N \in 0 .. N /\ Cascaded(c, S) = f[N] /\ f[N] \in U
  BY <1>1, <1>6, <1>7, <1>9
<1>13. Closed(c, f[N])
  <2>1. step[f[N]] = f[N] \cup {k \in D : Hangs(c, k, f[N])}
    BY <1>12
  <2> QED BY <1>11, <2>1 DEF Closed
<1>14. S \subseteq f[N]
  <2> DEFINE X == {Y \in U : S \subseteq Y}
  <2>1. \A i \in 0 .. N : i # 0 /\ f[i - 1] \in X => f[i] \in X
    BY <1>8, <1>9
  <2>2. f[0] \in X
    BY <1>8
  <2> HIDE DEF X
  <2>3. \A i \in 0 .. N : f[i] \in X
    BY <1>1, <2>1, <2>2, WalkStays
  <2> QED BY <1>12, <2>3 DEF X
<1>15. ASSUME NEW X, S \subseteq X, Closed(c, X) PROVE f[N] \subseteq X
  <2>1. \A i \in 0 .. N : i # 0 /\ f[i - 1] \in SUBSET X => f[i] \in SUBSET X
    <3>1. SUFFICES ASSUME NEW i \in 0 .. N, i # 0, f[i - 1] \in SUBSET X
                   PROVE  f[i] \in SUBSET X
      OBVIOUS
    <3>2. \A k \in D : Hangs(c, k, f[i - 1]) => Hangs(c, k, X)
      BY <3>1 DEF Hangs
    <3>3. \A k \in D : Hangs(c, k, f[i - 1]) => k \in X
      BY <1>15, <3>2 DEF Closed
    <3> QED BY <1>8, <3>1, <3>3
  <2>2. f[0] \in SUBSET X
    BY <1>8, <1>15
  <2>3. \A i \in 0 .. N : f[i] \in SUBSET X
    BY <1>1, <2>1, <2>2, WalkStays
  <2> QED BY <1>12, <2>3
<1> QED BY <1>12, <1>13, <1>14, <1>15

-----------------------------------------------------------------------------
(* The columns of the catalogue.                                              *)

LEMMA ClassesAre ==
  Classes = {"source", "table", "field", "relation", "unique", "form", "item", "menu", "view",
             "role", "permission", "fieldperm", "company", "user", "workflow", "step",
             "trigger", "sla", "connection", "feed", "webhook", "pull", "report", "dashboard",
             "widget", "mailbox", "recurring", "window"}
BY DEF Classes, Model

LEMMA ModelIs ==
  /\ Model["source"] = DataSource /\ Model["table"] = MetaTable /\ Model["field"] = MetaField
  /\ Model["relation"] = MetaRelation /\ Model["unique"] = CompositeUnique /\ Model["form"] = MetaForm
  /\ Model["item"] = MetaFormField /\ Model["menu"] = MetaMenu /\ Model["view"] = SavedView
  /\ Model["role"] = Role /\ Model["permission"] = MetaPermission /\ Model["fieldperm"] = MetaFieldPermission
  /\ Model["company"] = Company /\ Model["user"] = AppUser /\ Model["workflow"] = Workflow
  /\ Model["step"] = ApprovalStep /\ Model["trigger"] = TriggerRule /\ Model["sla"] = SlaPolicy
  /\ Model["connection"] = Connection /\ Model["feed"] = Feed /\ Model["webhook"] = Webhook
  /\ Model["pull"] = PullSource /\ Model["report"] = ReportDef /\ Model["dashboard"] = Dashboard
  /\ Model["widget"] = DashboardWidget /\ Model["mailbox"] = Mailbox /\ Model["recurring"] = RecurringRecord
  /\ Model["window"] = MaintenanceWindow
BY DEF Model

\* What may be said of a column whatever class it is of.
Sensible(col) ==
    /\ col.to \in Classes /\ col.on \in {"cascade", "set null", "nothing"}
    /\ col.on # "nothing" => col.to \notin {"role", "unique"}

LEMMA KindsAreSensible ==
  /\ \A c \in Classes : Sensible(Id(c)) /\ Sensible(Bare(c))
  /\ \A c \in Classes \ {"role", "unique"} :
       Sensible(Key(c)) /\ Sensible(Parent(c)) /\ Sensible(Loose(c))
BY DEF Sensible, Key, Parent, Loose, Id, Bare

LEMMA ColumnsAre ==
  ASSUME NEW class \in Classes
  PROVE  \A m \in DOMAIN Model[class] : Sensible(Model[class][m])
<1>1. /\ "source" \in Classes /\ "table" \in Classes /\ "field" \in Classes
      /\ "relation" \in Classes /\ "form" \in Classes /\ "menu" \in Classes
      /\ "dashboard" \in Classes /\ "role" \in Classes /\ "company" \in Classes
      /\ "user" \in Classes /\ "workflow" \in Classes /\ "connection" \in Classes
  BY ClassesAre
<1> DEFINE All(columns) == \A m \in DOMAIN columns : Sensible(columns[m])
<1> USE <1>1, KindsAreSensible
<1>2. All(DataSource) /\ All(MetaTable)
  BY DEF DataSource, MetaTable
<1>3. All(MetaField) /\ All(MetaRelation)
  BY DEF MetaField, MetaRelation
<1>4. All(CompositeUnique) /\ All(MetaForm)
  BY DEF CompositeUnique, MetaForm
<1>5. All(MetaFormField) /\ All(MetaMenu)
  BY DEF MetaFormField, MetaMenu
<1>6. All(SavedView) /\ All(Role)
  BY DEF SavedView, Role
<1>7. All(MetaPermission) /\ All(MetaFieldPermission)
  BY DEF MetaPermission, MetaFieldPermission
<1>8. All(Company) /\ All(AppUser)
  BY DEF Company, AppUser
<1>9. All(Workflow) /\ All(ApprovalStep)
  BY DEF Workflow, ApprovalStep
<1>10. All(TriggerRule) /\ All(SlaPolicy)
  BY DEF TriggerRule, SlaPolicy
<1>11. All(Connection) /\ All(Feed)
  BY DEF Connection, Feed
<1>12. All(Webhook) /\ All(PullSource)
  BY DEF Webhook, PullSource
<1>13. All(ReportDef) /\ All(Dashboard)
  BY DEF ReportDef, Dashboard
<1>14. All(DashboardWidget) /\ All(Mailbox)
  BY DEF DashboardWidget, Mailbox
<1>15. All(RecurringRecord) /\ All(MaintenanceWindow)
  BY DEF RecurringRecord, MaintenanceWindow
<1> HIDE <1>1, KindsAreSensible DEF All
<1> SUFFICES All(Model[class])
  BY DEF All
<1> QED
  BY ClassesAre, ModelIs, <1>2, <1>3, <1>4, <1>5, <1>6, <1>7, <1>8, <1>9, <1>10, <1>11, <1>12, <1>13, <1>14, <1>15

-----------------------------------------------------------------------------
(* The invariant.  Every statement that a request has still to send, and all  *)
(* that it has stored or dropped, is of a table that Biggy made, but for the  *)
(* columns for tracking and the junctions of relations.                       *)

Kinds == {"table", "column", "moved", "junction", "unique", "flags"}

Ours(x) ==
    /\ x[1] \in Kinds
    /\ x[1] \in {"flags", "junction"} \/ x[2] \notin External \cup {Gone}

PhysOK == Foreign \subseteq phys /\ \A x \in phys \ Foreign : Ours(x)

CatOK(c) == IsFiniteSet(DOMAIN c) /\ Typed(c) /\ NoneIndexed(c)

\* What a column of a row that is not stored yet may hold.
Fits(k, m, v) == v \in {None, Gone} \/ (v \in Keys /\ v[1] = Column(k, m).to)

\* A row that is added has its parents in the same request, or shares a lock on
\* them.
NewOK(new) ==
    /\ IsFiniteSet(DOMAIN new) /\ NoneIndexed(new)
    /\ \A k \in DOMAIN new :
         /\ k \in Keys /\ DOMAIN new[k] = Columns(k)
         /\ \A m \in Columns(k) :
              /\ Fits(k, m, new[k][m])
              /\ Column(k, m).on # "nothing" /\ k[1] \notin {"field", "unique"} =>
                   new[k][m] \in DOMAIN new \cup {None}

\* A request sets columns that nothing looks after, or what is there already.
SetOK(c, set) ==
    \A k \in DOMAIN set : \A m \in DOMAIN set[k] :
        /\ k \in DOMAIN c /\ m \in Columns(k)
        /\ \/ Column(k, m).on = "nothing" /\ Fits(k, m, set[k][m])
           \/ k[1] = "field" /\ m = "table_id" /\ set[k][m] = c[k].table_id

StepOK(s, by) ==
    /\ s = Step(s.do, s.what, s.else) /\ s.else \in {"stop", "undo", "skip"}
    /\ s.do = "wipe" => by \in Whole
    /\ \A x \in s.what : Ours(x)
    /\ s.do = "rename" => \A x \in s.what : x[1] = "column"
    /\ s.do = "build" /\ s.else = "skip" => \A x \in s.what : x[3] \in Keys /\ x[3][1] = "unique"

StepsOK(todo, by) ==
    /\ todo \in Seq({todo[n] : n \in 1 .. Len(todo)})
    /\ \A n \in 1 .. Len(todo) : StepOK(todo[n], by)

\* A request does not end with rows that it has sent and not committed, nor
\* with an index that it would have to forget.
MayBeLast(s) == s.do # "flush" /\ (s.do = "build" => s.else # "skip")
EndsWell(todo) == todo # <<>> => MayBeLast(todo[Len(todo)])

JobOK(c, j) ==
    /\ j = [by |-> j.by, todo |-> j.todo, new |-> j.new, set |-> j.set, del |-> j.del,
            held |-> j.held, done |-> j.done, past |-> j.past]
    /\ j # Idle => j.todo # <<>>
    /\ StepsOK(j.todo, j.by) /\ EndsWell(j.todo) /\ NewOK(j.new) /\ SetOK(c, j.set)
    /\ DOMAIN j.new # {} => j.del = {}
    /\ j.by \in Whole => j.del = {} /\ DOMAIN j.set = {}
    /\ j.by \notin Whole => \A k \in DOMAIN j.new : k[1] \in {"table", "field", "unique", "relation"}
    /\ j.held \cap DOMAIN j.new \cap DOMAIN c = {}
    /\ \A x \in j.done : Ours(x)

\* A change of the whole model runs alone.
Lonely == \A d, e \in Designers : d # e /\ Busy(d) /\ job[d].by \in Whole => job[e] = Idle

SchemaInv ==
    /\ topic.each \in Nat /\ CatOK(cat) /\ PhysOK /\ Lonely
    /\ job = [d \in Designers |-> job[d]]
    /\ \A d \in Designers : JobOK(cat, job[d])

-----------------------------------------------------------------------------
(* The catalogue: its rows keep their types, whatever is deleted or changed.  *)

LEMMA ForeignIs ==
  /\ None \notin External /\ Gone \notin External /\ IsFiniteSet(Foreign)
  /\ \A t \in External : t \in Keys /\ t[1] = "table"
  /\ \A x \in Foreign : x[1] \in {"table", "column"} /\ x[2] \in External
  /\ None # Gone /\ None \notin Keys /\ Gone \notin Keys
<1>1. \A t \in External : t \in Keys /\ t[1] = "table"
  BY SchemaAssumption DEF External
<1> QED
  BY <1>1, SchemaAssumption

LEMMA CoreColumns ==
  ASSUME NEW k
  PROVE  /\ k[1] = "table" => /\ Columns(k) = {"display_field_id", "source_id"}
                              /\ Column(k, "display_field_id") = Id("field")
                              /\ Column(k, "source_id") = Id("source")
         /\ k[1] = "field" => /\ Columns(k) = {"table_id", "related_table_id"}
                              /\ Column(k, "table_id") = Key("table")
                              /\ Column(k, "related_table_id") = Id("table")
         /\ k[1] = "unique" => /\ Columns(k) = {"table_id", "field_ids"}
                               /\ Column(k, "table_id") = Key("table")
                               /\ Column(k, "field_ids") = Id("field")
         /\ k[1] = "relation" => /\ Columns(k) = {"from_table_id", "to_table_id", "from_field_id",
                                                 "from_display_field_ids", "to_display_field_ids"}
                                 /\ Column(k, "from_table_id") = Bare("table")
                                 /\ Column(k, "to_table_id") = Bare("table")
                                 /\ Column(k, "from_field_id") = Id("field")
                                 /\ Column(k, "from_display_field_ids") = Id("field")
                                 /\ Column(k, "to_display_field_ids") = Id("field")
<1>1. CASE k[1] = "table"
  BY <1>1, ModelIs DEF Columns, Column, MetaTable
<1>2. CASE k[1] = "field"
  BY <1>2, ModelIs DEF Columns, Column, MetaField
<1>3. CASE k[1] = "unique"
  BY <1>3, ModelIs DEF Columns, Column, CompositeUnique
<1>4. CASE k[1] = "relation"
  BY <1>4, ModelIs DEF Columns, Column, MetaRelation
<1> QED
  BY <1>1, <1>2, <1>3, <1>4

\* What is left refers to what is left.
LEMMA WithoutIs ==
  ASSUME NEW c, CatOK(c), NEW S
  PROVE  /\ CatOK(Without(c, S))
         /\ DOMAIN Without(c, S) = DOMAIN c \ Cascaded(c, S)
         /\ \A k \in DOMAIN Without(c, S) : \A m \in Columns(k) :
              /\ Column(k, m).on = "cascade" => Without(c, S)[k][m] = c[k][m]
              /\ c[k][m] \notin Cascaded(c, S) => Without(c, S)[k][m] = c[k][m]
              /\ Without(c, S)[k][m] \in {c[k][m], None, Gone}
<1> DEFINE F == Cascaded(c, S)
           d == Without(c, S)
<1>1. Closed(c, F)
  BY CascadedIs DEF CatOK
<1>2. d = [k \in DOMAIN c \ F |->
             [m \in Columns(k) |->
                IF c[k][m] \notin F THEN c[k][m]
                ELSE IF Column(k, m).on = "set null" THEN None ELSE Gone]]
  BY DEF Without
<1> HIDE DEF F, d
<1>3. DOMAIN d = DOMAIN c \ F /\ \A k \in DOMAIN d : DOMAIN d[k] = Columns(k)
  BY <1>2
<1>4. ASSUME NEW k \in DOMAIN d, NEW m \in Columns(k)
      PROVE  /\ k \in DOMAIN c /\ k \notin F
             /\ d[k][m] = IF c[k][m] \notin F THEN c[k][m]
                          ELSE IF Column(k, m).on = "set null" THEN None ELSE Gone
  BY <1>2
<1>5. ASSUME NEW k \in DOMAIN d, NEW m \in Columns(k), Column(k, m).on = "cascade"
      PROVE  d[k][m] = c[k][m]
  <2>1. c[k][m] \notin F
    BY <1>1, <1>4, <1>5 DEF Closed, Hangs
  <2> QED BY <1>4, <2>1
<1>6. ASSUME NEW k \in DOMAIN d
      PROVE  k \in Keys
  BY <1>3 DEF CatOK, Typed
<1>7. Typed(d)
  <2>1. ASSUME NEW k \in DOMAIN d, NEW m \in Columns(k)
        PROVE  \/ d[k][m] = None
               \/ d[k][m] = Gone /\ Column(k, m).on = "nothing"
               \/ d[k][m] \in DOMAIN d /\ d[k][m][1] = Column(k, m).to
    <3>1. /\ k \in Keys
          /\ \/ c[k][m] = None
             \/ c[k][m] = Gone /\ Column(k, m).on = "nothing"
             \/ c[k][m] \in DOMAIN c /\ c[k][m][1] = Column(k, m).to
      BY <1>4, <2>1 DEF CatOK, Typed
    <3>2. Column(k, m).on \in {"cascade", "set null", "nothing"}
      BY <3>1, ColumnsAre DEF Keys, Columns, Column, Sensible
    <3>3. CASE c[k][m] \notin F
      BY <1>3, <1>4, <3>1, <3>3
    <3>4. CASE c[k][m] \in F
      <4>1. Column(k, m).on # "cascade"
        BY <1>1, <1>4, <3>4 DEF Closed, Hangs
      <4> QED BY <1>4, <3>2, <3>4, <4>1
    <3> QED BY <3>3, <3>4
  <2> QED BY <1>3, <1>4, <1>6, <2>1 DEF Typed
<1>8. NoneIndexed(d)
  <2>1. ASSUME NEW u \in RowsIn(d, "unique") PROVE Managed(d[u].table_id)
    <3>1. u \in DOMAIN d /\ u[1] = "unique" /\ u \in DOMAIN c
      BY <1>3, <2>1 DEF RowsIn
    <3>2. "table_id" \in Columns(u) /\ Column(u, "table_id").on = "cascade"
      BY <3>1, CoreColumns DEF Key
    <3>3. Managed(c[u].table_id)
      BY <3>1 DEF CatOK, NoneIndexed, RowsIn
    <3> QED BY <1>5, <3>1, <3>2, <3>3
  <2> QED BY <2>1 DEF NoneIndexed
<1>9. IsFiniteSet(DOMAIN d)
  <2>1. DOMAIN d \in SUBSET DOMAIN c
    BY <1>3
  <2> QED BY <2>1, FS_Subset DEF CatOK
<1> QED
  BY <1>3, <1>4, <1>5, <1>7, <1>8, <1>9, ZenonT(30) DEF CatOK, F, d

\* A foreign key that cascades is as it was in every row that is left.
LEMMA KeyKept ==
  ASSUME NEW c, CatOK(c), NEW S
  PROVE  \A k \in DOMAIN Without(c, S) : \A m \in Columns(k) :
           Column(k, m).on = "cascade" => Without(c, S)[k][m] = c[k][m]
<1> DEFINE d == Without(c, S)
<1>1. \A k \in DOMAIN d : \A m \in Columns(k) :
        /\ Column(k, m).on = "cascade" => d[k][m] = c[k][m]
        /\ c[k][m] \notin Cascaded(c, S) => d[k][m] = c[k][m]
        /\ d[k][m] \in {c[k][m], None, Gone}
  BY WithoutIs
<1> HIDE DEF d
<1>2. \A k \in DOMAIN d : \A m \in Columns(k) : Column(k, m).on = "cascade" => d[k][m] = c[k][m]
  BY <1>1
<1> QED BY <1>2 DEF d

\* What a column of a row may hold.
Refers(c, k, m, v) ==
    \/ v = None
    \/ v = Gone /\ Column(k, m).on = "nothing"
    \/ v \in DOMAIN c /\ v[1] = Column(k, m).to

RowOK(c, k, row) ==
    DOMAIN row = Columns(k) /\ \A m \in Columns(k) : Refers(c, k, m, row[m])

LEMMA TypedRows ==
  ASSUME NEW c
  PROVE  Typed(c) <=> \A k \in DOMAIN c : k \in Keys /\ RowOK(c, k, c[k])
BY DEF Typed, RowOK, Refers

\* A row is added, or takes the place of the one with its key.
LEMMA WithIs ==
  ASSUME NEW c, CatOK(c), NEW k \in Keys, k[1] # "unique", NEW row, RowOK(c, k, row)
  PROVE  CatOK(With(c, k, row))
<1> DEFINE d == With(c, k, row)
<1>1. /\ DOMAIN d = DOMAIN c \cup {k} /\ d[k] = row
      /\ \A x \in DOMAIN c : x # k => d[x] = c[x]
  BY DEF With
<1> HIDE DEF d
<1>2. IsFiniteSet(DOMAIN d)
  BY <1>1, FS_AddElement DEF CatOK
<1>3. Typed(d)
  <2>1. ASSUME NEW x \in DOMAIN d PROVE x \in Keys /\ RowOK(d, x, d[x])
    <3>1. x \in Keys /\ RowOK(c, x, d[x])
      BY <1>1, TypedRows DEF CatOK
    <3> QED BY <1>1, <3>1 DEF RowOK, Refers
  <2> QED BY <2>1, TypedRows
<1>4. NoneIndexed(d)
  <2>1. ASSUME NEW u \in RowsIn(d, "unique") PROVE Managed(d[u].table_id)
    <3>1. u \in RowsIn(c, "unique") /\ u # k /\ u \in DOMAIN c
      BY <1>1 DEF RowsIn
    <3> QED BY <1>1, <3>1 DEF CatOK, NoneIndexed
  <2> QED BY <2>1 DEF NoneIndexed
<1> QED
  BY <1>2, <1>3, <1>4 DEF CatOK, d

\* The key of a new row is one that no row has.
LEMMA FreshKey ==
  ASSUME CatOK(cat), topic.each \in Nat, NEW class \in Classes, Room(class)
  PROVE  /\ NewKey(class) \in Keys /\ NewKey(class)[1] = class /\ NewKey(class) \notin DOMAIN cat
<1> DEFINE Free == {n \in 1 .. topic.each : <<class, n>> \notin DOMAIN cat}
           good(n) == /\ <<class, n>> \notin DOMAIN cat
                      /\ \A i \in 1 .. n - 1 : <<class, i>> \in DOMAIN cat
<1>1. Free # {}
  <2>1. SUFFICES ASSUME \A n \in 1 .. topic.each : <<class, n>> \in DOMAIN cat PROVE FALSE
    OBVIOUS
  <2> DEFINE f == [n \in 1 .. topic.each |-> <<class, n>>]
  <2>2. Rows(class) \in SUBSET DOMAIN cat
    BY DEF Rows, RowsIn
  <2>3. IsFiniteSet(Rows(class)) /\ Cardinality(Rows(class)) \in Nat
    BY <2>2, FS_Subset, FS_CardinalityType DEF CatOK
  <2>4. f \in Injection(1 .. topic.each, Rows(class))
    BY <2>1 DEF Injection, IsInjective, Rows, RowsIn
  <2>5. Cardinality(1 .. topic.each) <= Cardinality(Rows(class))
    <3> HIDE DEF f
    <3> QED BY <2>3, <2>4, FS_Injection
  <2>6. Cardinality(1 .. topic.each) = topic.each
    BY FS_Interval
  <2>7. Cardinality(Rows(class)) < topic.each
    BY DEF Room
  <2> QED BY <2>3, <2>5, <2>6, <2>7
<1>2. PICK n \in Free : \A i \in Free : n <= i
  <2>1. Free \in SUBSET Nat
    OBVIOUS
  <2> HIDE DEF Free
  <2> QED BY <1>1, <2>1, LeastNat
<1>3. n \in 1 .. topic.each /\ good(n)
  <2>1. n \in 1 .. topic.each /\ <<class, n>> \notin DOMAIN cat
    OBVIOUS
  <2>2. \A i \in 1 .. n - 1 : i \in 1 .. topic.each /\ ~ (n <= i)
    BY <2>1
  <2> QED BY <1>2, <2>1, <2>2
<1> DEFINE m == CHOOSE i \in 1 .. topic.each : good(i)
<1>4. m \in 1 .. topic.each /\ good(m)
  <2> HIDE DEF good
  <2> QED BY <1>3
<1>5. NewKey(class) = <<class, m>>
  BY DEF NewKey
<1> QED
  <2> HIDE DEF m
  <2> QED BY <1>4, <1>5 DEF Keys

\* What a page offers for a column are rows of the class that the column is to.
LEMMA OfferedIs ==
  ASSUME NEW k, NEW row, NEW m,
         m \in {"filter_field_id", "to_display_field_ids"} => Column(k, m).to = "field",
         NEW v \in Offered(k, row, m)
  PROVE  v \in DOMAIN cat /\ v[1] = Column(k, m).to
<1>1. \/ v \in Rows(Column(k, m).to)
      \/ Column(k, m).to = "field" /\ \E t : v \in FieldsOf(t)
  BY DEF Offered
<1> QED
  BY <1>1 DEF FieldsOf, FieldsIn, Rows, RowsIn

\* The columns that Create and Edit are told of are offered rows of their class.
Offers(class, columns) ==
    /\ columns \subseteq DOMAIN Model[class]
    /\ columns \cap {"filter_field_id", "to_display_field_ids"} = {}

LEMMA CreateIs ==
  ASSUME CatOK(cat), topic.each \in Nat, NEW class \in Classes \ {"unique"}, NEW optional,
         Offers(class, optional), Create(class, optional)
  PROVE  CatOK(cat') /\ topic' = topic
<1>1. PICK must \in [Musts(class) -> DOMAIN cat] :
        /\ \A m \in Musts(class) : must[m][1] = Model[class][m].to
        /\ LET k == NewKey(class)
               bare == [m \in DOMAIN Model[class] |->
                          IF m \in Musts(class) THEN must[m] ELSE None] IN
           \/ cat' = With(cat, k, bare)
           \/ \E m \in optional : \E v \in Offered(k, bare, m) :
                cat' = With(cat, k, [bare EXCEPT ![m] = v])
  BY DEF Create
<1> DEFINE k == NewKey(class)
           bare == [m \in DOMAIN Model[class] |-> IF m \in Musts(class) THEN must[m] ELSE None]
<1>2. k \in Keys /\ k[1] = class
  BY FreshKey DEF Create
<1>3. Columns(k) = DOMAIN Model[class] /\ \A m : Column(k, m) = Model[class][m]
  BY <1>2 DEF Columns, Column
<1> HIDE DEF k
<1>4. RowOK(cat, k, bare)
  <2>1. DOMAIN bare = Columns(k)
    BY <1>3
  <2>2. ASSUME NEW m \in Columns(k) PROVE Refers(cat, k, m, bare[m])
    <3>1. CASE m \in Musts(class)
      BY <1>1, <1>3, <3>1 DEF Refers
    <3>2. CASE m \notin Musts(class)
      BY <1>3, <3>2 DEF Refers
    <3> QED BY <3>1, <3>2
  <2> QED BY <2>1, <2>2 DEF RowOK
<1>5. ASSUME NEW m \in optional, NEW v \in Offered(k, bare, m)
      PROVE  RowOK(cat, k, [bare EXCEPT ![m] = v])
  <2>1. v \in DOMAIN cat /\ v[1] = Column(k, m).to
    BY <1>5, OfferedIs DEF Offers
  <2> QED BY <1>4, <2>1 DEF RowOK, Refers
<1>6. \/ cat' = With(cat, k, bare)
      \/ \E m \in optional : \E v \in Offered(k, bare, m) : cat' = With(cat, k, [bare EXCEPT ![m] = v])
  BY <1>1 DEF k
<1> HIDE DEF bare
<1>7. CatOK(cat')
  BY <1>2, <1>4, <1>5, <1>6, WithIs
<1> QED
  BY <1>7 DEF Create

\* A row of another class than constraints is changed, its references typed.
LEMMA ChangeIs ==
  ASSUME CatOK(cat), NEW k \in DOMAIN cat, k[1] # "unique", NEW row, RowOK(cat, k, row),
         cat' = [cat EXCEPT ![k] = row]
  PROVE  CatOK(cat')
<1>1. k \in Keys
  BY DEF CatOK, Typed
<1>2. /\ DOMAIN cat' = DOMAIN cat /\ cat'[k] = row
      /\ \A x \in DOMAIN cat : x # k => cat'[x] = cat[x]
  OBVIOUS
<1>3. \A x \in DOMAIN cat' : x \in Keys /\ RowOK(cat, x, cat'[x])
  BY <1>2, TypedRows DEF CatOK
<1>4. Typed(cat')
  <2>1. \A x \in DOMAIN cat' : x \in Keys /\ RowOK(cat', x, cat'[x])
    BY <1>2, <1>3 DEF RowOK, Refers
  <2> QED BY <2>1, TypedRows
<1>5. NoneIndexed(cat')
  BY <1>2 DEF CatOK, NoneIndexed, RowsIn
<1> QED
  BY <1>2, <1>4, <1>5 DEF CatOK

LEMMA EditIs ==
  ASSUME CatOK(cat), NEW class \in Classes \ {"unique"}, NEW columns, Offers(class, columns),
         Edit(class, columns)
  PROVE  CatOK(cat') /\ topic' = topic
<1>1. PICK k \in Rows(class), m \in columns :
        \E v \in Offered(k, cat[k], m) \cup (IF Column(k, m).must THEN {} ELSE {None}) :
          cat' = [cat EXCEPT ![k] =
                    [x \in DOMAIN cat[k] |->
                       CASE x = m -> v
                         [] x # m /\ x \in columns /\ cat[k][x] = Gone -> None
                         [] OTHER -> cat[k][x]]]
  BY DEF Edit
<1>2. PICK v \in Offered(k, cat[k], m) \cup (IF Column(k, m).must THEN {} ELSE {None}) :
          cat' = [cat EXCEPT ![k] =
                    [x \in DOMAIN cat[k] |->
                       CASE x = m -> v
                         [] x # m /\ x \in columns /\ cat[k][x] = Gone -> None
                         [] OTHER -> cat[k][x]]]
  BY <1>1
<1> DEFINE row == [x \in DOMAIN cat[k] |->
                     CASE x = m -> v
                       [] x # m /\ x \in columns /\ cat[k][x] = Gone -> None
                       [] OTHER -> cat[k][x]]
<1>3. k \in DOMAIN cat /\ k[1] = class /\ RowOK(cat, k, cat[k])
  BY TypedRows DEF Rows, RowsIn, CatOK
<1>4. v = None \/ (v \in DOMAIN cat /\ v[1] = Column(k, m).to)
  BY <1>2, OfferedIs DEF Offers
<1>5. RowOK(cat, k, row)
  <2>1. DOMAIN row = Columns(k)
    BY <1>3 DEF RowOK
  <2>2. ASSUME NEW x \in Columns(k) PROVE Refers(cat, k, x, row[x])
    <3>1. (row[x] = v /\ x = m) \/ row[x] \in {None, cat[k][x]}
      BY <1>3 DEF RowOK
    <3> QED BY <1>3, <1>4, <3>1 DEF RowOK, Refers
  <2> QED BY <2>1, <2>2 DEF RowOK
<1>6. cat' = [cat EXCEPT ![k] = row]
  BY <1>2
<1> HIDE DEF row
<1>7. CatOK(cat')
  BY <1>3, <1>5, <1>6, ChangeIs
<1> QED
  BY <1>7 DEF Edit

LEMMA DeleteIs ==
  ASSUME CatOK(cat), NEW class, Delete(class)
  PROVE  CatOK(cat') /\ topic' = topic
<1>1. PICK k \in Rows(class) : cat' = Without(cat, {k})
  BY DEF Delete
<1>2. CatOK(Without(cat, {k}))
  BY WithoutIs
<1> QED
  BY <1>1, <1>2 DEF Delete

\* A set has room for one that is no larger.
LEMMA Injects ==
  ASSUME NEW S, NEW T, IsFiniteSet(S), IsFiniteSet(T), Cardinality(S) <= Cardinality(T)
  PROVE  \E f \in [S -> T] : IsInjective(f)
<1>1. PICK m \in Nat, n \in Nat : m = Cardinality(S) /\ n = Cardinality(T)
  BY FS_CardinalityType
<1>2. PICK g \in Bijection(1 .. m, S) : TRUE
  BY <1>1, FS_CardinalityType DEF ExistsBijection
<1>3. PICK h \in Bijection(1 .. n, T) : TRUE
  BY <1>1, FS_CardinalityType DEF ExistsBijection
<1> DEFINE at(s) == CHOOSE i \in 1 .. m : g[i] = s
           f == [s \in S |-> h[at(s)]]
<1>4. \A s \in S : at(s) \in 1 .. m /\ g[at(s)] = s
  <2>1. \A s \in S : \E i \in 1 .. m : g[i] = s
    BY <1>2 DEF Bijection, Surjection
  <2> QED BY <2>1
<1> HIDE DEF at
<1>5. \A s \in S : at(s) \in 1 .. n
  BY <1>1, <1>4
<1>6. f \in [S -> T]
  BY <1>3, <1>5 DEF Bijection, Injection
<1>7. ASSUME NEW a \in S, NEW b \in S, f[a] = f[b] PROVE a = b
  <2>1. h[at(a)] = h[at(b)]
    BY <1>7
  <2>2. at(a) = at(b)
    BY <1>3, <1>5, <2>1 DEF Bijection, Injection, IsInjective
  <2> QED BY <1>4, <2>2
<1> HIDE DEF f
<1>8. IsInjective(f)
  BY <1>6, <1>7 DEF IsInjective
<1> QED BY <1>6, <1>8

LEMMA FreeFinite ==
  ASSUME topic.each \in Nat, NEW c, NEW class
  PROVE  IsFiniteSet(FreeKeys(c, class))
<1> DEFINE f == [n \in 1 .. topic.each |-> <<class, n>>]
           T == {<<class, n>> : n \in 1 .. topic.each}
<1>1. f \in Surjection(1 .. topic.each, T)
  BY DEF Surjection
<1>2. IsFiniteSet(1 .. topic.each)
  <2>1. 1 \in Int /\ topic.each \in Int
    OBVIOUS
  <2> QED BY <2>1, FS_Interval, Zenon
<1> HIDE DEF f
<1>3. IsFiniteSet(T)
  BY <1>1, <1>2, FS_Surjection
<1>4. FreeKeys(c, class) \in SUBSET T
  BY DEF FreeKeys
<1> QED BY <1>3, <1>4, FS_Subset

\* Several rows are added, each on a key of its own.
LEMMA WithAllIs ==
  ASSUME NEW c, CatOK(c), topic.each \in Nat, NEW class \in Classes \ {"unique"}, NEW rows,
         IsFiniteSet(rows), Cardinality(rows) <= Cardinality(FreeKeys(c, class)),
         \A row \in rows : \A k : k[1] = class => RowOK(c, k, row)
  PROVE  CatOK(WithAll(c, class, rows))
<1> DEFINE key == CHOOSE f \in [rows -> FreeKeys(c, class)] : IsInjective(f)
           d == WithAll(c, class, rows)
<1>1. \A k \in FreeKeys(c, class) : k \in Keys /\ k[1] = class /\ k \notin DOMAIN c
  BY DEF FreeKeys, Keys
<1>2. IsFiniteSet(FreeKeys(c, class))
  BY FreeFinite
<1>3. key \in [rows -> FreeKeys(c, class)] /\ IsInjective(key)
  BY <1>2, Injects
<1>4. d = [k \in DOMAIN c \cup Range(key) |->
             IF k \in DOMAIN c THEN c[k] ELSE CHOOSE row \in rows : key[row] = k]
  BY DEF WithAll
<1> HIDE DEF key, d
<1>5. DOMAIN d = DOMAIN c \cup Range(key) /\ \A k \in DOMAIN c : d[k] = c[k]
  BY <1>4
<1>6. ASSUME NEW k \in DOMAIN d, k \notin DOMAIN c
      PROVE  k \in Keys /\ k[1] = class /\ RowOK(c, k, d[k])
  <2>1. \E row \in rows : key[row] = k
    BY <1>3, <1>5, <1>6 DEF Range
  <2>2. k \in FreeKeys(c, class)
    BY <1>3, <2>1
  <2>3. d[k] \in rows
    BY <1>4, <1>6, <2>1
  <2> QED BY <1>1, <2>2, <2>3
<1>7. Typed(d)
  <2>1. ASSUME NEW k \in DOMAIN d PROVE k \in Keys /\ RowOK(c, k, d[k])
    BY <1>5, <1>6, TypedRows DEF CatOK
  <2>2. \A k \in DOMAIN d : k \in Keys /\ RowOK(d, k, d[k])
    BY <1>5, <2>1 DEF RowOK, Refers
  <2> QED BY <2>2, TypedRows
<1>8. NoneIndexed(d)
  <2>1. \A u \in RowsIn(d, "unique") : u \in RowsIn(c, "unique") /\ d[u] = c[u]
    BY <1>5, <1>6 DEF RowsIn
  <2> QED BY <2>1 DEF NoneIndexed, CatOK
<1>9. IsFiniteSet(DOMAIN d)
  <2>1. key \in Surjection(rows, Range(key))
    BY <1>3 DEF Surjection, Range
  <2>2. IsFiniteSet(Range(key))
    BY <2>1, FS_Surjection
  <2> QED BY <1>5, <2>2, FS_Union DEF CatOK
<1> QED
  BY <1>7, <1>8, <1>9 DEF CatOK, d

LEMMA MoreColumns ==
  ASSUME NEW k
  PROVE  /\ k[1] = "form" => /\ Columns(k) = {"table_id"} /\ Column(k, "table_id") = Key("table")
         /\ k[1] = "item" => /\ Columns(k) = {"form_id", "field_id", "relation_id",
                                             "parent_field_id", "filter_field_id"}
                             /\ Column(k, "form_id") = Key("form")
                             /\ Column(k, "field_id") = Id("field")
                             /\ Column(k, "relation_id") = Id("relation")
                             /\ Column(k, "parent_field_id") = Id("field")
                             /\ Column(k, "filter_field_id") = Id("field")
         /\ k[1] = "workflow" => /\ Columns(k) = {"table_id", "field_id"}
                                 /\ Column(k, "table_id") = Key("table")
                                 /\ Column(k, "field_id") = Key("field")
         /\ k[1] = "permission" => /\ Columns(k) = {"role", "form_id"}
                                   /\ Column(k, "role") = Bare("role")
                                   /\ Column(k, "form_id") = Bare("form")
         /\ k[1] = "fieldperm" => /\ Columns(k) = {"role", "field_id"}
                                  /\ Column(k, "role") = Bare("role")
                                  /\ Column(k, "field_id") = Bare("field")
<1>1. CASE k[1] = "form"
  BY <1>1, ModelIs DEF Columns, Column, MetaForm
<1>2. CASE k[1] = "item"
  BY <1>2, ModelIs DEF Columns, Column, MetaFormField
<1>3. CASE k[1] = "workflow"
  BY <1>3, ModelIs DEF Columns, Column, Workflow
<1>4. CASE k[1] = "permission"
  BY <1>4, ModelIs DEF Columns, Column, MetaPermission
<1>5. CASE k[1] = "fieldperm"
  BY <1>5, ModelIs DEF Columns, Column, MetaFieldPermission
<1> QED
  BY <1>1, <1>2, <1>3, <1>4, <1>5

LEMMA KindsAre ==
  ASSUME NEW class
  PROVE  /\ Id(class).to = class /\ Id(class).on = "nothing" /\ ~ Id(class).must
         /\ Bare(class).to = class /\ Bare(class).on = "nothing"
         /\ Key(class).to = class /\ Key(class).on = "cascade"
BY DEF Id, Bare, Key

\* The requests that only create, edit or delete a row.
LEMMA PlainRows ==
  ASSUME CatOK(cat), topic.each \in Nat,
         \/ form_new \/ form_delete \/ form_item_delete
         \/ menu_new \/ menu_edit \/ menu_delete
         \/ dashboard_create \/ dashboard_delete \/ widget_add \/ widget_edit \/ widget_delete
         \/ view_save \/ view_delete
         \/ trigger_create \/ trigger_edit \/ trigger_delete
         \/ sla_policy_create \/ sla_policy_edit \/ sla_policy_delete
         \/ recurring_home \/ recurring_delete \/ maintenance_home \/ maintenance_delete
         \/ mailboxes_home \/ mailbox_edit \/ mailbox_delete
         \/ connection_create \/ connection_delete
         \/ feed_create \/ feed_edit \/ feed_delete
         \/ webhook_create \/ webhook_edit \/ webhook_delete
         \/ pull_create \/ pull_edit \/ pull_delete
         \/ report_save \/ report_delete \/ source_create
         \/ workflow_delete \/ approval_step_add \/ approval_step_delete
         \/ companies_home \/ company_edit
         \/ user_new \/ user_edit \/ user_delete \/ roles
  PROVE  CatOK(cat') /\ topic' = topic
<1> DEFINE Good == CatOK(cat') /\ topic' = topic
<1>1. \A class : Delete(class) => Good
  BY DeleteIs
<1>2. \A class \in Classes \ {"unique"} : Create(class, {}) => Good
  BY CreateIs DEF Offers
<1>3. \A class \in Classes \ {"unique"} : \A columns :
        Offers(class, columns) /\ (Create(class, columns) \/ Edit(class, columns)) => Good
  BY CreateIs, EditIs
<1> HIDE DEF Good
<1>4. /\ (form_delete => Good) /\ (form_item_delete => Good) /\ (menu_delete => Good)
      /\ (dashboard_delete => Good) /\ (widget_delete => Good)
  BY <1>1 DEF form_delete, form_item_delete, menu_delete, dashboard_delete, widget_delete
<1>5. /\ (view_delete => Good) /\ (trigger_delete => Good) /\ (sla_policy_delete => Good)
      /\ (recurring_delete => Good) /\ (maintenance_delete => Good)
  BY <1>1 DEF view_delete, trigger_delete, sla_policy_delete, recurring_delete,
     maintenance_delete
<1>6. /\ (mailbox_delete => Good) /\ (connection_delete => Good) /\ (feed_delete => Good)
      /\ (webhook_delete => Good) /\ (pull_delete => Good)
  BY <1>1 DEF mailbox_delete, connection_delete, feed_delete, webhook_delete, pull_delete
<1>7. /\ (report_delete => Good) /\ (workflow_delete => Good)
      /\ (approval_step_delete => Good) /\ (user_delete => Good)
  BY <1>1 DEF report_delete, workflow_delete, approval_step_delete, user_delete
<1>8. /\ (form_new => Good) /\ (dashboard_create => Good) /\ (view_save => Good)
      /\ (trigger_create => Good)
  <2>1. "form" \in Classes /\ "dashboard" \in Classes /\ "view" \in Classes /\ "trigger" \in Classes
    BY ClassesAre
  <2> QED BY <1>2, <2>1 DEF form_new, dashboard_create, view_save, trigger_create
<1>9. /\ (sla_policy_create => Good) /\ (recurring_home => Good)
      /\ (connection_create => Good) /\ (feed_create => Good)
  <2>1. "sla" \in Classes /\ "recurring" \in Classes /\ "connection" \in Classes /\ "feed" \in Classes
    BY ClassesAre
  <2> QED BY <1>2, <2>1 DEF sla_policy_create, recurring_home, connection_create,
     feed_create
<1>10. /\ (webhook_create => Good) /\ (pull_create => Good) /\ (report_save => Good)
      /\ (source_create => Good)
  <2>1. "webhook" \in Classes /\ "pull" \in Classes /\ "report" \in Classes /\ "source" \in Classes
    BY ClassesAre
  <2> QED BY <1>2, <2>1 DEF webhook_create, pull_create, report_save, source_create
<1>11. (roles => Good)
  <2>1. "role" \in Classes
    BY ClassesAre
  <2> QED BY <1>2, <2>1 DEF roles
<1>12. (menu_new => Good) /\ (menu_edit => Good)
  <2>1. "menu" \in Classes /\ Offers("menu", DOMAIN MetaMenu)
    BY ClassesAre, ModelIs DEF Offers, MetaMenu
  <2> QED BY <1>3, <2>1 DEF menu_new, menu_edit
<1>13. (widget_add => Good) /\ (widget_edit => Good)
  <2>1. "widget" \in Classes /\ Offers("widget", {"table_id"})
    BY ClassesAre, ModelIs DEF Offers, DashboardWidget
  <2> QED BY <1>3, <2>1 DEF widget_add, widget_edit
<1>14. (maintenance_home => Good)
  <2>1. "window" \in Classes /\ Offers("window", DOMAIN MaintenanceWindow)
    BY ClassesAre, ModelIs DEF Offers, MaintenanceWindow
  <2> QED BY <1>3, <2>1 DEF maintenance_home
<1>15. (mailboxes_home => Good) /\ (mailbox_edit => Good)
  <2>1. "mailbox" \in Classes /\ Offers("mailbox", DOMAIN Mailbox)
    BY ClassesAre, ModelIs DEF Offers, Mailbox
  <2> QED BY <1>3, <2>1 DEF mailboxes_home, mailbox_edit
<1>16. (trigger_edit => Good)
  <2>1. "trigger" \in Classes /\ Offers("trigger", DOMAIN TriggerRule \ {"table_id"})
    BY ClassesAre, ModelIs DEF Offers, TriggerRule
  <2> QED BY <1>3, <2>1 DEF trigger_edit
<1>17. (sla_policy_edit => Good)
  <2>1. "sla" \in Classes /\ Offers("sla", DOMAIN SlaPolicy \ {"table_id"})
    BY ClassesAre, ModelIs DEF Offers, SlaPolicy
  <2> QED BY <1>3, <2>1 DEF sla_policy_edit
<1>18. (feed_edit => Good)
  <2>1. "feed" \in Classes /\ Offers("feed", DOMAIN Feed \ {"source_table_id"})
    BY ClassesAre, ModelIs DEF Offers, Feed
  <2> QED BY <1>3, <2>1 DEF feed_edit
<1>19. (webhook_edit => Good)
  <2>1. "webhook" \in Classes /\ Offers("webhook", {"user_id"})
    BY ClassesAre, ModelIs DEF Offers, Webhook
  <2> QED BY <1>3, <2>1 DEF webhook_edit
<1>20. (pull_edit => Good)
  <2>1. "pull" \in Classes /\ Offers("pull", DOMAIN PullSource \ {"target_table_id"})
    BY ClassesAre, ModelIs DEF Offers, PullSource
  <2> QED BY <1>3, <2>1 DEF pull_edit
<1>21. (approval_step_add => Good)
  <2>1. "step" \in Classes /\ Offers("step", {"approver_role", "approver_user_id"})
    BY ClassesAre, ModelIs DEF Offers, ApprovalStep
  <2> QED BY <1>3, <2>1 DEF approval_step_add
<1>22. (companies_home => Good) /\ (company_edit => Good)
  <2>1. "company" \in Classes /\ Offers("company", DOMAIN Company)
    BY ClassesAre, ModelIs DEF Offers, Company
  <2> QED BY <1>3, <2>1 DEF companies_home, company_edit
<1>23. (user_new => Good) /\ (user_edit => Good)
  <2>1. "user" \in Classes /\ Offers("user", {"company_id"}) /\ Offers("user", DOMAIN AppUser)
    BY ClassesAre, ModelIs DEF Offers, AppUser
  <2> QED BY <1>3, <2>1 DEF user_new, user_edit
<1>24. Good
  BY <1>4, <1>5, <1>6, <1>7, <1>8, <1>9, <1>10, <1>11, <1>12, <1>13, <1>14, <1>15, <1>16,
     <1>17, <1>18, <1>19, <1>20, <1>21, <1>22, <1>23
<1> QED
  BY <1>24 DEF Good

\* The rows that a form's page adds.
LEMMA ItemRowIs ==
  ASSUME NEW c, NEW k, k[1] = "item", NEW form \in RowsIn(c, "form"), NEW m, NEW v,
         \/ m = "form_id" /\ v = form
         \/ m = "field_id" /\ v \in RowsIn(c, "field")
         \/ m = "relation_id" /\ v \in RowsIn(c, "relation")
  PROVE  RowOK(c, k, NewItem(form, m, v))
<1> DEFINE row == [x \in DOMAIN MetaFormField |->
                     CASE x = "form_id" -> form [] x = m -> v [] OTHER -> None]
<1>1. /\ Columns(k) = {"form_id", "field_id", "relation_id", "parent_field_id", "filter_field_id"}
      /\ DOMAIN MetaFormField = Columns(k)
      /\ Column(k, "form_id").to = "form" /\ Column(k, "field_id").to = "field"
      /\ Column(k, "relation_id").to = "relation"
  BY MoreColumns, KindsAre DEF MetaFormField
<1>2. DOMAIN row = Columns(k) /\ row["form_id"] = form
  BY <1>1
<1>3. \A x \in Columns(k) : x # "form_id" => row[x] = IF x = m THEN v ELSE None
  BY <1>1
<1> HIDE DEF row
<1>4. Refers(c, k, "form_id", form)
  BY <1>1 DEF Refers, RowsIn
<1>5. m # "form_id" => Refers(c, k, m, v)
  BY <1>1 DEF Refers, RowsIn
<1>6. ASSUME NEW x \in Columns(k) PROVE Refers(c, k, x, row[x])
  <2>1. Refers(c, k, x, None)
    BY DEF Refers
  <2> QED BY <1>2, <1>3, <1>4, <1>5, <2>1
<1> QED
  BY <1>2, <1>6 DEF RowOK, row, NewItem

LEMMA ItemOffered ==
  ASSUME NEW k, k[1] = "item", NEW row, NEW r \in Offered(k, row, "relation_id")
  PROVE  r \in RowsIn(cat, "relation")
<1>1. Column(k, "relation_id").to = "relation"
  BY MoreColumns, KindsAre
<1>2. r \in DOMAIN cat /\ r[1] = Column(k, "relation_id").to
  BY OfferedIs
<1> QED
  BY <1>1, <1>2 DEF RowsIn

LEMMA AddItemIs ==
  ASSUME CatOK(cat), topic.each \in Nat, add_form_item
  PROVE  CatOK(cat') /\ topic' = topic
<1> DEFINE k == NewKey("item")
<1>1. "item" \in Classes
  BY ClassesAre
<1>2. k \in Keys /\ k[1] = "item"
  BY <1>1, FreshKey DEF add_form_item
<1> HIDE DEF k
<1>3. PICK form \in RowsIn(cat, "form") :
        \/ cat' = With(cat, k, NewItem(form, "form_id", form))
        \/ \E f \in Unused(form) : cat' = With(cat, k, NewItem(form, "field_id", f))
        \/ \E r \in Offered(k, NewItem(form, "form_id", form), "relation_id") :
             cat' = With(cat, k, NewItem(form, "relation_id", r))
  BY DEF add_form_item, k, Rows
<1>4. RowOK(cat, k, NewItem(form, "form_id", form))
  BY <1>2, ItemRowIs
<1>5. ASSUME NEW f \in Unused(form) PROVE RowOK(cat, k, NewItem(form, "field_id", f))
  <2>1. f \in RowsIn(cat, "field")
    BY DEF Unused, FieldsOf, FieldsIn
  <2> QED BY <1>2, <2>1, ItemRowIs
<1>6. ASSUME NEW r \in Offered(k, NewItem(form, "form_id", form), "relation_id")
      PROVE  RowOK(cat, k, NewItem(form, "relation_id", r))
  <2>1. r \in RowsIn(cat, "relation")
    BY <1>2, ItemOffered
  <2> QED BY <1>2, <2>1, ItemRowIs
<1>7. \A row : RowOK(cat, k, row) => CatOK(With(cat, k, row))
  BY <1>2, WithIs
<1>8. CatOK(cat')
  BY <1>3, <1>4, <1>5, <1>6, <1>7
<1> QED
  BY <1>8 DEF add_form_item

LEMMA EditItemIs ==
  ASSUME CatOK(cat), form_item_edit
  PROVE  CatOK(cat') /\ topic' = topic
<1>1. PICK k \in Rows("item"), m \in {"parent_field_id", "filter_field_id"} :
        \E v \in (Offered(k, cat[k], m) \ {cat[k].field_id}) \cup {None} :
          /\ v \in DOMAIN cat => cat[v].related_table_id # None
          /\ cat' = [cat EXCEPT ![k] =
                       [x \in DOMAIN @ |->
                          CASE x = m -> v
                            [] x # m /\ x \in {"parent_field_id", "filter_field_id"}
                                 /\ @[x] = Gone -> None
                            [] OTHER -> @[x]]]
  BY DEF form_item_edit
<1>2. PICK v \in Offered(k, cat[k], m) \cup {None} :
          cat' = [cat EXCEPT ![k] =
                    [x \in DOMAIN cat[k] |->
                       CASE x = m -> v
                         [] x # m /\ x \in {"parent_field_id", "filter_field_id"}
                              /\ cat[k][x] = Gone -> None
                         [] OTHER -> cat[k][x]]]
  BY <1>1
<1>3. k \in DOMAIN cat /\ k[1] = "item" /\ RowOK(cat, k, cat[k])
  BY TypedRows DEF Rows, RowsIn, CatOK
<1>4. v = None \/ (v \in DOMAIN cat /\ v[1] = Column(k, m).to)
  <2>1. Column(k, "parent_field_id").to = "field" /\ Column(k, "filter_field_id").to = "field"
    BY <1>3, MoreColumns, KindsAre
  <2> QED BY <1>2, <2>1, OfferedIs
<1> DEFINE row == [x \in DOMAIN cat[k] |->
                     CASE x = m -> v
                       [] x # m /\ x \in {"parent_field_id", "filter_field_id"}
                            /\ cat[k][x] = Gone -> None
                       [] OTHER -> cat[k][x]]
<1>5. RowOK(cat, k, row)
  <2>1. DOMAIN row = Columns(k)
    BY <1>3 DEF RowOK
  <2>2. ASSUME NEW x \in Columns(k) PROVE Refers(cat, k, x, row[x])
    <3>1. (row[x] = v /\ x = m) \/ row[x] \in {None, cat[k][x]}
      BY <1>3 DEF RowOK
    <3> QED BY <1>3, <1>4, <3>1 DEF RowOK, Refers
  <2> QED BY <2>1, <2>2 DEF RowOK
<1>6. cat' = [cat EXCEPT ![k] = row]
  BY <1>2
<1> HIDE DEF row
<1>7. CatOK(cat')
  BY <1>3, <1>5, <1>6, ChangeIs
<1> QED
  BY <1>7 DEF form_item_edit

\* What a form's page generates for the rows of a set.
LEMMA ItemsAre ==
  ASSUME NEW c, CatOK(c), NEW form \in RowsIn(c, "form"),
         NEW S \in SUBSET RowsIn(c, "field"), NEW T \in SUBSET RowsIn(c, "relation"), NEW rows,
         rows = {NewItem(form, "field_id", f) : f \in S}
                \cup {NewItem(form, "relation_id", r) : r \in T}
  PROVE  /\ IsFiniteSet(rows)
         /\ \A row \in rows : \A k : k[1] = "item" => RowOK(c, k, row)
<1> DEFINE g == [f \in S |-> NewItem(form, "field_id", f)]
           h == [r \in T |-> NewItem(form, "relation_id", r)]
           A == {g[f] : f \in S}
           B == {h[r] : r \in T}
<1>1. rows = A \cup B
  OBVIOUS
<1>2. IsFiniteSet(S) /\ IsFiniteSet(T)
  <2>1. S \in SUBSET DOMAIN c /\ T \in SUBSET DOMAIN c
    BY DEF RowsIn
  <2> QED BY <2>1, FS_Subset DEF CatOK
<1>3. ASSUME NEW f \in S, NEW k, k[1] = "item" PROVE RowOK(c, k, g[f])
  BY <1>3, ItemRowIs
<1>4. ASSUME NEW r \in T, NEW k, k[1] = "item" PROVE RowOK(c, k, h[r])
  BY <1>4, ItemRowIs
<1>5. g \in Surjection(S, A) /\ h \in Surjection(T, B)
  <2>1. g \in [S -> A] /\ h \in [T -> B]
    OBVIOUS
  <2> HIDE DEF g, h
  <2> QED BY <2>1 DEF Surjection
<1> HIDE DEF g, h
<1>6. IsFiniteSet(A) /\ IsFiniteSet(B)
  <2> HIDE DEF A, B
  <2> QED BY <1>2, <1>5, FS_Surjection
<1> HIDE DEF A, B
<1>7. IsFiniteSet(rows)
  BY <1>1, <1>6, FS_Union, ZenonT(30)
<1> QED
  BY <1>1, <1>3, <1>4, <1>7 DEF A, B

LEMMA AddAllIs ==
  ASSUME CatOK(cat), topic.each \in Nat, form_add_all
  PROVE  CatOK(cat') /\ topic' = topic
<1>1. PICK form \in Rows("form") :
        /\ RoomFor("item", Cardinality(Generated(form)))
        /\ cat' = WithAll(cat, "item", Generated(form))
        /\ UNCHANGED topic
  BY DEF form_add_all
<1> DEFINE S == Unused(form)
           T == Offered(<<"item", 0>>, NewItem(form, "form_id", form), "relation_id")
                 \ {cat[i].relation_id : i \in {i \in Rows("item") : cat[i].form_id = form}}
<1>2. S \in SUBSET RowsIn(cat, "field")
  BY DEF Unused, FieldsOf, FieldsIn
<1>3. T \in SUBSET RowsIn(cat, "relation")
  <2>1. <<"item", 0>>[1] = "item"
    OBVIOUS
  <2> QED BY <2>1, ItemOffered
<1>4. Generated(form) = {NewItem(form, "field_id", f) : f \in S}
                        \cup {NewItem(form, "relation_id", r) : r \in T}
  BY DEF Generated
<1> HIDE DEF S, T
<1>5. form \in RowsIn(cat, "form")
  BY <1>1 DEF Rows
<1>6. /\ IsFiniteSet(Generated(form))
      /\ \A row \in Generated(form) : \A k : k[1] = "item" => RowOK(cat, k, row)
  BY <1>2, <1>3, <1>4, <1>5, ItemsAre
<1>7. "item" \in Classes \ {"unique"}
  BY ClassesAre
<1>8. Cardinality(Generated(form)) <= Cardinality(FreeKeys(cat, "item"))
  BY <1>1 DEF RoomFor
<1>9. CatOK(WithAll(cat, "item", Generated(form)))
  BY <1>6, <1>7, <1>8, WithAllIs
<1> QED
  BY <1>1, <1>9

\* A new form takes no key of an item.
LEMMA NewFormIs ==
  ASSUME CatOK(cat), topic.each \in Nat, Room("form"), NEW row, NEW k, k = NewKey("form"),
         RowOK(cat, k, row)
  PROVE  /\ CatOK(With(cat, k, row)) /\ k \in RowsIn(With(cat, k, row), "form")
         /\ FreeKeys(With(cat, k, row), "item") = FreeKeys(cat, "item")
         /\ \A S : S \in SUBSET RowsIn(cat, "field") => S \in SUBSET RowsIn(With(cat, k, row), "field")
         /\ \A S : S \in SUBSET RowsIn(cat, "relation") =>
              S \in SUBSET RowsIn(With(cat, k, row), "relation")
<1>1. k \in Keys /\ k[1] = "form"
  <2>1. "form" \in Classes
    BY ClassesAre
  <2> QED BY <2>1, FreshKey
<1>2. CatOK(With(cat, k, row))
  BY <1>1, WithIs
<1>3. DOMAIN With(cat, k, row) = DOMAIN cat \cup {k}
  BY DEF With
<1>4. FreeKeys(With(cat, k, row), "item") = FreeKeys(cat, "item")
  <2>1. \A n : <<"item", n>> # k
    BY <1>1
  <2> QED BY <1>3, <2>1 DEF FreeKeys
<1> QED
  BY <1>1, <1>2, <1>3, <1>4 DEF RowsIn

LEMMA GenerateIs ==
  ASSUME CatOK(cat), topic.each \in Nat, generate_form
  PROVE  CatOK(cat') /\ topic' = topic
<1> DEFINE k == NewKey("form")
<1>1. PICK t \in Rows("table") :
        /\ RoomFor("item", Cardinality(GeneratedFor(k, t)) + 1)
        /\ cat' = WithAll(With(cat, k, [table_id |-> t]), "item", GeneratedFor(k, t))
  BY DEF generate_form
<1> DEFINE c == With(cat, k, [table_id |-> t])
           items == GeneratedFor(k, t)
           S == FieldsOf(t)
           T == {r \in Rows("relation") : /\ cat[r].from_field_id = None
                                          /\ t \in {cat[r].from_table_id, cat[r].to_table_id}}
<1>2. k[1] = "form"
  <2>1. "form" \in Classes
    BY ClassesAre
  <2> QED BY <2>1, FreshKey DEF generate_form
<1>3. RowOK(cat, k, [table_id |-> t])
  <2>1. Columns(k) = {"table_id"} /\ Column(k, "table_id").to = "table"
    BY <1>2, MoreColumns, KindsAre
  <2> QED BY <1>1, <2>1 DEF RowOK, Refers, Rows, RowsIn
<1>4. items = {NewItem(k, "field_id", f) : f \in S} \cup {NewItem(k, "relation_id", r) : r \in T}
  BY DEF GeneratedFor, NewItem
<1>5. S \in SUBSET RowsIn(cat, "field") /\ T \in SUBSET RowsIn(cat, "relation")
  BY DEF FieldsOf, FieldsIn, Rows
<1> HIDE DEF S, T, items, k
<1>6. /\ CatOK(c) /\ k \in RowsIn(c, "form") /\ FreeKeys(c, "item") = FreeKeys(cat, "item")
      /\ S \in SUBSET RowsIn(c, "field") /\ T \in SUBSET RowsIn(c, "relation")
  BY <1>3, <1>5, NewFormIs DEF generate_form, k
<1> HIDE DEF c
<1>7. IsFiniteSet(items) /\ \A row \in items : \A x : x[1] = "item" => RowOK(c, x, row)
  BY <1>4, <1>6, ItemsAre
<1>8. Cardinality(items) <= Cardinality(FreeKeys(c, "item"))
  <2>1. Cardinality(items) + 1 <= Cardinality(FreeKeys(cat, "item"))
    BY <1>1 DEF RoomFor, items
  <2>2. Cardinality(items) \in Nat
    BY <1>7, FS_CardinalityType
  <2>3. Cardinality(FreeKeys(c, "item")) \in Nat
    BY FreeFinite, FS_CardinalityType
  <2> QED BY <1>6, <2>1, <2>2, <2>3
<1>9. "item" \in Classes \ {"unique"}
  BY ClassesAre
<1>10. CatOK(WithAll(c, "item", items))
  BY <1>6, <1>7, <1>8, <1>9, WithAllIs
<1> QED
  BY <1>1, <1>10 DEF c, items, generate_form

LEMMA DuplicateIs ==
  ASSUME CatOK(cat), topic.each \in Nat, form_duplicate
  PROVE  CatOK(cat') /\ topic' = topic
<1> DEFINE k == NewKey("form")
           On(form) == {i \in Rows("item") : cat[i].form_id = form}
           Items(form) == {[cat[i] EXCEPT !.form_id = k] : i \in On(form)}
<1>1. PICK form \in Rows("form") :
        /\ RoomFor("item", Cardinality(Items(form)) + 1)
        /\ cat' = WithAll(With(cat, k, cat[form]), "item", Items(form))
  BY DEF form_duplicate
<1> DEFINE c == With(cat, k, cat[form])
           items == Items(form)
           S == On(form)
<1>2. k[1] = "form" /\ "item" \in Classes \ {"unique"}
  <2>1. "form" \in Classes /\ "item" \in Classes \ {"unique"}
    BY ClassesAre
  <2> QED BY <2>1, FreshKey DEF form_duplicate
<1>3. RowOK(cat, k, cat[form])
  <2>1. RowOK(cat, form, cat[form]) /\ form[1] = "form"
    BY <1>1, TypedRows DEF CatOK, Rows, RowsIn
  <2> QED BY <1>2, <2>1 DEF RowOK, Refers, Columns, Column
<1>4. S \in SUBSET DOMAIN cat /\ \A i \in S : i[1] = "item"
  BY DEF Rows, RowsIn
<1> HIDE DEF k, S
<1>5. CatOK(c) /\ k \in RowsIn(c, "form") /\ FreeKeys(c, "item") = FreeKeys(cat, "item")
  BY <1>3, NewFormIs DEF form_duplicate, k
<1>6. DOMAIN c = DOMAIN cat \cup {k}
  BY DEF With
<1>7. ASSUME NEW i \in S, NEW x, x[1] = "item" PROVE RowOK(c, x, [cat[i] EXCEPT !.form_id = k])
  <2>1. RowOK(cat, i, cat[i]) /\ i[1] = "item"
    BY <1>4, TypedRows DEF CatOK
  <2>2. Columns(x) = Columns(i) /\ \A m : Column(x, m) = Column(i, m)
    BY <1>7, <2>1 DEF Columns, Column
  <2>3. Column(x, "form_id").to = "form" /\ "form_id" \in Columns(x)
    BY <1>7, MoreColumns, KindsAre
  <2>4. Refers(c, x, "form_id", k)
    BY <1>2, <1>6, <2>3 DEF Refers
  <2>5. \A m \in Columns(x) : Refers(c, x, m, cat[i][m])
    BY <1>6, <2>1, <2>2 DEF RowOK, Refers
  <2>6. DOMAIN cat[i] = Columns(x)
    BY <2>1, <2>2 DEF RowOK
  <2> QED BY <2>3, <2>4, <2>5, <2>6 DEF RowOK
<1>8. IsFiniteSet(items) /\ \A row \in items : \A x : x[1] = "item" => RowOK(c, x, row)
  <2> DEFINE g == [i \in S |-> [cat[i] EXCEPT !.form_id = k]]
  <2>1. items = {[cat[i] EXCEPT !.form_id = k] : i \in S}
    BY DEF S, k
  <2>2. g \in Surjection(S, items)
    BY <2>1 DEF Surjection
  <2>3. IsFiniteSet(S)
    BY <1>4, FS_Subset DEF CatOK
  <2> HIDE DEF g
  <2>4. IsFiniteSet(items)
    BY <2>2, <2>3, FS_Surjection
  <2> QED BY <1>7, <2>1, <2>4
<1>9. RoomFor("item", Cardinality(items) + 1) /\ cat' = WithAll(c, "item", items)
  BY <1>1 DEF k
<1> HIDE DEF c, items, On, Items
<1>10. Cardinality(items) <= Cardinality(FreeKeys(c, "item"))
  <2>1. Cardinality(items) + 1 <= Cardinality(FreeKeys(cat, "item"))
    BY <1>9 DEF RoomFor
  <2>2. Cardinality(items) \in Nat
    BY <1>8, FS_CardinalityType
  <2>3. Cardinality(FreeKeys(c, "item")) \in Nat
    BY FreeFinite, FS_CardinalityType
  <2> QED BY <1>5, <2>1, <2>2, <2>3
<1>11. CatOK(WithAll(c, "item", items))
  BY <1>2, <1>5, <1>8, <1>10, WithAllIs
<1> QED
  BY <1>9, <1>11 DEF form_duplicate

LEMMA WorkflowIs ==
  ASSUME CatOK(cat), topic.each \in Nat, workflow_create
  PROVE  CatOK(cat') /\ topic' = topic
<1> DEFINE k == NewKey("workflow")
<1>1. PICK f \in Rows("field") : cat' = With(cat, k, [table_id |-> cat[f].table_id, field_id |-> f])
  BY DEF workflow_create
<1>2. k \in Keys /\ k[1] = "workflow"
  <2>1. "workflow" \in Classes
    BY ClassesAre
  <2> QED BY <2>1, FreshKey DEF workflow_create
<1> HIDE DEF k
<1>3. f \in DOMAIN cat /\ f[1] = "field"
  BY <1>1 DEF Rows, RowsIn
<1>4. /\ Columns(k) = {"table_id", "field_id"} /\ Column(k, "table_id") = Key("table")
      /\ Column(k, "field_id") = Key("field")
  BY <1>2, MoreColumns
<1>5. Refers(cat, k, "table_id", cat[f].table_id)
  <2>1. Refers(cat, f, "table_id", cat[f].table_id)
    BY <1>3, CoreColumns, TypedRows DEF CatOK, RowOK
  <2>2. Column(f, "table_id") = Key("table")
    BY <1>3, CoreColumns
  <2> QED BY <1>4, <2>1, <2>2 DEF Refers
<1>6. Refers(cat, k, "field_id", f)
  BY <1>3, <1>4, KindsAre DEF Refers
<1>7. RowOK(cat, k, [table_id |-> cat[f].table_id, field_id |-> f])
  BY <1>4, <1>5, <1>6 DEF RowOK
<1>8. CatOK(cat')
  BY <1>1, <1>2, <1>7, WithIs
<1> QED
  BY <1>8 DEF workflow_create

LEMMA PermissionIs ==
  ASSUME CatOK(cat), topic.each \in Nat, permissions
  PROVE  CatOK(cat') /\ topic' = topic
<1> DEFINE k == NewKey("permission")
<1>1. PICK r \in Rows("role"), f \in Rows("form") : cat' = With(cat, k, [role |-> r, form_id |-> f])
  BY DEF permissions
<1>2. k \in Keys /\ k[1] = "permission"
  <2>1. "permission" \in Classes
    BY ClassesAre
  <2> QED BY <2>1, FreshKey DEF permissions
<1> HIDE DEF k
<1>3. /\ Columns(k) = {"role", "form_id"} /\ Column(k, "role").to = "role"
      /\ Column(k, "form_id").to = "form"
  BY <1>2, MoreColumns, KindsAre
<1>4. RowOK(cat, k, [role |-> r, form_id |-> f])
  BY <1>1, <1>3 DEF RowOK, Refers, Rows, RowsIn
<1>5. CatOK(cat')
  BY <1>1, <1>2, <1>4, WithIs
<1> QED
  BY <1>5 DEF permissions

LEMMA FieldPermissionIs ==
  ASSUME CatOK(cat), topic.each \in Nat, field_permissions
  PROVE  CatOK(cat') /\ topic' = topic
<1> DEFINE k == NewKey("fieldperm")
<1>1. PICK r \in Rows("role"), f \in Rows("field") : cat' = With(cat, k, [role |-> r, field_id |-> f])
  BY DEF field_permissions
<1>2. k \in Keys /\ k[1] = "fieldperm"
  <2>1. "fieldperm" \in Classes
    BY ClassesAre
  <2> QED BY <2>1, FreshKey DEF field_permissions
<1> HIDE DEF k
<1>3. /\ Columns(k) = {"role", "field_id"} /\ Column(k, "role").to = "role"
      /\ Column(k, "field_id").to = "field"
  BY <1>2, MoreColumns, KindsAre
<1>4. RowOK(cat, k, [role |-> r, field_id |-> f])
  BY <1>1, <1>3 DEF RowOK, Refers, Rows, RowsIn
<1>5. CatOK(cat')
  BY <1>1, <1>2, <1>4, WithIs
<1> QED
  BY <1>5 DEF field_permissions

\* The requests that refuse to delete a row that is in use.
LEMMA RefusedDeletes ==
  ASSUME CatOK(cat), source_delete \/ company_delete \/ role_delete
  PROVE  CatOK(cat') /\ topic' = topic
<1>1. topic' = topic
  BY DEF source_delete, company_delete, role_delete
<1>2. \E S : cat' = Without(cat, S)
  BY DEF source_delete, company_delete, role_delete
<1> QED
  BY <1>1, <1>2, WithoutIs

\* A request of one row keeps the types of all.
LEMMA OneRowIs ==
  ASSUME CatOK(cat), topic.each \in Nat, OneRow
  PROVE  CatOK(cat') /\ topic' = topic
<1>1. CASE \/ add_form_item \/ form_item_edit \/ form_add_all \/ generate_form \/ form_duplicate
           \/ workflow_create \/ permissions \/ field_permissions
  BY <1>1, AddItemIs, EditItemIs, AddAllIs, GenerateIs, DuplicateIs, WorkflowIs, PermissionIs,
     FieldPermissionIs
<1>2. CASE source_delete \/ company_delete \/ role_delete
  BY <1>2, RefusedDeletes
<1>3. CASE ~ (\/ add_form_item \/ form_item_edit \/ form_add_all \/ generate_form \/ form_duplicate
              \/ workflow_create \/ permissions \/ field_permissions
              \/ source_delete \/ company_delete \/ role_delete)
  BY <1>3, PlainRows DEF OneRow
<1> QED
  BY <1>1, <1>2, <1>3

-----------------------------------------------------------------------------
(* Steps, and what they store.                                                *)

LEMMA RowKeys ==
  ASSUME NEW c, CatOK(c), NEW k \in DOMAIN c
  PROVE  k \in Keys /\ k # None /\ k # Gone /\ k[1] \in Classes
BY ForeignIs DEF CatOK, Typed, Keys

\* A foreign key names no row that is gone.
LEMMA NotGone ==
  ASSUME NEW c, CatOK(c), NEW k \in DOMAIN c, k[1] \in {"field", "unique"}
  PROVE  /\ c[k].table_id # Gone
         /\ c[k].table_id = None \/ (c[k].table_id \in DOMAIN c /\ c[k].table_id[1] = "table")
<1>1. "table_id" \in Columns(k) /\ Column(k, "table_id") = Key("table")
  BY CoreColumns
<1>2. \/ c[k].table_id = None
      \/ c[k].table_id \in DOMAIN c /\ c[k].table_id[1] = "table"
  <2>1. /\ Column(k, "table_id").on # "nothing" /\ Column(k, "table_id").to = "table"
    BY <1>1, KindsAre
  <2> QED BY <1>1, <2>1 DEF CatOK, Typed
<1>3. c[k].table_id \in DOMAIN c => c[k].table_id # Gone
  BY RowKeys
<1> QED
  BY <1>2, <1>3, ForeignIs

\* Of what the catalogue describes, all is Biggy's own.
LEMMA DescribedOurs ==
  ASSUME NEW c, DOMAIN c \subseteq Keys, NoneIndexed(c),
         \A k \in DOMAIN c : k[1] \in {"field", "unique"} => c[k].table_id # Gone
  PROVE  /\ \A x \in Described(c) : Ours(x)
         /\ \A x \in Described(c) : x[1] = "unique" => x[3] \in Keys /\ x[3][1] = "unique"
<1>1. ASSUME NEW t \in RowsIn(c, "table"), Managed(t) PROVE Ours(Table(t)) /\ Table(t)[1] = "table"
  <2>1. t # Gone
    BY ForeignIs DEF RowsIn
  <2> QED BY <1>1, <2>1 DEF Ours, Table, Kinds, Managed
<1>2. ASSUME NEW f \in RowsIn(c, "field"), Managed(c[f].table_id)
      PROVE  Ours(ColumnOf(c, f)) /\ ColumnOf(c, f)[1] = "column"
  BY <1>2 DEF Ours, ColumnOf, Kinds, Managed, RowsIn
<1>3. \A r : Ours(JunctionOf(c, r)) /\ JunctionOf(c, r)[1] = "junction"
  BY DEF Ours, JunctionOf, Kinds
<1>4. ASSUME NEW u \in RowsIn(c, "unique")
      PROVE  Ours(IndexOf(c, u)) /\ IndexOf(c, u)[3] \in Keys /\ IndexOf(c, u)[3][1] = "unique"
  <2>1. c[u].table_id # Gone /\ Managed(c[u].table_id)
    BY <1>4 DEF RowsIn, NoneIndexed
  <2> QED BY <2>1, <1>4 DEF Ours, IndexOf, Kinds, Managed, RowsIn
<1> QED
  BY <1>1, <1>2, <1>3, <1>4 DEF Described

LEMMA CatDescribes ==
  ASSUME NEW c, CatOK(c)
  PROVE  /\ \A x \in Described(c) : Ours(x)
         /\ \A u \in RowsIn(c, "unique") : Ours(IndexOf(c, u))
         /\ \A f \in RowsIn(c, "field") : Managed(c[f].table_id) => Ours(ColumnOf(c, f))
         /\ \A t \in RowsIn(c, "table") : Managed(t) => Ours(Table(t))
<1>1. \A x \in Described(c) : Ours(x)
  <2>1. \A k \in DOMAIN c : k[1] \in {"field", "unique"} => c[k].table_id # Gone
    BY NotGone
  <2>2. DOMAIN c \subseteq Keys
    BY RowKeys
  <2> QED BY <2>1, <2>2, DescribedOurs DEF CatOK
<1> QED
  BY <1>1 DEF Described

\* What is Biggy's own is not stored of the tables that were there.
LEMMA FallKeeps ==
  ASSUME PhysOK, NEW S, \A x \in S : Ours(x)
  PROVE  Fall(S) \subseteq phys \ Foreign /\ \A y \in Fall(S) : Ours(y)
<1>1. \A y \in Fall(S) :
        /\ y \in phys
        /\ \E x \in S : Same(x, y) \/ (x[1] = "table" /\ y[2] = x[2])
  BY DEF Fall, StoredAs
<1>2. ASSUME NEW y \in Fall(S), y \in Foreign PROVE FALSE
  <2>1. y[1] \in {"table", "column"} /\ y[2] \in External
    BY <1>2, ForeignIs
  <2>2. PICK x \in S : Same(x, y) \/ (x[1] = "table" /\ y[2] = x[2])
    BY <1>1
  <2>3. x[1] \in {"table", "column"} /\ x[2] \in External \cup {Gone}
    BY <2>1, <2>2 DEF Same
  <2> QED BY <2>3 DEF Ours
<1> QED
  BY <1>1, <1>2 DEF PhysOK

LEMMA SeqIs ==
  ASSUME NEW S, NEW s \in Seq(S)
  PROVE  s \in Seq({s[n] : n \in 1 .. Len(s)})
<1> DEFINE R == {s[n] : n \in 1 .. Len(s)}
<1>1. Len(s) \in Nat /\ s = [n \in 1 .. Len(s) |-> s[n]]
  OBVIOUS
<1>2. s \in [1 .. Len(s) -> R]
  BY <1>1
<1> HIDE DEF R
<1>3. s \in Seq(R)
  BY <1>1, <1>2
<1> QED BY <1>3 DEF R

LEMMA StepIs ==
  ASSUME NEW by, NEW S, \A x \in S : Ours(x)
  PROVE  /\ StepOK(Flush, by) /\ StepOK(Commit, by) /\ StepOK(Fail, by)
         /\ StepOK(Build(S), by) /\ StepOK(Drop(S), by) /\ StepOK(OrSkip(Drop(S)), by)
         /\ StepOK(OrUndo(Build(S)), by) /\ StepOK(Step("clear", S, "skip"), by)
         /\ (\A x \in S : x[3] \in Keys /\ x[3][1] = "unique") => StepOK(OrSkip(Build(S)), by)
         /\ (\A x \in S : x[1] = "column") => StepOK(Rename(S), by)
         /\ by \in Whole => StepOK(Wipe, by)
<1> USE DEF StepOK, Step
<1>1. StepOK(Flush, by) /\ StepOK(Commit, by) /\ StepOK(Fail, by)
  BY DEF Flush, Commit, Fail
<1>2. StepOK(Build(S), by) /\ StepOK(Drop(S), by) /\ StepOK(Step("clear", S, "skip"), by)
  BY DEF Build, Drop
<1>3. StepOK(OrSkip(Drop(S)), by) /\ StepOK(OrUndo(Build(S)), by)
  BY DEF Build, Drop, OrSkip, OrUndo
<1>4. (\A x \in S : x[3] \in Keys /\ x[3][1] = "unique") => StepOK(OrSkip(Build(S)), by)
  BY DEF Build, OrSkip
<1>5. (\A x \in S : x[1] = "column") => StepOK(Rename(S), by)
  BY DEF Rename
<1>6. by \in Whole => StepOK(Wipe, by)
  BY DEF Wipe
<1> QED BY <1>1, <1>2, <1>3, <1>4, <1>5, <1>6

LEMMA StepsAre ==
  ASSUME NEW by
  PROVE  /\ StepsOK(<<>>, by)
         /\ \A s : StepOK(s, by) => StepsOK(<<s>>, by)
         /\ \A s, t : StepOK(s, by) /\ StepOK(t, by) => StepsOK(<<s, t>>, by)
         /\ \A s, t, u : StepOK(s, by) /\ StepOK(t, by) /\ StepOK(u, by) => StepsOK(<<s, t, u>>, by)
BY DEF StepsOK

LEMMA StepsJoin ==
  ASSUME NEW by, NEW a, NEW b, StepsOK(a, by), StepsOK(b, by)
  PROVE  StepsOK(a \o b, by) /\ (b # <<>> => a \o b # <<>>) /\ (b # <<>> /\ EndsWell(b) => EndsWell(a \o b))
<1> DEFINE A == {a[n] : n \in 1 .. Len(a)}
           B == {b[n] : n \in 1 .. Len(b)}
<1>1. a \in Seq(A) /\ b \in Seq(B)
  BY DEF StepsOK
<1> HIDE DEF A, B
<1>2. a \o b \in Seq(A \cup B) /\ Len(a \o b) = Len(a) + Len(b) /\ Len(a) \in Nat /\ Len(b) \in Nat
  <2>1. a \in Seq(A \cup B) /\ b \in Seq(A \cup B)
    BY <1>1
  <2> QED BY <2>1
<1>3. \A n \in 1 .. Len(a) + Len(b) : (a \o b)[n] = IF n <= Len(a) THEN a[n] ELSE b[n - Len(a)]
  BY <1>1, <1>2
<1>4. \A n \in 1 .. Len(a \o b) : StepOK((a \o b)[n], by)
  <2>1. ASSUME NEW n \in 1 .. Len(a) + Len(b), n <= Len(a) PROVE StepOK((a \o b)[n], by)
    <3>1. n \in 1 .. Len(a) /\ (a \o b)[n] = a[n]
      BY <1>2, <1>3, <2>1
    <3> QED BY <3>1 DEF StepsOK
  <2>2. ASSUME NEW n \in 1 .. Len(a) + Len(b), ~ (n <= Len(a)) PROVE StepOK((a \o b)[n], by)
    <3>1. n - Len(a) \in 1 .. Len(b) /\ (a \o b)[n] = b[n - Len(a)]
      BY <1>2, <1>3, <2>2
    <3> QED BY <3>1 DEF StepsOK
  <2> QED BY <1>2, <2>1, <2>2
<1>5. a \o b \in Seq({(a \o b)[n] : n \in 1 .. Len(a \o b)})
  BY <1>2, SeqIs
<1>6. b # <<>> => Len(b) > 0
  BY <1>1
<1>7. b # <<>> => a \o b # <<>> /\ (a \o b)[Len(a \o b)] = b[Len(b)]
  BY <1>2, <1>3, <1>6
<1> QED
  BY <1>4, <1>5, <1>7 DEF StepsOK, EndsWell

\* A sequence of statements, one for each member of a set.
LEMMA OrderIs ==
  ASSUME NEW S, IsFiniteSet(S)
  PROVE  SetToSeq(S) \in Seq(S)
<1>1. Cardinality(S) \in Nat
  BY FS_CardinalityType
<1>2. \E f \in [1 .. Cardinality(S) -> S] : IsInjective(f)
  <2>1. PICK f \in Bijection(1 .. Cardinality(S), S) : TRUE
    BY FS_CardinalityType DEF ExistsBijection
  <2>2. f \in [1 .. Cardinality(S) -> S] /\ IsInjective(f)
    BY <2>1 DEF Bijection, Injection
  <2> QED BY <2>2
<1>3. SetToSeq(S) \in [1 .. Cardinality(S) -> S]
  BY <1>2 DEF SetToSeq
<1> QED BY <1>1, <1>3

LEMMA EachIs ==
  ASSUME NEW by, NEW S, IsFiniteSet(S), \A x \in S : Ours(x)
  PROVE  /\ StepsOK(Each(S, OrUndo), by)
         /\ (\A x \in S : x[3] \in Keys /\ x[3][1] = "unique") => StepsOK(Each(S, OrSkip), by)
<1> DEFINE order == SetToSeq(S)
<1>1. order \in Seq(S)
  BY OrderIs
<1>2. Len(order) \in Nat /\ DOMAIN order = 1 .. Len(order) /\ \A n \in 1 .. Len(order) : order[n] \in S
  BY <1>1
<1>3. /\ Each(S, OrUndo) = [n \in 1 .. Len(order) |-> OrUndo(Build({order[n]}))]
      /\ Each(S, OrSkip) = [n \in 1 .. Len(order) |-> OrSkip(Build({order[n]}))]
  BY <1>2 DEF Each
<1> HIDE DEF order
<1>4. \A n \in 1 .. Len(order) : StepOK(OrUndo(Build({order[n]})), by)
  <2>1. \A n \in 1 .. Len(order) : \A x \in {order[n]} : Ours(x)
    BY <1>2
  <2> QED BY <2>1, StepIs
<1>5. ASSUME \A x \in S : x[3] \in Keys /\ x[3][1] = "unique"
      PROVE  \A n \in 1 .. Len(order) : StepOK(OrSkip(Build({order[n]})), by)
  <2>1. \A n \in 1 .. Len(order) : \A x \in {order[n]} : Ours(x) /\ x[3] \in Keys /\ x[3][1] = "unique"
    BY <1>2, <1>5
  <2> QED BY <2>1, StepIs
<1>6. ASSUME NEW steps, NEW f, steps = [n \in 1 .. Len(order) |-> f[n]],
             \A n \in 1 .. Len(order) : StepOK(f[n], by)
      PROVE  StepsOK(steps, by)
  <2> DEFINE R == {f[n] : n \in 1 .. Len(order)}
  <2>1. steps \in [1 .. Len(order) -> R]
    BY <1>6
  <2> HIDE DEF R
  <2>2. steps \in Seq(R) /\ Len(steps) = Len(order)
    BY <1>2, <2>1
  <2>3. steps \in Seq({steps[n] : n \in 1 .. Len(steps)})
    BY <2>2, SeqIs
  <2>4. \A n \in 1 .. Len(steps) : StepOK(steps[n], by)
    BY <1>6, <2>2
  <2> QED BY <2>3, <2>4 DEF StepsOK
<1>7. StepsOK(Each(S, OrUndo), by)
  <2> DEFINE f == [n \in 1 .. Len(order) |-> OrUndo(Build({order[n]}))]
  <2>1. Each(S, OrUndo) = [n \in 1 .. Len(order) |-> f[n]]
    BY <1>3
  <2>2. \A n \in 1 .. Len(order) : StepOK(f[n], by)
    BY <1>4
  <2> HIDE DEF f
  <2> QED BY <1>6, <2>1, <2>2
<1>8. ASSUME \A x \in S : x[3] \in Keys /\ x[3][1] = "unique"
      PROVE  StepsOK(Each(S, OrSkip), by)
  <2> DEFINE f == [n \in 1 .. Len(order) |-> OrSkip(Build({order[n]}))]
  <2>1. Each(S, OrSkip) = [n \in 1 .. Len(order) |-> f[n]]
    BY <1>3
  <2>2. \A n \in 1 .. Len(order) : StepOK(f[n], by)
    BY <1>5, <1>8
  <2> HIDE DEF f
  <2> QED BY <1>6, <2>1, <2>2
<1> QED BY <1>7, <1>8

-----------------------------------------------------------------------------
(* What a request adds and sets.                                              *)

Ref(class, v) == v \in {None, Gone} \/ (v \in Keys /\ v[1] = class)

Core == {"table", "field", "unique", "relation"}

PlainRow(k, row) ==
    /\ k \in Keys /\ k[1] \in Core /\ DOMAIN row = Columns(k)
    /\ \A m \in Columns(k) : Fits(k, m, row[m])
    /\ k[1] = "unique" => Managed(row.table_id)

PlainNew(new) == IsFiniteSet(DOMAIN new) /\ \A k \in DOMAIN new : PlainRow(k, new[k])

LEMMA CoreRows ==
  ASSUME NEW k \in Keys
  PROVE  /\ \A f, s : k[1] = "table" /\ Ref("field", f) /\ Ref("source", s) =>
              PlainRow(k, [display_field_id |-> f, source_id |-> s])
         /\ \A t, to : k[1] = "field" /\ Ref("table", t) /\ Ref("table", to) =>
              PlainRow(k, Field(t, to))
         /\ \A t, f : k[1] = "unique" /\ Ref("table", t) /\ Managed(t) /\ Ref("field", f) =>
              PlainRow(k, [table_id |-> t, field_ids |-> f])
         /\ \A a, b, f : k[1] = "relation" /\ Ref("table", a) /\ Ref("table", b) /\ Ref("field", f) =>
              PlainRow(k, Relation(a, b, f))
<1>1. ASSUME k[1] = "table", NEW f, NEW s, Ref("field", f), Ref("source", s)
      PROVE  PlainRow(k, [display_field_id |-> f, source_id |-> s])
  BY <1>1, CoreColumns, KindsAre DEF PlainRow, Fits, Ref, Core
<1>2. ASSUME k[1] = "field", NEW t, NEW to, Ref("table", t), Ref("table", to)
      PROVE  PlainRow(k, Field(t, to))
  BY <1>2, CoreColumns, KindsAre DEF PlainRow, Fits, Ref, Core, Field
<1>3. ASSUME k[1] = "unique", NEW t, NEW f, Ref("table", t), Managed(t), Ref("field", f)
      PROVE  PlainRow(k, [table_id |-> t, field_ids |-> f])
  BY <1>3, CoreColumns, KindsAre DEF PlainRow, Fits, Ref, Core
<1>4. ASSUME k[1] = "relation", NEW a, NEW b, NEW f, Ref("table", a), Ref("table", b),
             Ref("field", f)
      PROVE  PlainRow(k, Relation(a, b, f))
  <2>1. /\ DOMAIN Relation(a, b, f) = Columns(k)
        /\ Columns(k) = {"from_table_id", "to_table_id", "from_field_id",
                         "from_display_field_ids", "to_display_field_ids"}
        /\ Relation(a, b, f).from_table_id = a /\ Relation(a, b, f).to_table_id = b
        /\ Relation(a, b, f).from_field_id = f
        /\ Relation(a, b, f).from_display_field_ids = None
        /\ Relation(a, b, f).to_display_field_ids = None
    BY <1>4, CoreColumns DEF Relation
  <2>2. /\ Column(k, "from_table_id").to = "table" /\ Column(k, "to_table_id").to = "table"
        /\ Column(k, "from_field_id").to = "field"
    BY <1>4, CoreColumns, KindsAre
  <2>3. \A m \in Columns(k) : Fits(k, m, Relation(a, b, f)[m])
    BY <1>4, <2>1, <2>2 DEF Fits, Ref
  <2> QED BY <1>4, <2>1, <2>3 DEF PlainRow, Core
<1> QED BY <1>1, <1>2, <1>3, <1>4

LEMMA PlainNews ==
  /\ PlainNew(Nothing)
  /\ \A k, row : PlainRow(k, row) => PlainNew(Row(k, row))
  /\ \A f, g : PlainNew(f) /\ PlainNew(g) => PlainNew(Both(f, g))
<1>1. PlainNew(Nothing)
  BY FS_EmptySet DEF PlainNew, Nothing
<1>2. ASSUME NEW k, NEW row, PlainRow(k, row) PROVE PlainNew(Row(k, row))
  <2>1. DOMAIN Row(k, row) = {k} /\ Row(k, row)[k] = row
    BY DEF Row
  <2>2. IsFiniteSet({k})
    BY FS_Singleton
  <2> QED BY <1>2, <2>1, <2>2 DEF PlainNew
<1>3. ASSUME NEW f, NEW g, PlainNew(f), PlainNew(g) PROVE PlainNew(Both(f, g))
  <2>1. /\ DOMAIN Both(f, g) = DOMAIN f \cup DOMAIN g
        /\ \A x \in DOMAIN f : Both(f, g)[x] = f[x]
        /\ \A x \in DOMAIN g : x \notin DOMAIN f => Both(f, g)[x] = g[x]
    BY DEF Both
  <2>2. IsFiniteSet(DOMAIN f \cup DOMAIN g)
    BY <1>3, FS_Union DEF PlainNew
  <2> QED BY <1>3, <2>1, <2>2 DEF PlainNew
<1> QED BY <1>1, <1>2, <1>3

LEMMA PlainNewOK ==
  ASSUME NEW new, PlainNew(new)
  PROVE  NewOK(new) /\ \A k \in DOMAIN new : k[1] \in Core
<1>1. NoneIndexed(new)
  BY DEF PlainNew, PlainRow, NoneIndexed, RowsIn
<1>2. ASSUME NEW k \in DOMAIN new, NEW m \in Columns(k), k[1] \notin {"field", "unique"}
      PROVE  Column(k, m).on = "nothing"
  <2>1. k[1] \in {"table", "relation"}
    BY <1>2 DEF PlainNew, PlainRow, Core
  <2> QED BY <1>2, <2>1, CoreColumns, KindsAre
<1> QED
  BY <1>1, <1>2 DEF NewOK, PlainNew, PlainRow

LEMMA SetsAre ==
  /\ SetOK(cat, Nothing)
  /\ \A k \in DOMAIN cat : \A m \in Columns(k) : \A v :
       Column(k, m).on = "nothing" /\ Ref(Column(k, m).to, v) => SetOK(cat, SetOf(k, m, v))
<1>1. SetOK(cat, Nothing)
  BY DEF SetOK, Nothing
<1>2. ASSUME NEW k \in DOMAIN cat, NEW m \in Columns(k), NEW v, Column(k, m).on = "nothing",
             Ref(Column(k, m).to, v)
      PROVE  SetOK(cat, SetOf(k, m, v))
  <2>1. DOMAIN SetOf(k, m, v) = {k} /\ DOMAIN SetOf(k, m, v)[k] = {m} /\ SetOf(k, m, v)[k][m] = v
    BY DEF SetOf
  <2> QED BY <1>2, <2>1 DEF SetOK, Fits, Ref
<1> QED BY <1>1, <1>2

-----------------------------------------------------------------------------
(* A request starts.                                                          *)

LEMMA IdleIs ==
  /\ DOMAIN Idle.new = {} /\ DOMAIN Idle.set = {} /\ Idle.todo = <<>> /\ Idle.done = {}
  /\ Idle.del = {} /\ Idle.held = {} /\ Idle.by = None /\ Idle.new = Nothing /\ Idle.set = Nothing
  /\ \A c : JobOK(c, Idle)
<1>1. /\ DOMAIN Idle.new = {} /\ DOMAIN Idle.set = {} /\ Idle.todo = <<>> /\ Idle.done = {}
      /\ Idle.del = {} /\ Idle.held = {} /\ Idle.by = None /\ Idle.new = Nothing /\ Idle.set = Nothing
  BY DEF Idle, Asked, Nothing
<1>2. NewOK(Nothing)
  BY PlainNews, PlainNewOK
<1>3. \A c : SetOK(c, Nothing)
  BY DEF SetOK, Nothing
<1>4. StepsOK(<<>>, None) /\ EndsWell(<<>>)
  BY StepsAre DEF EndsWell
<1>5. \A c : JobOK(c, Idle)
  <2>1. Idle = [by |-> Idle.by, todo |-> Idle.todo, new |-> Idle.new, set |-> Idle.set,
                del |-> Idle.del, held |-> Idle.held, done |-> Idle.done, past |-> Idle.past]
    BY DEF Idle, Asked
  <2> QED BY <1>1, <1>2, <1>3, <1>4, <2>1 DEF JobOK
<1> QED BY <1>1, <1>5

\* The request of one designer starts, or takes a step, and nothing else changes.
LEMMA JobIs ==
  ASSUME SchemaInv, NEW d \in Designers, NEW j, job' = [job EXCEPT ![d] = j], JobOK(cat', j),
         topic' = topic, CatOK(cat'), PhysOK',
         cat' # cat => \A e \in Designers \ {d} : JobOK(cat', job[e]),
         \A e \in Designers \ {d} :
           \/ job[e] = Idle
           \/ (j # Idle => j.by \notin Whole) /\ (job[e].by \in Whole => j = Idle)
  PROVE  SchemaInv'
<1>1. job' = [e \in Designers |-> job'[e]] /\ job'[d] = j
      /\ \A e \in Designers : e # d => job'[e] = job[e]
  BY DEF SchemaInv
<1>2. \A e \in Designers : JobOK(cat', job'[e])
  BY <1>1 DEF SchemaInv
<1>3. Lonely'
  BY <1>1 DEF Lonely, SchemaInv, Busy
<1> QED
  BY <1>1, <1>2, <1>3 DEF SchemaInv

\* Steps that a request may set out with.
GoodSteps(todo, by) == todo # <<>> /\ StepsOK(todo, by) /\ EndsWell(todo)

LEMMA StartIs ==
  ASSUME SchemaInv, NEW d \in Designers, NEW by, NEW todo, NEW new, NEW set, NEW del,
         Start(d, by, todo, new, set, del), GoodSteps(todo, by), NewOK(new), SetOK(cat, set), DOMAIN new # {} => del = {},
         by \in Whole => Quiet /\ del = {} /\ DOMAIN set = {},
         by \notin Whole => Alone /\ \A k \in DOMAIN new : k[1] \in Core
  PROVE  SchemaInv'
<1> DEFINE j == Asked(by, todo, new, set, del)
<1>1. j = [by |-> by, todo |-> todo, new |-> new, set |-> set, del |-> del,
           held |-> {}, done |-> {}, past |-> FALSE]
  BY DEF Asked
<1>2. job' = [job EXCEPT ![d] = j] /\ cat' = cat /\ phys' = phys /\ topic' = topic
  BY DEF Start
<1> HIDE DEF j
<1>3. JobOK(cat, j)
  <2>1. /\ j.by = by /\ j.todo = todo /\ j.new = new /\ j.set = set /\ j.del = del
        /\ j.held = {} /\ j.done = {} /\ j.past = FALSE
    BY <1>1
  <2>2. j = [by |-> j.by, todo |-> j.todo, new |-> j.new, set |-> j.set, del |-> j.del,
             held |-> j.held, done |-> j.done, past |-> j.past]
    BY <1>1
  <2> QED BY <2>1, <2>2 DEF JobOK, Core, GoodSteps
<1>4. CatOK(cat') /\ PhysOK'
  BY <1>2 DEF SchemaInv, PhysOK
<1>5. ASSUME NEW e \in Designers \ {d}
      PROVE  \/ job[e] = Idle
             \/ (j # Idle => j.by \notin Whole) /\ (job[e].by \in Whole => j = Idle)
  <2>1. CASE by \in Whole
    BY <2>1 DEF Quiet, Busy
  <2>2. CASE by \notin Whole
    BY <1>1, <2>2 DEF Alone
  <2> QED BY <2>1, <2>2
<1> QED
  BY <1>2, <1>3, <1>4, <1>5, JobIs

\* A request that adds tables, fields, relations and constraints, or none.
LEMMA PlainStart ==
  ASSUME SchemaInv, Alone, NEW d \in Designers, NEW by, by \notin Whole, NEW todo, NEW new,
         NEW set, NEW del, Start(d, by, todo, new, set, del),
         GoodSteps(todo, by), PlainNew(new), SetOK(cat, set),
         DOMAIN new # {} => del = {}
  PROVE  SchemaInv'
<1>1. NewOK(new) /\ \A k \in DOMAIN new : k[1] \in Core
  BY PlainNewOK
<1> QED
  BY <1>1, StartIs

LEMMA ShapesAre ==
  ASSUME NEW by, NEW S, \A x \in S : Ours(x)
  PROVE  /\ GoodSteps(<<Flush, Build(S), Commit>>, by) /\ GoodSteps(<<Build(S), Commit>>, by)
         /\ GoodSteps(<<Build(S)>>, by)
         /\ GoodSteps(<<Drop(S), Commit>>, by) /\ GoodSteps(<<Drop(S)>>, by)
         /\ GoodSteps(<<OrSkip(Drop(S)), Commit>>, by)
         /\ StepsOK(<<Flush, Build(S)>>, by)
         /\ (\A x \in S : x[1] = "column") => GoodSteps(<<Flush, Rename(S), Commit>>, by)
         /\ by \in Whole => GoodSteps(<<Step("clear", S, "skip"), Wipe>>, by)
<1>1. /\ StepOK(Flush, by) /\ StepOK(Commit, by) /\ StepOK(Fail, by)
      /\ StepOK(Build(S), by) /\ StepOK(Drop(S), by) /\ StepOK(OrSkip(Drop(S)), by)
      /\ StepOK(Step("clear", S, "skip"), by)
      /\ (\A x \in S : x[1] = "column") => StepOK(Rename(S), by)
      /\ by \in Whole => StepOK(Wipe, by)
  BY StepIs
<1>2. /\ MayBeLast(Commit) /\ MayBeLast(Fail) /\ MayBeLast(Build(S)) /\ MayBeLast(Drop(S))
      /\ MayBeLast(Wipe)
  BY DEF MayBeLast, Commit, Fail, Build, Drop, Wipe, Step
<1> DEFINE Ends(s) == MayBeLast(s)
<1>3. /\ \A s : Ends(s) => EndsWell(<<s>>) /\ <<s>> # <<>>
      /\ \A s, t : Ends(t) => EndsWell(<<s, t>>) /\ <<s, t>> # <<>>
      /\ \A s, t, u : Ends(u) => EndsWell(<<s, t, u>>) /\ <<s, t, u>> # <<>>
  BY DEF EndsWell
<1>4. /\ \A s : StepOK(s, by) /\ Ends(s) => GoodSteps(<<s>>, by)
      /\ \A s, t : StepOK(s, by) /\ StepOK(t, by) /\ Ends(t) => GoodSteps(<<s, t>>, by)
      /\ \A s, t, u : StepOK(s, by) /\ StepOK(t, by) /\ StepOK(u, by) /\ Ends(u) =>
           GoodSteps(<<s, t, u>>, by)
  BY <1>3, StepsAre DEF GoodSteps
<1>5. StepsOK(<<Flush, Build(S)>>, by)
  BY <1>1, StepsAre
<1> QED
  BY <1>1, <1>2, <1>4, <1>5

LEMMA ShortSteps ==
  ASSUME NEW by
  PROVE  GoodSteps(<<Commit>>, by) /\ GoodSteps(<<Fail>>, by) /\ StepsOK(<<Flush>>, by)
<1>1. StepOK(Commit, by) /\ StepOK(Fail, by) /\ StepOK(Flush, by)
  BY DEF StepOK, Commit, Fail, Flush, Step
<1>2. MayBeLast(Commit) /\ MayBeLast(Fail)
  BY DEF MayBeLast, Commit, Fail, Step
<1>3. \A s : MayBeLast(s) => EndsWell(<<s>>) /\ <<s>> # <<>>
  BY DEF EndsWell
<1> QED
  BY <1>1, <1>2, <1>3, StepsAre DEF GoodSteps

LEMMA GoodJoin ==
  ASSUME NEW by, NEW a, NEW b, StepsOK(a, by), GoodSteps(b, by)
  PROVE  GoodSteps(a \o b, by)
BY StepsJoin DEF GoodSteps

LEMMA NamesAre ==
  ASSUME topic.each \in Nat, NEW class \in Classes, NEW t, NEW k \in Names(class, t)
  PROVE  k \in Keys /\ k[1] = class /\ k \notin DOMAIN cat /\ k \notin External /\ k # Gone /\ k # None
<1>1. k \in {<<class, n>> : n \in 1 .. topic.each} /\ k \notin DOMAIN cat \cup External
  BY DEF Names
<1> QED BY <1>1, ForeignIs DEF Keys

LEMMA CoreClasses ==
  /\ "table" \in Classes /\ "field" \in Classes /\ "unique" \in Classes /\ "relation" \in Classes
  /\ "source" \in Classes
BY ClassesAre

LEMMA RowsAre ==
  ASSUME CatOK(cat), NEW class, NEW k \in Rows(class)
  PROVE  k \in DOMAIN cat /\ k \in Keys /\ k[1] = class /\ Ref(class, k) /\ k # Gone /\ k # None
BY RowKeys DEF Rows, RowsIn, Ref

LEMMA TableNewIs ==
  ASSUME SchemaInv, Alone, NEW d \in Designers, table_new(d)
  PROVE  SchemaInv'
<1>1. PICK t \in NewTables, s \in Rows("source") \cup {None} :
        LET table == Row(t, [display_field_id |-> None, source_id |-> s]) IN
        \/ Start(d, "table_new", <<Flush, Build({Table(t)}), Commit>>, table, Nothing, {})
        \/ \E f \in Names("field", None) :
             LET new == Both(table, Row(f, Field(t, None))) IN
             Start(d, "table_new", <<Flush, Build({Table(t), ColumnOf(new, f)}), Commit>>,
                   new, Nothing, {})
  BY DEF table_new
<1> DEFINE table == Row(t, [display_field_id |-> None, source_id |-> s])
<1>2. CatOK(cat) /\ topic.each \in Nat
  BY DEF SchemaInv
<1>3. t \in Keys /\ t[1] = "table" /\ t \notin External \cup {Gone}
  BY <1>1, <1>2, NamesAre, CoreClasses DEF NewTables
<1>4. Ref("source", s) /\ Ref("field", None)
  BY <1>1, <1>2, RowsAre DEF Ref
<1>5. PlainNew(table)
  BY <1>3, <1>4, CoreRows, PlainNews
<1>6. \A x \in {Table(t)} : Ours(x)
  BY <1>3 DEF Ours, Kinds, Table
<1>7. CASE Start(d, "table_new", <<Flush, Build({Table(t)}), Commit>>, table, Nothing, {})
  <2>1. GoodSteps(<<Flush, Build({Table(t)}), Commit>>, "table_new")
    BY <1>6, ShapesAre
  <2> QED
    BY <1>5, <1>7, <2>1, SetsAre, PlainStart DEF Whole
<1>8. ASSUME NEW f \in Names("field", None),
             Start(d, "table_new",
                   <<Flush, Build({Table(t), ColumnOf(Both(table, Row(f, Field(t, None))), f)}),
                     Commit>>, Both(table, Row(f, Field(t, None))), Nothing, {})
      PROVE  SchemaInv'
  <2> DEFINE new == Both(table, Row(f, Field(t, None)))
             S == {Table(t), ColumnOf(new, f)}
  <2>1. f \in Keys /\ f[1] = "field"
    BY <1>2, NamesAre, CoreClasses
  <2>2. Ref("table", t) /\ Ref("table", None)
    BY <1>3 DEF Ref
  <2>3. PlainNew(new)
    BY <1>5, <2>1, <2>2, CoreRows, PlainNews
  <2>4. new[f].table_id = t
    BY <1>3, <2>1 DEF Both, Row, Field
  <2>5. Start(d, "table_new", <<Flush, Build(S), Commit>>, new, Nothing, {})
    BY <1>8
  <2> HIDE DEF new
  <2>6. \A x \in S : Ours(x)
    BY <1>3, <2>4 DEF Ours, Kinds, Table, ColumnOf
  <2> HIDE DEF S
  <2>7. GoodSteps(<<Flush, Build(S), Commit>>, "table_new")
    BY <2>6, ShapesAre
  <2> QED
    BY <2>3, <2>5, <2>7, SetsAre, PlainStart DEF Whole
<1> QED
  BY <1>1, <1>7, <1>8

LEMMA TableFromCsvIs ==
  ASSUME SchemaInv, Alone, NEW d \in Designers, table_from_csv(d)
  PROVE  SchemaInv'
<1>1. PICK t \in NewTables, f \in Names("field", None) :
        LET new == Both(Row(t, [display_field_id |-> f, source_id |-> None]),
                        Row(f, Field(t, None))) IN
        Start(d, "table_from_csv", <<Flush, Build({Table(t), ColumnOf(new, f)}), Commit>>,
              new, Nothing, {})
  BY DEF table_from_csv
<1> DEFINE new == Both(Row(t, [display_field_id |-> f, source_id |-> None]), Row(f, Field(t, None)))
           S == {Table(t), ColumnOf(new, f)}
<1>2. topic.each \in Nat
  BY DEF SchemaInv
<1>3. t \in Keys /\ t[1] = "table" /\ t \notin External \cup {Gone}
  BY <1>1, <1>2, NamesAre, CoreClasses DEF NewTables
<1>4. f \in Keys /\ f[1] = "field"
  BY <1>1, <1>2, NamesAre, CoreClasses
<1>5. Ref("table", t) /\ Ref("field", f) /\ Ref("source", None) /\ Ref("table", None)
  BY <1>3, <1>4 DEF Ref
<1>6. PlainNew(new)
  BY <1>3, <1>4, <1>5, CoreRows, PlainNews
<1>7. new[f].table_id = t
  BY <1>3, <1>4 DEF Both, Row, Field
<1>8. Start(d, "table_from_csv", <<Flush, Build(S), Commit>>, new, Nothing, {})
  BY <1>1
<1> HIDE DEF new
<1>9. \A x \in S : Ours(x)
  BY <1>3, <1>7 DEF Ours, Kinds, Table, ColumnOf
<1> HIDE DEF S
<1>10. GoodSteps(<<Flush, Build(S), Commit>>, "table_from_csv")
  BY <1>9, ShapesAre
<1> QED
  BY <1>6, <1>8, <1>10, SetsAre, PlainStart DEF Whole

LEMMA TableDeleteIs ==
  ASSUME SchemaInv, Alone, NEW d \in Designers, table_delete(d)
  PROVE  SchemaInv'
<1>1. PICK t \in Rows("table") :
        Start(d, "table_delete",
              <<Commit>> \o (IF Managed(t) THEN <<Drop({Table(t)})>> ELSE <<>>), Nothing, Nothing, {t})
  BY DEF table_delete
<1> DEFINE drop_it == IF Managed(t) THEN <<Drop({Table(t)})>> ELSE <<>>
<1>2. CatOK(cat)
  BY DEF SchemaInv
<1>3. GoodSteps(<<Commit>>, "table_delete")
  BY ShortSteps
<1>4. GoodSteps(<<Commit>> \o drop_it, "table_delete")
  <2>1. CASE Managed(t)
    <3>1. \A x \in {Table(t)} : Ours(x)
      BY <1>2, <2>1, CatDescribes DEF Rows
    <3>2. GoodSteps(<<Drop({Table(t)})>>, "table_delete")
      BY <3>1, ShapesAre
    <3>3. drop_it = <<Drop({Table(t)})>>
      BY <2>1
    <3> QED BY <1>3, <3>2, <3>3, GoodJoin DEF GoodSteps
  <2>2. CASE ~ Managed(t)
    <3>1. <<Commit>> \o drop_it = <<Commit>>
      BY <2>2
    <3> QED BY <1>3, <3>1
  <2> QED BY <2>1, <2>2
<1>5. Start(d, "table_delete", <<Commit>> \o drop_it, Nothing, Nothing, {t})
  BY <1>1
<1> HIDE DEF drop_it
<1>6. DOMAIN Nothing = {}
  BY DEF Nothing
<1> QED
  BY <1>4, <1>5, <1>6, SetsAre, PlainNews, PlainStart DEF Whole

LEMMA FieldAddIs ==
  ASSUME SchemaInv, Alone, NEW d \in Designers, field_add(d)
  PROVE  SchemaInv'
<1>1. PICK t \in OwnTables : \E f \in Names("field", t), text \in BOOLEAN :
        LET new == Row(f, Field(t, None)) IN
        Start(d, "field_add", <<Flush, Build({ColumnOf(new, f)}), Commit>>, new,
              IF text /\ cat[t].display_field_id = None THEN SetOf(t, "display_field_id", f)
              ELSE Nothing, {})
  BY DEF field_add
<1>2. PICK f \in Names("field", t), text \in BOOLEAN :
        LET new == Row(f, Field(t, None)) IN
        Start(d, "field_add", <<Flush, Build({ColumnOf(new, f)}), Commit>>, new,
              IF text /\ cat[t].display_field_id = None THEN SetOf(t, "display_field_id", f)
              ELSE Nothing, {})
  BY <1>1
<1> DEFINE new == Row(f, Field(t, None))
           S == {ColumnOf(new, f)}
           set == IF text /\ cat[t].display_field_id = None THEN SetOf(t, "display_field_id", f)
                  ELSE Nothing
<1>3. CatOK(cat) /\ topic.each \in Nat
  BY DEF SchemaInv
<1>4. t \in DOMAIN cat /\ t \in Keys /\ t[1] = "table" /\ t \notin External \cup {Gone}
  BY <1>3, RowsAre DEF OwnTables, Managed
<1>5. f \in Keys /\ f[1] = "field"
  BY <1>3, NamesAre, CoreClasses
<1>6. Ref("table", t) /\ Ref("field", f) /\ Ref("table", None)
  BY <1>4, <1>5 DEF Ref
<1>7. PlainNew(new)
  BY <1>5, <1>6, CoreRows, PlainNews
<1>8. new[f].table_id = t
  BY DEF Row, Field
<1>9. SetOK(cat, set)
  <2>1. /\ "display_field_id" \in Columns(t) /\ Column(t, "display_field_id").on = "nothing"
        /\ Column(t, "display_field_id").to = "field"
    BY <1>4, CoreColumns, KindsAre
  <2> QED BY <1>4, <1>6, <2>1, SetsAre
<1>10. Start(d, "field_add", <<Flush, Build(S), Commit>>, new, set, {})
  BY <1>2
<1> HIDE DEF new, set
<1>11. \A x \in S : Ours(x)
  BY <1>4, <1>8 DEF Ours, Kinds, ColumnOf
<1> HIDE DEF S
<1>12. GoodSteps(<<Flush, Build(S), Commit>>, "field_add")
  BY <1>11, ShapesAre
<1> QED
  BY <1>7, <1>9, <1>10, <1>12, PlainStart DEF Whole

LEMMA NoneAdded == DOMAIN Nothing = {} /\ PlainNew(Nothing)
BY PlainNews DEF Nothing

\* A field of a table of Biggy's own has a column of Biggy's own.
LEMMA NamesakesAre ==
  ASSUME CatOK(cat), NEW t \in OwnTables, NEW f \in Rows("field"), NEW g \in Namesakes(f, t)
  PROVE  g \in Rows("field") /\ cat[g].table_id = t /\ Managed(t)
<1>1. g \in FieldsOf(t) \/ (g = f /\ cat[f].table_id = t)
  BY DEF Namesakes
<1> QED
  BY <1>1 DEF FieldsOf, FieldsIn, Rows, OwnTables

LEMMA FieldDeleteIs ==
  ASSUME SchemaInv, Alone, NEW d \in Designers, field_delete(d)
  PROVE  SchemaInv'
<1>1. PICK t \in OwnTables, f \in Rows("field") : \E g \in Namesakes(f, t) :
        Start(d, "field_delete", <<Drop({ColumnOf(cat, g)}), Commit>>, Nothing,
              NoLongerShown(f, t), {f} \cup RelationOf(f))
  BY DEF field_delete
<1>2. PICK g \in Namesakes(f, t) :
        Start(d, "field_delete", <<Drop({ColumnOf(cat, g)}), Commit>>, Nothing,
              NoLongerShown(f, t), {f} \cup RelationOf(f))
  BY <1>1
<1> DEFINE S == {ColumnOf(cat, g)}
<1>3. CatOK(cat)
  BY DEF SchemaInv
<1>4. \A x \in S : Ours(x)
  BY <1>3, NamesakesAre, CatDescribes DEF Rows
<1>5. SetOK(cat, NoLongerShown(f, t))
  <2>1. t \in DOMAIN cat /\ t[1] = "table"
    BY DEF OwnTables, Rows, RowsIn
  <2>2. ASSUME NEW k \in DOMAIN NoLongerShown(f, t)
        PROVE  k \in DOMAIN cat /\ k[1] = "table"
               /\ DOMAIN NoLongerShown(f, t)[k] = {"display_field_id"}
               /\ NoLongerShown(f, t)[k]["display_field_id"] = None
    BY <2>1, <2>2 DEF NoLongerShown
  <2>3. ASSUME NEW k \in DOMAIN NoLongerShown(f, t)
        PROVE  /\ "display_field_id" \in Columns(k) /\ Column(k, "display_field_id").on = "nothing"
               /\ Fits(k, "display_field_id", None)
    BY <2>2, <2>3, CoreColumns, KindsAre DEF Fits
  <2> QED BY <2>2, <2>3 DEF SetOK
<1>6. Start(d, "field_delete", <<Drop(S), Commit>>, Nothing, NoLongerShown(f, t),
            {f} \cup RelationOf(f))
  BY <1>2
<1> HIDE DEF S
<1>7. GoodSteps(<<Drop(S), Commit>>, "field_delete")
  BY <1>4, ShapesAre
<1> QED
  BY <1>5, <1>6, <1>7, NoneAdded, PlainStart DEF Whole

LEMMA FieldEditIs ==
  ASSUME SchemaInv, Alone, NEW d \in Designers, field_edit(d)
  PROVE  SchemaInv'
<1>1. PICK f \in {f \in Rows("field") : /\ Managed(cat[f].table_id)
                                        /\ cat[f].related_table_id = None} :
        Start(d, "field_edit", <<Flush, Rename({ColumnOf(cat, f)}), Commit>>, Nothing,
              SetOf(f, "table_id", cat[f].table_id), {})
  BY DEF field_edit
<1> DEFINE S == {ColumnOf(cat, f)}
           set == SetOf(f, "table_id", cat[f].table_id)
<1>2. CatOK(cat)
  BY DEF SchemaInv
<1>3. \A x \in S : Ours(x) /\ x[1] = "column"
  BY <1>2, CatDescribes DEF Rows, ColumnOf
<1>4. SetOK(cat, set)
  <2>1. f \in DOMAIN cat /\ f[1] = "field" /\ "table_id" \in Columns(f)
    BY <1>2, RowsAre, CoreColumns
  <2>2. DOMAIN set = {f} /\ DOMAIN set[f] = {"table_id"} /\ set[f]["table_id"] = cat[f].table_id
    BY DEF SetOf
  <2> HIDE DEF set
  <2> QED BY <2>1, <2>2 DEF SetOK
<1>5. Start(d, "field_edit", <<Flush, Rename(S), Commit>>, Nothing, set, {})
  BY <1>1
<1> HIDE DEF S, set
<1>6. GoodSteps(<<Flush, Rename(S), Commit>>, "field_edit")
  BY <1>3, ShapesAre
<1> QED
  BY <1>4, <1>5, <1>6, NoneAdded, PlainStart DEF Whole

LEMMA DisplayFieldIs ==
  ASSUME SchemaInv, Alone, NEW d \in Designers, set_display_field(d)
  PROVE  SchemaInv'
<1>1. PICK t \in Rows("table") : \E f \in FieldsOf(t) \cup {Gone} :
        Start(d, "set_display_field", <<Commit>>, Nothing, SetOf(t, "display_field_id", f), {})
  BY DEF set_display_field
<1>2. PICK f \in FieldsOf(t) \cup {Gone} :
        Start(d, "set_display_field", <<Commit>>, Nothing, SetOf(t, "display_field_id", f), {})
  BY <1>1
<1>3. CatOK(cat)
  BY DEF SchemaInv
<1>4. t \in DOMAIN cat /\ t[1] = "table"
  BY <1>3, RowsAre
<1>5. Ref("field", f)
  BY <1>3, RowsAre DEF FieldsOf, FieldsIn, Rows, Ref
<1>6. SetOK(cat, SetOf(t, "display_field_id", f))
  <2>1. /\ "display_field_id" \in Columns(t) /\ Column(t, "display_field_id").on = "nothing"
        /\ Column(t, "display_field_id").to = "field"
    BY <1>4, CoreColumns, KindsAre
  <2> QED BY <1>4, <1>5, <2>1, SetsAre
<1> QED
  BY <1>2, <1>6, NoneAdded, ShortSteps, PlainStart DEF Whole

LEMMA UniqueAddIs ==
  ASSUME SchemaInv, Alone, NEW d \in Designers, unique_add(d)
  PROVE  SchemaInv'
<1>1. PICK t \in OwnTables, u \in Names("unique", None) : \E f \in FieldsOf(t) :
        LET new == Row(u, [table_id |-> t, field_ids |-> f]) IN
        Start(d, "unique_add", <<Build({IndexOf(new, u)}), Commit>>, new, Nothing, {})
  BY DEF unique_add
<1>2. PICK f \in FieldsOf(t) :
        LET new == Row(u, [table_id |-> t, field_ids |-> f]) IN
        Start(d, "unique_add", <<Build({IndexOf(new, u)}), Commit>>, new, Nothing, {})
  BY <1>1
<1> DEFINE new == Row(u, [table_id |-> t, field_ids |-> f])
           S == {IndexOf(new, u)}
<1>3. CatOK(cat) /\ topic.each \in Nat
  BY DEF SchemaInv
<1>4. t \in Keys /\ t[1] = "table" /\ t \notin External \cup {Gone}
  BY <1>3, RowsAre DEF OwnTables, Managed
<1>5. u \in Keys /\ u[1] = "unique"
  BY <1>3, NamesAre, CoreClasses
<1>6. Ref("table", t) /\ Ref("field", f) /\ Managed(t)
  BY <1>3, <1>4, RowsAre DEF Ref, FieldsOf, FieldsIn, Rows, Managed
<1>7. PlainNew(new)
  BY <1>5, <1>6, CoreRows, PlainNews
<1>8. new[u].table_id = t
  BY DEF Row
<1>9. Start(d, "unique_add", <<Build(S), Commit>>, new, Nothing, {})
  BY <1>2
<1> HIDE DEF new
<1>10. \A x \in S : Ours(x)
  BY <1>4, <1>8 DEF Ours, Kinds, IndexOf
<1> HIDE DEF S
<1>11. GoodSteps(<<Build(S), Commit>>, "unique_add")
  BY <1>10, ShapesAre
<1> QED
  BY <1>7, <1>9, <1>11, SetsAre, PlainStart DEF Whole

LEMMA UniqueDeleteIs ==
  ASSUME SchemaInv, Alone, NEW d \in Designers, unique_delete(d)
  PROVE  SchemaInv'
<1>1. PICK u \in Rows("unique") :
        Start(d, "unique_delete", <<OrSkip(Drop({IndexOf(cat, u)})), Commit>>, Nothing, Nothing, {u})
  BY DEF unique_delete
<1> DEFINE S == {IndexOf(cat, u)}
<1>2. \A x \in S : Ours(x)
  BY CatDescribes DEF Rows, SchemaInv
<1>3. Start(d, "unique_delete", <<OrSkip(Drop(S)), Commit>>, Nothing, Nothing, {u})
  BY <1>1
<1> HIDE DEF S
<1>4. GoodSteps(<<OrSkip(Drop(S)), Commit>>, "unique_delete")
  BY <1>2, ShapesAre
<1> QED
  BY <1>3, <1>4, NoneAdded, SetsAre, PlainStart DEF Whole

LEMMA RelationM1Is ==
  ASSUME SchemaInv, Alone, NEW d \in Designers, relation_new_m1(d)
  PROVE  SchemaInv'
<1>1. PICK a \in OwnTables, b \in Rows("table"), r \in Names("relation", None) :
      \E f \in Names("field", a) :
        LET field == Row(f, Field(a, b)) IN
        /\ SameSource(a, b)
        /\ Start(d, "relation_new_m1", <<Flush, Build({ColumnOf(field, f)}), Commit>>,
                 Both(field, Row(r, Relation(a, b, f))), Nothing, {})
  BY DEF relation_new_m1
<1>2. PICK f \in Names("field", a) :
        LET field == Row(f, Field(a, b)) IN
        /\ SameSource(a, b)
        /\ Start(d, "relation_new_m1", <<Flush, Build({ColumnOf(field, f)}), Commit>>,
                 Both(field, Row(r, Relation(a, b, f))), Nothing, {})
  BY <1>1
<1> DEFINE field == Row(f, Field(a, b))
           new == Both(field, Row(r, Relation(a, b, f)))
           S == {ColumnOf(field, f)}
<1>3. CatOK(cat) /\ topic.each \in Nat
  BY DEF SchemaInv
<1>4. a \in Keys /\ a[1] = "table" /\ a \notin External \cup {Gone}
  BY <1>3, RowsAre DEF OwnTables, Managed
<1>5. f \in Keys /\ f[1] = "field" /\ r \in Keys /\ r[1] = "relation"
  BY <1>3, NamesAre, CoreClasses
<1>6. Ref("table", a) /\ Ref("table", b) /\ Ref("field", f)
  BY <1>3, <1>4, <1>5, RowsAre DEF Ref
<1>7. PlainNew(field) /\ PlainNew(Row(r, Relation(a, b, f)))
  BY <1>5, <1>6, CoreRows, PlainNews
<1>8. PlainNew(new)
  BY <1>7, PlainNews
<1>9. field[f].table_id = a
  BY DEF Row, Field
<1>10. Start(d, "relation_new_m1", <<Flush, Build(S), Commit>>, new, Nothing, {})
  BY <1>2
<1> HIDE DEF field
<1>11. \A x \in S : Ours(x)
  BY <1>4, <1>9 DEF Ours, Kinds, ColumnOf
<1> HIDE DEF S, new
<1>12. GoodSteps(<<Flush, Build(S), Commit>>, "relation_new_m1")
  BY <1>11, ShapesAre
<1> QED
  BY <1>8, <1>10, <1>12, SetsAre, PlainStart DEF Whole

LEMMA RelationMnIs ==
  ASSUME SchemaInv, Alone, NEW d \in Designers, relation_new_mn(d)
  PROVE  SchemaInv'
<1>1. PICK a \in Rows("table"), b \in Rows("table"), r \in Names("relation", None) :
        LET new == Row(r, Relation(a, b, None)) IN
        Start(d, "relation_new_mn", <<Build({JunctionOf(new, r)}), Commit>>, new, Nothing, {})
  BY DEF relation_new_mn
<1> DEFINE new == Row(r, Relation(a, b, None))
           S == {JunctionOf(new, r)}
<1>2. CatOK(cat) /\ topic.each \in Nat
  BY DEF SchemaInv
<1>3. r \in Keys /\ r[1] = "relation"
  BY <1>2, NamesAre, CoreClasses
<1>4. Ref("table", a) /\ Ref("table", b) /\ Ref("field", None)
  BY <1>2, RowsAre DEF Ref
<1>5. PlainNew(new)
  BY <1>3, <1>4, CoreRows, PlainNews
<1>6. Start(d, "relation_new_mn", <<Build(S), Commit>>, new, Nothing, {})
  BY <1>1
<1>7. \A x \in S : Ours(x)
  BY DEF Ours, Kinds, JunctionOf
<1> HIDE DEF S, new
<1>8. GoodSteps(<<Build(S), Commit>>, "relation_new_mn")
  BY <1>7, ShapesAre
<1> QED
  BY <1>5, <1>6, <1>8, SetsAre, PlainStart DEF Whole

LEMMA RelationEditIs ==
  ASSUME SchemaInv, Alone, NEW d \in Designers, relation_edit(d)
  PROVE  SchemaInv'
<1>1. PICK r \in Rows("relation") :
      \E to \in FieldsOf(cat[r].to_table_id) \cup {None} :
      \E from \in (IF cat[r].from_field_id = None THEN FieldsOf(cat[r].from_table_id) ELSE {})
                  \cup {None} :
        Start(d, "relation_edit", <<Commit>>, Nothing,
              Row(r, [to_display_field_ids |-> to, from_display_field_ids |-> from]), {})
  BY DEF relation_edit
<1>2. CatOK(cat)
  BY DEF SchemaInv
<1>3. \A t : \A f \in FieldsOf(t) \cup {None} : Ref("field", f)
  BY <1>2, RowsAre DEF FieldsOf, FieldsIn, Rows, Ref
<1>4. \E to, from : /\ Ref("field", to) /\ Ref("field", from)
                    /\ Start(d, "relation_edit", <<Commit>>, Nothing,
                         Row(r, [to_display_field_ids |-> to, from_display_field_ids |-> from]), {})
  BY <1>1, <1>3
<1>5. PICK to, from : /\ Ref("field", to) /\ Ref("field", from)
                      /\ Start(d, "relation_edit", <<Commit>>, Nothing,
                           Row(r, [to_display_field_ids |-> to, from_display_field_ids |-> from]), {})
  BY <1>4
<1> DEFINE set == Row(r, [to_display_field_ids |-> to, from_display_field_ids |-> from])
<1>6. SetOK(cat, set)
  <2>1. r \in DOMAIN cat /\ r[1] = "relation"
    BY <1>2, RowsAre
  <2>2. /\ DOMAIN set = {r} /\ DOMAIN set[r] = {"to_display_field_ids", "from_display_field_ids"}
        /\ set[r]["to_display_field_ids"] = to /\ set[r]["from_display_field_ids"] = from
    BY DEF Row
  <2> HIDE DEF set
  <2>3. /\ "to_display_field_ids" \in Columns(r) /\ "from_display_field_ids" \in Columns(r)
        /\ Column(r, "to_display_field_ids") = Id("field")
        /\ Column(r, "from_display_field_ids") = Id("field")
    BY <2>1, CoreColumns
  <2> QED BY <1>5, <2>1, <2>2, <2>3, KindsAre DEF SetOK, Fits, Ref
<1>7. Start(d, "relation_edit", <<Commit>>, Nothing, set, {})
  BY <1>5
<1> HIDE DEF set
<1> QED
  BY <1>6, <1>7, NoneAdded, ShortSteps, PlainStart DEF Whole

LEMMA RelationDeleteIs ==
  ASSUME SchemaInv, Alone, NEW d \in Designers, relation_delete(d)
  PROVE  SchemaInv'
<1>1. PICK r \in Rows("relation") :
        LET f == FieldOfRelation(cat, r)
            own == {x \in f : Managed(cat[x].table_id)} IN
        Start(d, "relation_delete",
              (IF cat[r].from_field_id = None THEN <<Drop({JunctionOf(cat, r)})>>
               ELSE IF own # {} THEN <<Drop({ColumnOf(cat, x) : x \in own})>>
               ELSE <<>>) \o <<Commit>>,
              Nothing, Nothing,
              {r} \cup f \cup {i \in Rows("item") : cat[i].relation_id = r})
  BY DEF relation_delete
<1> DEFINE f == FieldOfRelation(cat, r)
           own == {x \in f : Managed(cat[x].table_id)}
           A == {JunctionOf(cat, r)}
           B == {ColumnOf(cat, x) : x \in own}
           drop_it == IF cat[r].from_field_id = None THEN <<Drop(A)>>
                      ELSE IF own # {} THEN <<Drop(B)>> ELSE <<>>
           del == {r} \cup f \cup {i \in Rows("item") : cat[i].relation_id = r}
<1>2. Start(d, "relation_delete", drop_it \o <<Commit>>, Nothing, Nothing, del)
  BY <1>1
<1>3. \A x \in A : Ours(x)
  BY DEF Ours, Kinds, JunctionOf
<1>4. \A x \in B : Ours(x)
  <2>1. \A x \in own : x \in RowsIn(cat, "field") /\ Managed(cat[x].table_id)
    BY DEF FieldOfRelation
  <2>2. \A x \in own : Ours(ColumnOf(cat, x))
    BY <2>1, CatDescribes DEF SchemaInv
  <2> HIDE DEF own
  <2> QED BY <2>2
<1> HIDE DEF A, B, own, del
<1>5. StepsOK(drop_it, "relation_delete")
  <2>1. StepsOK(<<Drop(A)>>, "relation_delete")
    BY <1>3, ShapesAre DEF GoodSteps
  <2>2. StepsOK(<<Drop(B)>>, "relation_delete")
    BY <1>4, ShapesAre DEF GoodSteps
  <2> QED BY <2>1, <2>2, StepsAre
<1> HIDE DEF drop_it
<1>6. GoodSteps(drop_it \o <<Commit>>, "relation_delete")
  BY <1>5, ShortSteps, GoodJoin
<1> QED
  BY <1>2, <1>6, NoneAdded, SetsAre, PlainStart DEF Whole

LEMMA TableFlagsIs ==
  ASSUME SchemaInv, Alone, NEW d \in Designers, table_flags(d)
  PROVE  SchemaInv'
<1>1. PICK t \in Rows("table") :
        Start(d, "table_flags",
              <<Flush>> \o (IF RecordColumns(t) \in phys THEN <<>>
                            ELSE <<Build({RecordColumns(t)})>>) \o <<Commit>>,
              Nothing, SetOf(t, "source_id", cat[t].source_id), {})
  BY DEF table_flags
<1> DEFINE S == {RecordColumns(t)}
           add == IF RecordColumns(t) \in phys THEN <<>> ELSE <<Build(S)>>
           set == SetOf(t, "source_id", cat[t].source_id)
<1>2. Start(d, "table_flags", <<Flush>> \o add \o <<Commit>>, Nothing, set, {})
  BY <1>1
<1>3. CatOK(cat)
  BY DEF SchemaInv
<1>4. SetOK(cat, set)
  <2>1. t \in DOMAIN cat /\ t[1] = "table"
    BY <1>3, RowsAre
  <2>2. "source_id" \in Columns(t) /\ Column(t, "source_id") = Id("source")
    BY <2>1, CoreColumns
  <2>3. Ref("source", cat[t].source_id)
    <3>1. RowOK(cat, t, cat[t])
      BY <1>3, <2>1, TypedRows DEF CatOK
    <3>2. \A k \in DOMAIN cat : k \in Keys
      BY <1>3, RowKeys
    <3> QED BY <2>2, <3>1, <3>2, KindsAre DEF RowOK, Refers, Ref
  <2> QED BY <2>1, <2>2, <2>3, KindsAre, SetsAre
<1>5. \A x \in S : Ours(x)
  BY DEF Ours, Kinds, RecordColumns
<1> HIDE DEF S, set
<1>6. StepsOK(add, "table_flags")
  <2>1. StepsOK(<<Build(S)>>, "table_flags")
    BY <1>5, ShapesAre DEF GoodSteps
  <2> QED BY <2>1, StepsAre
<1> HIDE DEF add
<1>7. GoodSteps(<<Flush>> \o add \o <<Commit>>, "table_flags")
  <2>1. StepsOK(<<Flush>> \o add, "table_flags")
    BY <1>6, ShortSteps, StepsJoin
  <2> QED BY <2>1, ShortSteps, GoodJoin
<1> QED
  BY <1>2, <1>4, <1>7, NoneAdded, PlainStart DEF Whole

LEMMA InjectionIs ==
  ASSUME NEW S, NEW T, IsFiniteSet(S), IsFiniteSet(T), Cardinality(S) <= Cardinality(T), NEW g,
         g = CHOOSE f \in [S -> T] : IsInjective(f)
  PROVE  g \in [S -> T] /\ IsFiniteSet(Range(g)) /\ Range(g) \subseteq T
         /\ \A k \in Range(g) : \E x \in S : g[x] = k
<1>1. g \in [S -> T]
  BY Injects
<1>2. g \in Surjection(S, Range(g))
  BY <1>1 DEF Surjection, Range
<1>3. IsFiniteSet(Range(g))
  BY <1>2, FS_Surjection
<1> QED BY <1>1, <1>3 DEF Range

LEMMA FreeIdsAre ==
  ASSUME topic.each \in Nat, NEW class \in Classes
  PROVE  IsFiniteSet(FreeIds(class)) /\ \A k \in FreeIds(class) : k \in Keys /\ k[1] = class
<1>1. FreeIds(class) \in SUBSET FreeKeys(cat, class)
  BY DEF FreeIds, FreeKeys
<1>2. IsFiniteSet(FreeIds(class))
  BY <1>1, FreeFinite, FS_Subset
<1> QED BY <1>1, <1>2 DEF FreeKeys, Keys

LEMMA TableDuplicateIs ==
  ASSUME SchemaInv, Alone, NEW d \in Designers, table_duplicate(d)
  PROVE  SchemaInv'
<1>1. PICK src \in OwnTables, t \in NewTables :
         LET scalars == {f \in FieldsOf(src) : cat[f].related_table_id = None}
             uniques == {u \in Rows("unique") : cat[u].table_id = src /\ cat[u].field_ids \in scalars}
             field == CHOOSE g \in [scalars -> FreeIds("field")] : IsInjective(g)
             index == CHOOSE g \in [uniques -> FreeIds("unique")] : IsInjective(g)
             CopyOf(f) == IF f \in scalars THEN field[f] ELSE None
             copies == [f \in Range(field) |-> Field(t, None)]
             constraints == [k \in Range(index) |->
                               LET u == CHOOSE u \in uniques : index[u] = k IN
                               [table_id |-> t, field_ids |-> CopyOf(cat[u].field_ids)]] IN
         /\ Cardinality(scalars) <= Cardinality(FreeIds("field"))
         /\ Cardinality(uniques) <= Cardinality(FreeIds("unique"))
         /\ Start(d, "table_duplicate",
                  <<Flush, Build({Table(t)} \cup {ColumnOf(copies, f) : f \in DOMAIN copies})>>
                  \o Each({IndexOf(constraints, u) : u \in DOMAIN constraints}, OrSkip)
                  \o <<Commit>>,
                  Both(Row(t, [display_field_id |-> CopyOf(cat[src].display_field_id),
                               source_id |-> cat[src].source_id]), Both(copies, constraints)),
                  Nothing, {})
  BY DEF table_duplicate
<1> DEFINE scalars == {f \in FieldsOf(src) : cat[f].related_table_id = None}
           uniques == {u \in Rows("unique") : cat[u].table_id = src /\ cat[u].field_ids \in scalars}
           field == CHOOSE g \in [scalars -> FreeIds("field")] : IsInjective(g)
           index == CHOOSE g \in [uniques -> FreeIds("unique")] : IsInjective(g)
           CopyOf(f) == IF f \in scalars THEN field[f] ELSE None
           copies == [f \in Range(field) |-> Field(t, None)]
           constraints == [k \in Range(index) |->
                             [table_id |-> t,
                              field_ids |-> CopyOf(cat[CHOOSE u \in uniques : index[u] = k].field_ids)]]
           S == {Table(t)} \cup {ColumnOf(copies, f) : f \in DOMAIN copies}
           I == {IndexOf(constraints, u) : u \in DOMAIN constraints}
           row == [display_field_id |-> CopyOf(cat[src].display_field_id),
                   source_id |-> cat[src].source_id]
           new == Both(Row(t, row), Both(copies, constraints))
<1>2. /\ Cardinality(scalars) <= Cardinality(FreeIds("field"))
      /\ Cardinality(uniques) <= Cardinality(FreeIds("unique"))
  BY <1>1
<1>3. Start(d, "table_duplicate", <<Flush, Build(S)>> \o Each(I, OrSkip) \o <<Commit>>, new, Nothing, {})
  BY <1>1
<1>4. CatOK(cat) /\ topic.each \in Nat
  BY DEF SchemaInv
<1>5. t \in Keys /\ t[1] = "table" /\ t \notin External \cup {Gone}
  BY <1>1, <1>4, NamesAre, CoreClasses DEF NewTables
<1>6. src \in DOMAIN cat /\ src[1] = "table"
  BY <1>4, RowsAre DEF OwnTables
<1>7. IsFiniteSet(scalars) /\ IsFiniteSet(uniques)
  <2>1. scalars \in SUBSET DOMAIN cat /\ uniques \in SUBSET DOMAIN cat
    BY DEF FieldsOf, FieldsIn, Rows, RowsIn
  <2> QED BY <1>4, <2>1, FS_Subset DEF CatOK
<1> HIDE DEF scalars, uniques
<1>8. /\ field \in [scalars -> FreeIds("field")] /\ IsFiniteSet(Range(field))
      /\ Range(field) \subseteq FreeIds("field")
  BY <1>2, <1>4, <1>7, FreeIdsAre, CoreClasses, InjectionIs
<1>9. /\ IsFiniteSet(Range(index)) /\ Range(index) \subseteq FreeIds("unique")
  BY <1>2, <1>4, <1>7, FreeIdsAre, CoreClasses, InjectionIs
<1> HIDE DEF field, index
<1>10. \A f : Ref("field", CopyOf(f))
  BY <1>4, <1>8, FreeIdsAre, CoreClasses DEF Ref
<1> HIDE DEF CopyOf
<1>11. PlainNew(copies) /\ \A f \in DOMAIN copies : copies[f].table_id = t
  <2>1. Ref("table", t) /\ Ref("table", None)
    BY <1>5 DEF Ref
  <2>2. \A k \in Range(field) : k \in Keys /\ k[1] = "field"
    BY <1>4, <1>8, FreeIdsAre, CoreClasses
  <2>3. \A k \in Range(field) : PlainRow(k, Field(t, None))
    BY <2>1, <2>2, CoreRows
  <2> QED BY <1>8, <2>3 DEF PlainNew, Field
<1>12. /\ PlainNew(constraints) /\ \A k \in DOMAIN constraints : constraints[k].table_id = t
       /\ \A k \in DOMAIN constraints : k \in Keys /\ k[1] = "unique"
  <2>1. Ref("table", t) /\ Managed(t)
    BY <1>5 DEF Ref, Managed
  <2>2. \A k \in Range(index) : k \in Keys /\ k[1] = "unique"
    BY <1>4, <1>9, FreeIdsAre, CoreClasses
  <2>3. \A k \in Range(index) : \A f : PlainRow(k, [table_id |-> t, field_ids |-> CopyOf(f)])
    BY <1>10, <2>1, <2>2, CoreRows
  <2> QED BY <1>9, <2>2, <2>3 DEF PlainNew
<1> HIDE DEF copies, constraints
<1>13. PlainNew(Row(t, row))
  <2>1. Ref("source", cat[src].source_id)
    <3>1. RowOK(cat, src, cat[src])
      BY <1>4, <1>6, TypedRows DEF CatOK
    <3>2. \A k \in DOMAIN cat : k \in Keys
      BY <1>4, RowKeys
    <3>3. "source_id" \in Columns(src) /\ Column(src, "source_id") = Id("source")
      BY <1>6, CoreColumns
    <3> QED BY <3>1, <3>2, <3>3, KindsAre DEF RowOK, Refers, Ref
  <2> QED BY <1>5, <1>10, <2>1, CoreRows, PlainNews
<1> HIDE DEF row
<1>14. PlainNew(new)
  BY <1>11, <1>12, <1>13, PlainNews
<1>15. \A x \in S : Ours(x)
  BY <1>5, <1>11 DEF Ours, Kinds, Table, ColumnOf
<1>16. \A x \in I : Ours(x) /\ x[3] \in Keys /\ x[3][1] = "unique"
  BY <1>5, <1>12 DEF Ours, Kinds, IndexOf
<1>17. IsFiniteSet(I)
  <2> DEFINE g == [u \in DOMAIN constraints |-> IndexOf(constraints, u)]
  <2>1. g \in Surjection(DOMAIN constraints, I)
    BY DEF Surjection
  <2> HIDE DEF g, I
  <2> QED BY <1>12, <2>1, FS_Surjection DEF PlainNew
<1> HIDE DEF S, I, new
<1>18. GoodSteps(<<Flush, Build(S)>> \o Each(I, OrSkip) \o <<Commit>>, "table_duplicate")
  <2>1. StepsOK(<<Flush, Build(S)>>, "table_duplicate")
    BY <1>15, ShapesAre
  <2>2. StepsOK(Each(I, OrSkip), "table_duplicate")
    BY <1>16, <1>17, EachIs
  <2>3. StepsOK(<<Flush, Build(S)>> \o Each(I, OrSkip), "table_duplicate")
    BY <2>1, <2>2, StepsJoin
  <2> QED BY <2>3, ShortSteps, GoodJoin
<1> QED
  BY <1>3, <1>14, <1>18, SetsAre, PlainStart DEF Whole

\* Of a finite set of what is stored, finitely many tables and names.
LEMMA NamesFinite ==
  ASSUME NEW X, IsFiniteSet(X)
  PROVE  /\ IsFiniteSet({x[2] : x \in X}) /\ IsFiniteSet({x[3] : x \in X})
         /\ IsFiniteSet({RelationFor(x) : x \in X})
<1> DEFINE f == [x \in X |-> x[2]]
           g == [x \in X |-> x[3]]
           h == [x \in X |-> RelationFor(x)]
           A == {x[2] : x \in X}
           B == {x[3] : x \in X}
           C == {RelationFor(x) : x \in X}
<1>1. f \in Surjection(X, A) /\ g \in Surjection(X, B) /\ h \in Surjection(X, C)
  BY DEF Surjection
<1> HIDE DEF f, g, h, A, B, C
<1>2. IsFiniteSet(A) /\ IsFiniteSet(B) /\ IsFiniteSet(C)
  BY <1>1, FS_Surjection
<1> QED BY <1>2 DEF A, B, C

LEMMA ExternalFinite == IsFiniteSet(External)
<1> DEFINE X == {x \in Foreign : x[1] = "table"}
<1>1. IsFiniteSet(X)
  <2>1. X \in SUBSET Foreign
    OBVIOUS
  <2> QED BY <2>1, FS_Subset, ForeignIs
<1> HIDE DEF X
<1>2. IsFiniteSet({x[2] : x \in X})
  BY <1>1, NamesFinite
<1> QED BY <1>2 DEF External, X

LEMMA ForeignColumns ==
  ASSUME NEW x \in Foreign, x[1] = "column"
  PROVE  /\ x[3] \in Keys /\ x[3][1] = "field" /\ Ref("field", x[3])
         /\ Ref("table", x[2]) /\ Ref("table", x[4])
         /\ RelationFor(x) \in Keys /\ RelationFor(x)[1] = "relation"
<1>1. x[2] \in External /\ x[3] \in Keys /\ x[3][1] = "field" /\ x[4] \in External \cup {None}
  BY SchemaAssumption
<1>2. \A t \in External : Ref("table", t)
  BY ForeignIs DEF Ref
<1>3. x[3][2] \in Nat
  BY <1>1 DEF Keys
<1> QED BY <1>1, <1>2, <1>3, CoreClasses DEF Ref, RelationFor, Keys

LEMMA AdoptedTablesIs ==
  ASSUME NEW S \in SUBSET External, NEW shown,
         \A t \in S : shown[t] \in {None} \cup {x[3] : x \in ForeignOf(t, FALSE)}
  PROVE  PlainNew(AdoptedTables(S, shown))
<1> DEFINE scalars == UNION {ForeignOf(t, FALSE) : t \in S}
           tables == [t \in S |-> [display_field_id |-> shown[t], source_id |-> None]]
           fields == [f \in {x[3] : x \in scalars} |->
                        LET x == CHOOSE x \in scalars : x[3] = f IN Field(x[2], x[4])]
<1>1. \A t : \A x \in ForeignOf(t, FALSE) : x \in Foreign /\ x[1] = "column"
  BY DEF ForeignOf, ForeignFields
<1>2. scalars \in SUBSET Foreign /\ \A x \in scalars : x[1] = "column"
  BY <1>1
<1>3. IsFiniteSet(scalars) /\ IsFiniteSet(S)
  BY <1>2, ForeignIs, ExternalFinite, FS_Subset
<1> HIDE DEF scalars
<1>4. PlainNew(tables)
  <2>1. ASSUME NEW t \in S PROVE PlainRow(t, tables[t])
    <3>1. Ref("field", shown[t]) /\ Ref("source", None)
      <4>1. CASE shown[t] = None
        BY <4>1 DEF Ref
      <4>2. CASE shown[t] # None
        <5>1. PICK x \in ForeignOf(t, FALSE) : shown[t] = x[3]
          BY <2>1, <4>2
        <5>2. x \in Foreign /\ x[1] = "column"
          BY <1>1
        <5> QED BY <5>1, <5>2, ForeignColumns DEF Ref
      <4> QED BY <4>1, <4>2
    <3>2. t \in Keys /\ t[1] = "table"
      BY ForeignIs
    <3> QED BY <3>1, <3>2, CoreRows
  <2> QED BY <1>3, <2>1 DEF PlainNew
<1>5. PlainNew(fields)
  <2>1. IsFiniteSet(DOMAIN fields)
    BY <1>3, NamesFinite
  <2>2. ASSUME NEW f \in DOMAIN fields PROVE PlainRow(f, fields[f])
    <3>1. PICK x \in scalars : x[3] = f /\ fields[f] = Field(x[2], x[4])
      OBVIOUS
    <3>2. f \in Keys /\ f[1] = "field" /\ Ref("table", x[2]) /\ Ref("table", x[4])
      BY <1>2, <3>1, ForeignColumns
    <3> QED BY <3>1, <3>2, CoreRows
  <2> HIDE DEF fields
  <2> QED BY <2>1, <2>2 DEF PlainNew
<1>6. AdoptedTables(S, shown) = Both(tables, fields)
  BY DEF AdoptedTables, scalars
<1> QED
  BY <1>4, <1>5, <1>6, PlainNews

LEMMA AdoptedRelationsIs ==
  ASSUME NEW mapped
  PROVE  PlainNew(AdoptedRelations(mapped))
<1> DEFINE keys == {x \in UNION {ForeignOf(t, TRUE) : t \in mapped} :
                      x[4] \in mapped /\ x[3] \notin DOMAIN cat}
           fields == [f \in {x[3] : x \in keys} |->
                        LET x == CHOOSE x \in keys : x[3] = f IN Field(x[2], x[4])]
           relations == [r \in {RelationFor(x) : x \in keys} |->
                           LET x == CHOOSE x \in keys : RelationFor(x) = r IN
                           Relation(x[2], x[4], x[3])]
<1>1. AdoptedRelations(mapped) = Both(fields, relations)
  BY DEF AdoptedRelations
<1>2. keys \in SUBSET Foreign /\ \A x \in keys : x[1] = "column"
  BY DEF ForeignOf, ForeignFields
<1> HIDE DEF keys
<1>3. IsFiniteSet(keys)
  BY <1>2, ForeignIs, FS_Subset
<1>4. PlainNew(fields)
  <2>1. IsFiniteSet(DOMAIN fields)
    BY <1>3, NamesFinite
  <2>2. ASSUME NEW f \in DOMAIN fields PROVE PlainRow(f, fields[f])
    <3>1. PICK x \in keys : x[3] = f /\ fields[f] = Field(x[2], x[4])
      OBVIOUS
    <3>2. f \in Keys /\ f[1] = "field" /\ Ref("table", x[2]) /\ Ref("table", x[4])
      BY <1>2, <3>1, ForeignColumns
    <3> QED BY <3>1, <3>2, CoreRows
  <2> HIDE DEF fields
  <2> QED BY <2>1, <2>2 DEF PlainNew
<1>5. PlainNew(relations)
  <2>1. IsFiniteSet(DOMAIN relations)
    BY <1>3, NamesFinite
  <2>2. ASSUME NEW r \in DOMAIN relations PROVE PlainRow(r, relations[r])
    <3>1. PICK x \in keys : RelationFor(x) = r /\ relations[r] = Relation(x[2], x[4], x[3])
      OBVIOUS
    <3>2. /\ r \in Keys /\ r[1] = "relation" /\ Ref("table", x[2]) /\ Ref("table", x[4])
          /\ Ref("field", x[3])
      BY <1>2, <3>1, ForeignColumns
    <3> QED BY <3>1, <3>2, CoreRows
  <2> HIDE DEF relations
  <2> QED BY <2>1, <2>2 DEF PlainNew
<1> HIDE DEF fields, relations
<1> QED
  BY <1>1, <1>4, <1>5, PlainNews

LEMMA AdoptRunIs ==
  ASSUME SchemaInv, NEW d \in Designers, adopt_run(d)
  PROVE  SchemaInv'
<1>1. PICK S \in SUBSET (External \ DOMAIN cat), related \in BOOLEAN :
       \E shown \in [S -> {None} \cup {x[3] : x \in UNION {ForeignOf(t, FALSE) : t \in S}}] :
         LET mapped == S \cup (External \cap DOMAIN cat)
             new == Both(AdoptedTables(S, shown),
                         IF related THEN AdoptedRelations(mapped) ELSE Nothing) IN
         /\ \A t \in S : shown[t] \in {None} \cup {x[3] : x \in ForeignOf(t, FALSE)}
         /\ new # Nothing /\ DOMAIN new \cap DOMAIN cat = {}
         /\ Start(d, "adopt_run", <<Commit>>, new, Nothing, {})
  BY DEF adopt_run
<1>2. PICK shown \in [S -> {None} \cup {x[3] : x \in UNION {ForeignOf(t, FALSE) : t \in S}}] :
         LET mapped == S \cup (External \cap DOMAIN cat)
             new == Both(AdoptedTables(S, shown),
                         IF related THEN AdoptedRelations(mapped) ELSE Nothing) IN
         /\ \A t \in S : shown[t] \in {None} \cup {x[3] : x \in ForeignOf(t, FALSE)}
         /\ new # Nothing /\ DOMAIN new \cap DOMAIN cat = {}
         /\ Start(d, "adopt_run", <<Commit>>, new, Nothing, {})
  BY <1>1
<1> DEFINE mapped == S \cup (External \cap DOMAIN cat)
           more == IF related THEN AdoptedRelations(mapped) ELSE Nothing
           new == Both(AdoptedTables(S, shown), more)
<1>3. /\ \A t \in S : shown[t] \in {None} \cup {x[3] : x \in ForeignOf(t, FALSE)}
      /\ Start(d, "adopt_run", <<Commit>>, new, Nothing, {})
  BY <1>2
<1>4. PlainNew(AdoptedTables(S, shown))
  BY <1>3, AdoptedTablesIs
<1>5. PlainNew(more)
  BY AdoptedRelationsIs, PlainNews
<1> HIDE DEF more
<1>6. PlainNew(new)
  BY <1>4, <1>5, PlainNews
<1> HIDE DEF new
<1>7. NewOK(new)
  BY <1>6, PlainNewOK
<1>8. Quiet
  BY DEF adopt_run
<1> QED
  BY <1>3, <1>7, <1>8, NoneAdded, ShortSteps, SetsAre, StartIs DEF Whole

-----------------------------------------------------------------------------
(* Files.                                                                     *)

\* The foreign keys of what a file holds are not written as they are.
LEMMA ExportedColumns ==
  ASSUME NEW class \in ExportedClasses
  PROVE  \A m \in DOMAIN Model[class] :
           Model[class][m].on # "nothing" => m \notin RawColumns \cup Labels
<1> DEFINE All(columns) ==
             \A m \in DOMAIN columns : columns[m].on # "nothing" => m \notin RawColumns \cup Labels
<1> USE DEF RawColumns, Labels, Id, Bare, Key, Parent, Loose
<1>1. All(DataSource) /\ All(MetaTable) /\ All(MetaField)
  BY DEF DataSource, MetaTable, MetaField
<1>2. All(MetaRelation) /\ All(CompositeUnique)
  BY DEF MetaRelation, CompositeUnique
<1>3. All(MetaForm) /\ All(MetaFormField)
  BY DEF MetaForm, MetaFormField
<1>4. All(MetaMenu) /\ All(Role)
  BY DEF MetaMenu, Role
<1>5. All(MetaPermission) /\ All(MetaFieldPermission)
  BY DEF MetaPermission, MetaFieldPermission
<1>6. All(Workflow) /\ All(ApprovalStep)
  BY DEF Workflow, ApprovalStep
<1>7. All(TriggerRule) /\ All(SlaPolicy)
  BY DEF TriggerRule, SlaPolicy
<1>8. All(Connection) /\ All(Feed)
  BY DEF Connection, Feed
<1>9. All(Webhook) /\ All(PullSource)
  <2>1. All(Webhook)
    BY DEF Webhook
  <2>2. \A m \in DOMAIN PullSource : m # "user_id" => m \notin RawColumns \cup Labels
    BY DEF PullSource
  <2>3. PullSource.user_id = Id("user")
    BY DEF PullSource
  <2>4. All(PullSource)
    BY <2>2, <2>3
  <2> QED BY <2>1, <2>4
<1>10. All(Dashboard) /\ All(DashboardWidget)
  BY DEF Dashboard, DashboardWidget
<1> HIDE DEF All, RawColumns, Labels, Id, Bare, Key, Parent, Loose
<1> SUFFICES All(Model[class])
  BY DEF All
<1> QED
  BY ModelIs, <1>1, <1>2, <1>3, <1>4, <1>5, <1>6, <1>7, <1>8, <1>9, <1>10 DEF ExportedClasses

LEMMA MappedRows ==
  ASSUME NEW c
  PROVE  Mapped(c) \subseteq DOMAIN c
<1>1. AsTheyAre(c) \subseteq DOMAIN c
  BY DEF AsTheyAre
<1>2. MappedFields(c) \subseteq DOMAIN c
  BY DEF MappedFields, ScalarFields, FieldOfRelation, RowsIn
<1>3. MappedRelations(c) \subseteq DOMAIN c
  BY DEF MappedRelations, RowsIn
<1>4. RowsIn(c, "step") \subseteq DOMAIN c
  BY DEF RowsIn
<1> QED
  BY <1>1, <1>2, <1>3, <1>4 DEF Mapped

\* A row that is read is one of the file, and refers to what is read.
LEMMA ImportIs ==
  ASSUME NEW c, IsFile(c)
  PROVE  LET i == import_schema(c) IN
         /\ IsFiniteSet(DOMAIN i)
         /\ \A k \in DOMAIN i :
              /\ k \in DOMAIN c /\ k \in Keys /\ k[1] \in ExportedClasses /\ DOMAIN i[k] = Columns(k)
              /\ \A m \in Columns(k) :
                   /\ i[k][m] \in {None, c[k][m]} /\ Fits(k, m, i[k][m])
                   /\ m \notin RawColumns \cup Labels => i[k][m] \in DOMAIN i \cup {None}
<1> DEFINE i == import_schema(c)
           mapped == Mapped(c)
           Value(k, m) == CASE m \in RawColumns -> c[k][m]
                            [] m \in Labels /\ c[k][m] \notin LabelFields(c, k) -> None
                            [] m \notin RawColumns \cup Labels /\ c[k][m] \notin mapped -> None
                            [] OTHER -> c[k][m]
<1>1. i = [k \in mapped |-> [m \in DOMAIN c[k] |-> Value(k, m)]]
  BY DEF import_schema
<1>2. mapped \in SUBSET DOMAIN c
  BY MappedRows
<1>3. ASSUME NEW k, NEW m
      PROVE  /\ Value(k, m) \in {None, c[k][m]}
             /\ m \notin RawColumns \cup Labels => Value(k, m) \in mapped \cup {None}
  <2>1. CASE m \in RawColumns
    BY <2>1 DEF RawColumns, Labels
  <2>2. CASE m \in Labels
    BY <2>2 DEF RawColumns, Labels
  <2>3. CASE m \notin RawColumns \cup Labels
    BY <2>3
  <2> QED BY <2>1, <2>2, <2>3
<1> HIDE DEF Value, mapped, i
<1>4. DOMAIN i = mapped /\ \A k \in mapped : i[k] = [m \in DOMAIN c[k] |-> Value(k, m)]
  BY <1>1
<1>5. IsFiniteSet(DOMAIN i)
  BY <1>2, <1>4, FS_Subset DEF IsFile
<1>6. ASSUME NEW k \in DOMAIN i
      PROVE  /\ k \in DOMAIN c /\ k \in Keys /\ k[1] \in ExportedClasses /\ DOMAIN i[k] = Columns(k)
             /\ \A m \in Columns(k) :
                  /\ i[k][m] \in {None, c[k][m]} /\ Fits(k, m, i[k][m])
                  /\ m \notin RawColumns \cup Labels => i[k][m] \in DOMAIN i \cup {None}
  <2>1. k \in DOMAIN c /\ k \in Keys /\ k[1] \in ExportedClasses /\ DOMAIN c[k] = Columns(k)
    BY <1>2, <1>4, <1>6 DEF IsFile
  <2>2. DOMAIN i[k] = Columns(k) /\ \A m \in Columns(k) : i[k][m] = Value(k, m)
    BY <1>4, <1>6, <2>1
  <2>3. \A m \in Columns(k) : Fits(k, m, c[k][m]) /\ Fits(k, m, None)
    BY <2>1 DEF IsFile, Fits
  <2>4. \A m \in Columns(k) : Fits(k, m, i[k][m])
    BY <1>3, <2>2, <2>3
  <2> QED BY <1>3, <1>4, <2>1, <2>2, <2>4
<1> QED
  BY <1>5, <1>6 DEF i

\* What is read may be added, and is described without the tables that were
\* there.
LEMMA ReadIs ==
  ASSUME NEW c, IsFile(c), NoneIndexed(c)
  PROVE  /\ NewOK(NewOf(c))
         /\ \A x \in Described(import_schema(c)) : Ours(x)
         /\ \A x \in Described(import_schema(c)) : x[1] = "unique" => x[3] \in Keys /\ x[3][1] = "unique"
<1> DEFINE i == import_schema(c)
           new == NewOf(c)
           R == {k \in DOMAIN i : k[1] # "role" \/ k \notin DOMAIN cat}
<1>1. /\ IsFiniteSet(DOMAIN i)
      /\ \A k \in DOMAIN i :
           /\ k \in DOMAIN c /\ k \in Keys /\ k[1] \in ExportedClasses /\ DOMAIN i[k] = Columns(k)
           /\ \A m \in Columns(k) :
                /\ i[k][m] \in {None, c[k][m]} /\ Fits(k, m, i[k][m])
                /\ m \notin RawColumns \cup Labels => i[k][m] \in DOMAIN i \cup {None}
  BY ImportIs
<1>2. new = [k \in R |-> i[k]]
  BY DEF NewOf
<1> HIDE DEF i, new
<1>3. DOMAIN new = R /\ \A k \in R : new[k] = i[k]
  BY <1>2
<1>4. NoneIndexed(i)
  <2>1. ASSUME NEW u \in RowsIn(i, "unique") PROVE Managed(i[u].table_id)
    <3>1. u \in DOMAIN i /\ u[1] = "unique" /\ u \in RowsIn(c, "unique")
      BY <1>1, <2>1 DEF RowsIn
    <3>2. i[u].table_id \in {None, c[u].table_id}
      BY <1>1, <3>1, CoreColumns
    <3> QED BY <3>1, <3>2, ForeignIs DEF NoneIndexed, Managed
  <2> QED BY <2>1 DEF NoneIndexed
<1>5. \A k \in DOMAIN i : k[1] \in {"field", "unique"} => i[k].table_id # Gone
  <2>1. ASSUME NEW k \in DOMAIN i, k[1] \in {"field", "unique"} PROVE i[k].table_id # Gone
    <3>1. "table_id" \in Columns(k)
      BY <2>1, CoreColumns
    <3>2. "table_id" \notin RawColumns \cup Labels
      BY DEF RawColumns, Labels
    <3>3. i[k].table_id \in DOMAIN i \cup {None}
      BY <1>1, <3>1, <3>2
    <3> QED BY <1>1, <3>3, ForeignIs
  <2> QED BY <2>1
<1>6. /\ \A x \in Described(i) : Ours(x)
      /\ \A x \in Described(i) : x[1] = "unique" => x[3] \in Keys /\ x[3][1] = "unique"
  <2>1. DOMAIN i \subseteq Keys
    BY <1>1
  <2> QED BY <1>4, <1>5, <2>1, DescribedOurs
<1>7. NoneIndexed(new)
  BY <1>3, <1>4 DEF NoneIndexed, RowsIn
<1>8. IsFiniteSet(DOMAIN new)
  <2>1. R \in SUBSET DOMAIN i
    OBVIOUS
  <2> HIDE DEF R
  <2> QED BY <1>1, <1>3, <2>1, FS_Subset
<1>9. ASSUME NEW k \in DOMAIN new
      PROVE  /\ k \in Keys /\ DOMAIN new[k] = Columns(k)
             /\ \A m \in Columns(k) :
                  /\ Fits(k, m, new[k][m])
                  /\ Column(k, m).on # "nothing" => new[k][m] \in DOMAIN new \cup {None}
  <2>1. k \in DOMAIN i /\ new[k] = i[k] /\ k \in Keys /\ k[1] \in Classes
    BY <1>1, <1>3, <1>9 DEF Keys
  <2>2. ASSUME NEW m \in Columns(k), Column(k, m).on # "nothing", new[k][m] # None
        PROVE  new[k][m] \in DOMAIN new
    <3>1. m \notin RawColumns \cup Labels
      BY <1>1, <2>1, <2>2, ExportedColumns DEF Columns, Column
    <3>2. i[k][m] \in DOMAIN i /\ Fits(k, m, i[k][m])
      BY <1>1, <2>1, <2>2, <3>1
    <3>3. i[k][m][1] = Column(k, m).to
      BY <1>1, <3>2, ForeignIs DEF Fits
    <3>4. Column(k, m).to # "role"
      BY <2>1, <2>2, ColumnsAre DEF Sensible, Columns, Column
    <3> QED BY <1>3, <2>1, <3>2, <3>3, <3>4
  <2> QED BY <1>1, <2>1, <2>2
<1> QED
  BY <1>6, <1>7, <1>8, <1>9 DEF NewOK, i, new

\* Finitely many rows describe finitely many things.
LEMMA DescribedFinite ==
  ASSUME NEW c, IsFiniteSet(DOMAIN c)
  PROVE  IsFiniteSet(Described(c))
<1> DEFINE T == {t \in RowsIn(c, "table") : Managed(t)}
           F == {f \in RowsIn(c, "field") : Managed(c[f].table_id)}
           R == Junctions(c)
           U == RowsIn(c, "unique")
           t1 == [x \in T |-> Table(x)]
           f1 == [x \in F |-> ColumnOf(c, x)]
           r1 == [x \in R |-> JunctionOf(c, x)]
           u1 == [x \in U |-> IndexOf(c, x)]
           A == {Table(x) : x \in T}
           B == {ColumnOf(c, x) : x \in F}
           C == {JunctionOf(c, x) : x \in R}
           D == {IndexOf(c, x) : x \in U}
<1>1. /\ T \in SUBSET DOMAIN c /\ F \in SUBSET DOMAIN c /\ R \in SUBSET DOMAIN c
      /\ U \in SUBSET DOMAIN c
  BY DEF RowsIn, Junctions
<1>2. Described(c) = A \cup B \cup C \cup D
  BY DEF Described
<1>3. /\ t1 \in Surjection(T, A) /\ f1 \in Surjection(F, B) /\ r1 \in Surjection(R, C)
      /\ u1 \in Surjection(U, D)
  BY DEF Surjection
<1> HIDE DEF T, F, R, U, A, B, C, D, t1, f1, r1, u1
<1>4. IsFiniteSet(T) /\ IsFiniteSet(F) /\ IsFiniteSet(R) /\ IsFiniteSet(U)
  BY <1>1, FS_Subset
<1>5. IsFiniteSet(A) /\ IsFiniteSet(B) /\ IsFiniteSet(C) /\ IsFiniteSet(D)
  BY <1>3, <1>4, FS_Surjection
<1>6. IsFiniteSet(A \cup B \cup C \cup D)
  BY <1>5, FS_Union
<1> QED
  BY <1>2, <1>6

LEMMA ReadingIs ==
  ASSUME NEW c, IsFile(c), NoneIndexed(c), NEW by
  PROVE  GoodSteps(Reading(c), by)
<1> DEFINE all == Described(import_schema(c))
           Of(class) == {x \in all : x[1] = class}
           keys == {x \in Of("column") : x[4] # None}
           tables == Each(Of("table"), OrUndo)
           columns == Each(Of("column") \ keys, OrUndo)
           references == Each(keys, OrUndo)
           junctions == Each(Of("junction"), OrUndo)
           indexes == Each(Of("unique"), OrSkip)
<1>1. IsFiniteSet(all)
  BY ImportIs, DescribedFinite
<1>2. /\ \A x \in all : Ours(x)
      /\ \A x \in all : x[1] = "unique" => x[3] \in Keys /\ x[3][1] = "unique"
  BY ReadIs
<1> HIDE DEF all
<1>3. \A S \in SUBSET all : IsFiniteSet(S) /\ \A x \in S : Ours(x)
  BY <1>1, <1>2, FS_Subset
<1>4. /\ Of("table") \in SUBSET all /\ Of("column") \ keys \in SUBSET all /\ keys \in SUBSET all
      /\ Of("junction") \in SUBSET all /\ Of("unique") \in SUBSET all
      /\ \A x \in Of("unique") : x[3] \in Keys /\ x[3][1] = "unique"
  BY <1>2
<1>5. Reading(c) = tables \o columns \o (IF Loads(c) THEN references \o junctions \o indexes \o <<Commit>>
                                         ELSE <<Fail>>)
  BY DEF Reading, all
<1> HIDE DEF Of, keys
<1>6. /\ StepsOK(tables, by) /\ StepsOK(columns, by) /\ StepsOK(references, by)
      /\ StepsOK(junctions, by)
  BY <1>3, <1>4, EachIs
<1>7. StepsOK(indexes, by)
  BY <1>3, <1>4, EachIs
<1> HIDE DEF tables, columns, references, junctions, indexes
<1>8. StepsOK(tables \o columns, by) /\ StepsOK(references \o junctions \o indexes, by)
  <2>1. StepsOK(references \o junctions, by)
    BY <1>6, StepsJoin
  <2> QED BY <1>6, <1>7, <2>1, StepsJoin
<1>9. GoodSteps((references \o junctions \o indexes) \o <<Commit>>, by) /\ GoodSteps(<<Fail>>, by)
  BY <1>8, ShortSteps, GoodJoin
<1>10. GoodSteps(IF Loads(c) THEN references \o junctions \o indexes \o <<Commit>> ELSE <<Fail>>, by)
  BY <1>9
<1> QED
  BY <1>5, <1>8, <1>10, GoodJoin

\* An export of the model is a file.
LEMMA ExportIs ==
  ASSUME NEW c, CatOK(c)
  PROVE  IsFile(export_schema(c)) /\ NoneIndexed(export_schema(c))
<1> DEFINE R == {k \in DOMAIN c : k[1] \in ExportedClasses}
           e == export_schema(c)
<1>1. e = [k \in R |-> c[k]]
  BY DEF export_schema
<1> HIDE DEF e
<1>2. DOMAIN e = R /\ \A k \in R : e[k] = c[k]
  BY <1>1
<1>3. IsFiniteSet(DOMAIN e)
  <2>1. R \in SUBSET DOMAIN c
    OBVIOUS
  <2> HIDE DEF R
  <2> QED BY <1>2, <2>1, FS_Subset DEF CatOK
<1>4. ASSUME NEW k \in DOMAIN e
      PROVE  /\ k \in Keys /\ k[1] \in ExportedClasses /\ DOMAIN e[k] = Columns(k)
             /\ \A m \in Columns(k) :
                  \/ e[k][m] \in {None, Gone}
                  \/ e[k][m] \in Keys /\ e[k][m][1] = Column(k, m).to
  <2>1. k \in DOMAIN c /\ k[1] \in ExportedClasses /\ e[k] = c[k]
    BY <1>2, <1>4
  <2> QED BY <2>1 DEF CatOK, Typed
<1>5. NoneIndexed(e)
  BY <1>2 DEF CatOK, NoneIndexed, RowsIn
<1> QED
  BY <1>3, <1>4, <1>5 DEF IsFile, e

LEMMA FilesAre ==
  \A c \in Files \cup {Example} : IsFile(c) /\ NoneIndexed(c)
BY SchemaAssumption

LEMMA ReplaceIs ==
  ASSUME SchemaInv, Quiet, NEW d \in Designers, NEW by \in {"schema_import", "example_load"}, NEW c,
         IsFile(c), NoneIndexed(c), Replace(d, by, c)
  PROVE  SchemaInv'
<1> DEFINE old == {x \in Described(cat) : x[1] \in {"table", "junction"}}
           first == IF Rows("table") = {} THEN <<>> ELSE <<Step("clear", old, "skip"), Wipe>>
           todo == first \o Reading(c)
<1>1. Start(d, by, todo, NewOf(c), Nothing, {})
  BY DEF Replace
<1>2. by \in Whole
  BY DEF Whole
<1>3. \A x \in old : Ours(x)
  BY CatDescribes DEF SchemaInv
<1> HIDE DEF old
<1>4. StepsOK(first, by)
  BY <1>2, <1>3, ShapesAre, StepsAre DEF GoodSteps
<1> HIDE DEF first
<1>5. GoodSteps(todo, by)
  BY <1>4, ReadingIs, GoodJoin
<1> HIDE DEF todo
<1> QED
  BY <1>1, <1>2, <1>5, ReadIs, NoneAdded, SetsAre, StartIs

LEMMA ImportsAre ==
  ASSUME SchemaInv, NEW d \in Designers, schema_import(d) \/ example_load(d) \/ module_enable(d)
  PROVE  SchemaInv'
<1>1. CASE schema_import(d)
  <2>1. PICK c \in {export_schema(cat)} \cup Files : Replace(d, "schema_import", c)
    BY <1>1 DEF schema_import
  <2>2. IsFile(c) /\ NoneIndexed(c)
    BY <2>1, FilesAre, ExportIs DEF SchemaInv
  <2> QED BY <1>1, <2>1, <2>2, ReplaceIs DEF schema_import
<1>2. CASE example_load(d)
  BY <1>2, FilesAre, ReplaceIs DEF example_load
<1>3. CASE module_enable(d)
  <2>1. Quiet /\ Start(d, "module_enable", Reading(Example), NewOf(Example), Nothing, {})
    BY <1>3 DEF module_enable
  <2>2. GoodSteps(Reading(Example), "module_enable") /\ NewOK(NewOf(Example))
    BY FilesAre, ReadingIs, ReadIs
  <2>3. "module_enable" \in Whole
    BY DEF Whole
  <2> QED BY <2>1, <2>2, <2>3, NoneAdded, SetsAre, StartIs
<1> QED BY <1>1, <1>2, <1>3

LEMMA RequestIs ==
  ASSUME SchemaInv, Alone, NEW d \in Designers, Request(d)
  PROVE  SchemaInv'
BY TableNewIs, TableFromCsvIs, TableDuplicateIs, TableDeleteIs, FieldAddIs, FieldDeleteIs,
   FieldEditIs, DisplayFieldIs, UniqueAddIs, UniqueDeleteIs, RelationM1Is, RelationMnIs,
   RelationEditIs, RelationDeleteIs, TableFlagsIs, AdoptRunIs, ImportsAre DEF Request

-----------------------------------------------------------------------------
(* A request takes a step.                                                    *)

Whose(j) == [by |-> j.by, todo |-> j.todo, new |-> j.new, set |-> j.set, del |-> j.del,
             held |-> j.held, done |-> j.done, past |-> j.past]

LEMMA UpdatesAre ==
  ASSUME NEW j, j = Whose(j), NEW x
  PROVE  /\ [j EXCEPT !.todo = x] = [by |-> j.by, todo |-> x, new |-> j.new, set |-> j.set,
                                    del |-> j.del, held |-> j.held, done |-> j.done, past |-> j.past]
         /\ [j EXCEPT !.new = x] = [by |-> j.by, todo |-> j.todo, new |-> x, set |-> j.set,
                                   del |-> j.del, held |-> j.held, done |-> j.done, past |-> j.past]
         /\ [j EXCEPT !.held = x] = [by |-> j.by, todo |-> j.todo, new |-> j.new, set |-> j.set,
                                    del |-> j.del, held |-> x, done |-> j.done, past |-> j.past]
         /\ [j EXCEPT !.done = x] = [by |-> j.by, todo |-> j.todo, new |-> j.new, set |-> j.set,
                                    del |-> j.del, held |-> j.held, done |-> x, past |-> j.past]
         /\ [j EXCEPT !.past = x] = [by |-> j.by, todo |-> j.todo, new |-> j.new, set |-> j.set,
                                    del |-> j.del, held |-> j.held, done |-> j.done, past |-> x]
BY DEF Whose

LEMMA FreshStart ==
  ASSUME NEW j, j = Whose(j)
  PROVE  [j EXCEPT !.done = {}, !.past = FALSE] =
           [by |-> j.by, todo |-> j.todo, new |-> j.new, set |-> j.set,
            del |-> j.del, held |-> j.held, done |-> {}, past |-> FALSE]
<1> DEFINE i == [j EXCEPT !.done = {}]
<1>1. [j EXCEPT !.done = {}, !.past = FALSE] = [i EXCEPT !.past = FALSE]
  OBVIOUS
<1>2. i = [by |-> j.by, todo |-> j.todo, new |-> j.new, set |-> j.set,
           del |-> j.del, held |-> j.held, done |-> {}, past |-> j.past]
  BY UpdatesAre
<1> HIDE DEF i
<1>3. i = Whose(i)
  BY <1>2 DEF Whose
<1>4. [i EXCEPT !.past = FALSE] =
        [by |-> i.by, todo |-> i.todo, new |-> i.new, set |-> i.set,
         del |-> i.del, held |-> i.held, done |-> i.done, past |-> FALSE]
  BY <1>3, UpdatesAre
<1>5. /\ i.by = j.by /\ i.todo = j.todo /\ i.new = j.new /\ i.set = j.set /\ i.del = j.del
      /\ i.held = j.held /\ i.done = {}
  BY <1>2
<1> QED BY <1>1, <1>4, <1>5

LEMMA StepsTail ==
  ASSUME NEW by, NEW todo, StepsOK(todo, by), todo # <<>>
  PROVE  /\ StepOK(todo[1], by) /\ Len(todo) \in Nat /\ Len(todo) > 0
         /\ StepsOK(Tail(todo), by) /\ (EndsWell(todo) => EndsWell(Tail(todo)))
         /\ Len(todo) # 1 => Tail(todo) # <<>>
         /\ Len(todo) = 1 /\ EndsWell(todo) => MayBeLast(todo[1])
<1> DEFINE R == {todo[n] : n \in 1 .. Len(todo)}
           rest == Tail(todo)
<1>1. todo \in Seq(R)
  BY DEF StepsOK
<1> HIDE DEF R
<1>2. Len(todo) \in Nat /\ Len(todo) > 0
  BY <1>1
<1>3. rest \in Seq(R) /\ Len(rest) = Len(todo) - 1 /\ \A n \in 1 .. Len(todo) - 1 : rest[n] = todo[n + 1]
  BY <1>1, <1>2
<1> HIDE DEF rest
<1>4. Len(todo) # 1 => rest # <<>>
  <2>1. Len(<<>>) = 0
    OBVIOUS
  <2> QED BY <1>2, <1>3, <2>1
<1>5. \A n \in 1 .. Len(rest) : StepOK(rest[n], by)
  <2>1. ASSUME NEW n \in 1 .. Len(rest) PROVE StepOK(rest[n], by)
    <3>1. n + 1 \in 1 .. Len(todo) /\ rest[n] = todo[n + 1]
      BY <1>2, <1>3
    <3> QED BY <3>1 DEF StepsOK
  <2> QED BY <2>1
<1>6. StepsOK(rest, by)
  BY <1>3, <1>5, SeqIs, SMTT(30) DEF StepsOK
<1>7. StepOK(todo[1], by)
  BY <1>2 DEF StepsOK
<1>8. EndsWell(todo) => EndsWell(rest)
  <2>1. rest # <<>> => Len(rest) > 0
    BY <1>3
  <2>2. rest # <<>> => rest[Len(rest)] = todo[Len(todo)]
    BY <1>2, <1>3, <2>1
  <2>3. todo # <<>>
    OBVIOUS
  <2> QED BY <2>2, <2>3 DEF EndsWell
<1>9. Len(todo) = 1 /\ EndsWell(todo) => MayBeLast(todo[1])
  BY DEF EndsWell
<1> QED
  BY <1>2, <1>4, <1>6, <1>7, <1>8, <1>9 DEF rest

\* A step is done: it is the last one, or the rest is left.
LEMMA OnDoneIs ==
  ASSUME NEW c, NEW j, JobOK(c, j), j # Idle
  PROVE  /\ JobOK(c, OnDone(j)) /\ OnDone(j) = Whose(OnDone(j)) /\ j.todo # <<>>
         /\ StepOK(j.todo[1], j.by)
         /\ Len(j.todo) = 1 => OnDone(j) = Idle
         /\ Len(j.todo) # 1 => /\ OnDone(j).by = j.by /\ OnDone(j).new = j.new
                               /\ OnDone(j).set = j.set /\ OnDone(j).del = j.del
                               /\ OnDone(j).held = j.held /\ OnDone(j).done = j.done
                               /\ OnDone(j).todo = Tail(j.todo) /\ Tail(j.todo) # <<>>
         /\ ~ MayBeLast(j.todo[1]) => Len(j.todo) # 1
<1> DEFINE o == [j EXCEPT !.todo = Tail(j.todo)]
<1>1. j.todo # <<>> /\ j = Whose(j) /\ StepsOK(j.todo, j.by) /\ EndsWell(j.todo)
  BY DEF JobOK, Whose
<1>2. o = [by |-> j.by, todo |-> Tail(j.todo), new |-> j.new, set |-> j.set,
           del |-> j.del, held |-> j.held, done |-> j.done, past |-> j.past]
  BY <1>1, UpdatesAre
<1> HIDE DEF o
<1>3. /\ o.by = j.by /\ o.todo = Tail(j.todo) /\ o.new = j.new /\ o.set = j.set /\ o.del = j.del
      /\ o.held = j.held /\ o.done = j.done /\ o.past = j.past /\ o = Whose(o)
  BY <1>2 DEF Whose
<1>4. /\ StepOK(j.todo[1], j.by) /\ StepsOK(o.todo, o.by) /\ EndsWell(o.todo)
      /\ Len(j.todo) # 1 => o.todo # <<>>
      /\ ~ MayBeLast(j.todo[1]) => Len(j.todo) # 1
  BY <1>1, <1>3, StepsTail
<1>5. Len(j.todo) # 1 => JobOK(c, o)
  BY <1>3, <1>4 DEF JobOK, Whose
<1>6. OnDone(j) = IF Len(j.todo) = 1 THEN Idle ELSE o
  BY DEF OnDone, o
<1>7. JobOK(c, Idle) /\ Idle = Whose(Idle)
  BY IdleIs DEF JobOK, Whose
<1> QED
  BY <1>1, <1>3, <1>4, <1>5, <1>6, <1>7

\* What only shows that another name is meant, or that more was stored.
LEMMA JobChanges ==
  ASSUME NEW c, NEW j, JobOK(c, j), j = Whose(j)
  PROVE  /\ \A x : (\A y \in x : Ours(y)) /\ (j = Idle => x = {}) => JobOK(c, [j EXCEPT !.done = x])
         /\ \A x : x \cap DOMAIN j.new \cap DOMAIN c = {} /\ j # Idle => JobOK(c, [j EXCEPT !.held = x])
         /\ \A x : NewOK(x) /\ DOMAIN x \subseteq DOMAIN j.new /\ (j = Idle => x = Nothing) =>
              JobOK(c, [j EXCEPT !.new = x])
<1>1. ASSUME NEW x, \A y \in x : Ours(y), j = Idle => x = {}
      PROVE  JobOK(c, [j EXCEPT !.done = x])
  <2> DEFINE o == [j EXCEPT !.done = x]
  <2>1. o = [by |-> j.by, todo |-> j.todo, new |-> j.new, set |-> j.set,
             del |-> j.del, held |-> j.held, done |-> x, past |-> j.past]
    BY UpdatesAre
  <2> HIDE DEF o
  <2>2. j = Idle => o = Idle
    BY <1>1, <2>1, IdleIs DEF Whose
  <2>3. j # Idle => JobOK(c, o)
    BY <1>1, <2>1 DEF JobOK
  <2> QED BY <2>2, <2>3, IdleIs DEF o
<1>2. ASSUME NEW x, x \cap DOMAIN j.new \cap DOMAIN c = {}, j # Idle
      PROVE  JobOK(c, [j EXCEPT !.held = x])
  <2> DEFINE o == [j EXCEPT !.held = x]
  <2>1. o = [by |-> j.by, todo |-> j.todo, new |-> j.new, set |-> j.set,
             del |-> j.del, held |-> x, done |-> j.done, past |-> j.past]
    BY UpdatesAre
  <2> HIDE DEF o
  <2>2. JobOK(c, o)
    BY <1>2, <2>1 DEF JobOK
  <2> QED BY <2>2 DEF o
<1>3. ASSUME NEW x, NewOK(x), DOMAIN x \subseteq DOMAIN j.new, j = Idle => x = Nothing
      PROVE  JobOK(c, [j EXCEPT !.new = x])
  <2> DEFINE o == [j EXCEPT !.new = x]
  <2>1. o = [by |-> j.by, todo |-> j.todo, new |-> x, set |-> j.set,
             del |-> j.del, held |-> j.held, done |-> j.done, past |-> j.past]
    BY UpdatesAre
  <2> HIDE DEF o
  <2>2. j = Idle => o = Idle
    BY <1>3, <2>1, IdleIs DEF Whose
  <2>3. j # Idle => JobOK(c, o)
    BY <1>3, <2>1 DEF JobOK
  <2> QED BY <2>2, <2>3, IdleIs DEF o
<1> QED BY <1>1, <1>2, <1>3

\* The request of one designer goes on, or ends.
LEMMA MoveIs ==
  ASSUME SchemaInv, NEW d \in Designers, NEW j, job' = [job EXCEPT ![d] = j], JobOK(cat, j),
         Busy(d), j = Idle \/ j.by = job[d].by, cat' = cat, topic' = topic, PhysOK'
  PROVE  SchemaInv'
<1>1. CatOK(cat')
  BY DEF SchemaInv
<1>2. ASSUME NEW e \in Designers \ {d}
      PROVE  \/ job[e] = Idle
             \/ (j # Idle => j.by \notin Whole) /\ (job[e].by \in Whole => j = Idle)
  BY DEF SchemaInv, Lonely, Busy
<1> QED
  BY <1>1, <1>2, JobIs

LEMMA StopIs ==
  ASSUME SchemaInv, NEW d \in Designers, Busy(d), Stop(d) \/ Undo(d)
  PROVE  SchemaInv'
<1>1. job' = [job EXCEPT ![d] = Idle] /\ cat' = cat /\ topic' = topic
  BY DEF Stop, Undo
<1>2. PhysOK'
  <2>1. CASE Stop(d)
    BY <2>1 DEF Stop, SchemaInv, PhysOK
  <2>2. CASE Undo(d)
    <3> DEFINE S == {x \in job[d].done : x[1] \in {"table", "junction"}}
    <3>1. \A x \in S : Ours(x)
      BY DEF SchemaInv, JobOK
    <3>2. phys' = phys \ Fall(S)
      BY <2>2 DEF Undo
    <3> HIDE DEF S
    <3>3. Fall(S) \subseteq phys \ Foreign
      BY <3>1, FallKeeps DEF SchemaInv
    <3> QED BY <3>2, <3>3 DEF SchemaInv, PhysOK
  <2> QED BY <2>1, <2>2
<1> QED
  BY <1>1, <1>2, IdleIs, MoveIs

\* A request that goes on without an index does not record it.
LEMMA LostIs ==
  ASSUME NEW new, NewOK(new), NEW lost, \A k \in lost : k \in Keys /\ k[1] = "unique"
  PROVE  NewOK([k \in DOMAIN new \ lost |-> new[k]])
<1> DEFINE less == [k \in DOMAIN new \ lost |-> new[k]]
<1>1. DOMAIN less = DOMAIN new \ lost /\ \A k \in DOMAIN less : less[k] = new[k]
  OBVIOUS
<1> HIDE DEF less
<1>2. IsFiniteSet(DOMAIN less) /\ NoneIndexed(less)
  <2>1. DOMAIN less \in SUBSET DOMAIN new
    BY <1>1
  <2> QED BY <1>1, <2>1, FS_Subset DEF NewOK, NoneIndexed, RowsIn
<1>3. ASSUME NEW k \in DOMAIN less
      PROVE  /\ k \in Keys /\ DOMAIN less[k] = Columns(k)
             /\ \A m \in Columns(k) :
                  /\ Fits(k, m, less[k][m])
                  /\ Column(k, m).on # "nothing" /\ k[1] \notin {"field", "unique"} =>
                       less[k][m] \in DOMAIN less \cup {None}
  <2>1. k \in DOMAIN new /\ less[k] = new[k] /\ k \in Keys /\ k[1] \in Classes
    BY <1>1 DEF NewOK, Keys
  <2>2. ASSUME NEW m \in Columns(k), Column(k, m).on # "nothing", k[1] \notin {"field", "unique"}
        PROVE  less[k][m] \in DOMAIN less \cup {None}
    <3>1. new[k][m] \in DOMAIN new \cup {None} /\ Fits(k, m, new[k][m])
      BY <2>1, <2>2 DEF NewOK
    <3>2. Column(k, m).to # "unique"
      BY <2>1, <2>2, ColumnsAre DEF Sensible, Columns, Column
    <3>3. new[k][m] \in DOMAIN new => new[k][m] \in Keys
      BY DEF NewOK
    <3>4. new[k][m] \in DOMAIN new => new[k][m][1] = Column(k, m).to
      BY <3>1, <3>3, ForeignIs DEF Fits
    <3>5. new[k][m] \in DOMAIN new => new[k][m] \notin lost
      BY <3>2, <3>4
    <3> QED BY <1>1, <2>1, <3>1, <3>5
  <2> QED BY <2>1, <2>2 DEF NewOK
<1> QED
  BY <1>2, <1>3 DEF NewOK, less

\* A statement is refused.
LEMMA RefusedIs ==
  ASSUME SchemaInv, NEW d \in Designers, Busy(d), Refused(d)
  PROVE  SchemaInv'
<1> DEFINE step == Next1(d)
           lost == {x[3] : x \in step.what}
           o == OnDone(job[d])
           less == [k \in DOMAIN job[d].new \ lost |-> job[d].new[k]]
<1>1. JobOK(cat, job[d]) /\ job[d] # Idle
  BY DEF SchemaInv, Busy
<1>2. /\ JobOK(cat, o) /\ o = Whose(o) /\ StepOK(step, job[d].by)
      /\ o = Idle \/ (o.by = job[d].by /\ o.new = job[d].new)
      /\ ~ MayBeLast(step) => o.by = job[d].by /\ o.new = job[d].new /\ o.todo # <<>>
  BY <1>1, OnDoneIs, ZenonT(30) DEF Next1
<1> HIDE DEF o, step
<1>3. CASE step.else # "skip"
  <2>1. step.else \in {"stop", "undo"}
    BY <1>2, <1>3 DEF StepOK
  <2>2. Stop(d) \/ Undo(d)
    BY <2>1 DEF Refused, step
  <2> QED BY <2>2, StopIs
<1>4. CASE step.else = "skip"
  <2>1. /\ cat' = cat /\ topic' = topic /\ phys' = phys
        /\ job' = [job EXCEPT ![d] = IF step.do # "build" THEN o ELSE [o EXCEPT !.new = less]]
    BY <1>4 DEF Refused, step, o
  <2>2. PhysOK'
    BY <2>1 DEF SchemaInv, PhysOK
  <2>3. CASE step.do # "build"
    BY <1>2, <2>1, <2>2, <2>3, MoveIs
  <2>4. CASE step.do = "build"
    <3>1. \A k \in lost : k \in Keys /\ k[1] = "unique"
      BY <1>2, <1>4, <2>4 DEF StepOK
    <3>2. NewOK(job[d].new)
      BY <1>1 DEF JobOK
    <3>3. NewOK(less)
      <4> HIDE DEF lost
      <4> QED BY <3>1, <3>2, LostIs
    <3>4. ~ MayBeLast(step)
      BY <1>4, <2>4 DEF MayBeLast
    <3> DEFINE j == [o EXCEPT !.new = less]
    <3>5. o # Idle /\ DOMAIN less \subseteq DOMAIN o.new
      BY <1>2, <3>4, IdleIs
    <3> HIDE DEF less
    <3>6. JobOK(cat, j)
      BY <1>2, <3>3, <3>5, JobChanges
    <3>7. j.by = job[d].by
      BY <1>2, <3>4, UpdatesAre
    <3>8. job' = [job EXCEPT ![d] = j]
      BY <2>1, <2>4
    <3> HIDE DEF j
    <3> QED BY <2>1, <2>2, <3>6, <3>7, <3>8, MoveIs
  <2> QED BY <2>3, <2>4
<1> QED BY <1>3, <1>4

LEMMA StatementIs ==
  ASSUME SchemaInv, NEW d \in Designers, Busy(d), NEW possible, NEW result, NEW changed, NEW lost,
         Statement(d, possible, result, changed, lost),
         Foreign \subseteq result, \A x \in result \ Foreign : Ours(x), \A x \in changed : Ours(x)
  PROVE  SchemaInv'
<1> DEFINE o == OnDone(job[d])
           done == IF Len(job[d].todo) = 1 THEN {} ELSE job[d].done \cup changed
           j == [o EXCEPT !.done = done]
<1>1. CASE Refused(d)
  BY <1>1, RefusedIs
<1>2. CASE ~ Refused(d)
  <2>1. JobOK(cat, job[d]) /\ job[d] # Idle
    BY DEF SchemaInv, Busy
  <2>2. /\ JobOK(cat, o) /\ o = Whose(o)
        /\ Len(job[d].todo) = 1 => o = Idle
        /\ Len(job[d].todo) # 1 => o.by = job[d].by /\ o.todo # <<>>
    BY <2>1, OnDoneIs
  <2>3. /\ phys' = result /\ cat' = cat /\ topic' = topic
        /\ job' = [job EXCEPT ![d] = j]
    BY <1>2 DEF Statement
  <2>4. \A x \in done : Ours(x)
    BY <2>1 DEF JobOK
  <2>5. o = Idle => done = {}
    BY <2>2, IdleIs
  <2> HIDE DEF done, o
  <2>6. JobOK(cat, j)
    BY <2>2, <2>4, <2>5, JobChanges
  <2>7. j = Idle \/ j.by = job[d].by
    <3>1. j = [by |-> o.by, todo |-> o.todo, new |-> o.new, set |-> o.set,
               del |-> o.del, held |-> o.held, done |-> done, past |-> o.past]
      BY <2>2, UpdatesAre
    <3> HIDE DEF j
    <3>2. o = Idle => j = Idle
      BY <2>2, <2>5, <3>1, IdleIs DEF Whose
    <3> QED BY <2>2, <3>1, <3>2
  <2>8. PhysOK'
    BY <2>3 DEF PhysOK
  <2> HIDE DEF j
  <2> QED BY <2>3, <2>6, <2>7, <2>8, MoveIs
<1> QED BY <1>1, <1>2

\* The statements: what they store and drop is Biggy's own.
LEMMA StatementsAre ==
  ASSUME SchemaInv, NEW d \in Designers, build(d) \/ drop(d) \/ rename(d) \/ clear(d) \/ fail(d)
  PROVE  SchemaInv'
<1> DEFINE S == Next1(d).what
<1>1. Busy(d)
  BY DEF build, drop, rename, clear, fail, At
<1>2. StepOK(Next1(d), job[d].by)
  <2>1. JobOK(cat, job[d]) /\ job[d] # Idle
    BY <1>1 DEF SchemaInv, Busy
  <2> QED BY <2>1, OnDoneIs DEF Next1
<1>3. \A x \in S : Ours(x)
  BY <1>2 DEF StepOK
<1>4. PhysOK
  BY DEF SchemaInv
<1>5. /\ Foreign \subseteq phys \ Fall(S) /\ \A x \in (phys \ Fall(S)) \ Foreign : Ours(x)
      /\ \A x \in Fall(S) : Ours(x)
  <2> HIDE DEF S
  <2> QED BY <1>3, <1>4, FallKeeps DEF PhysOK
<1>6. CASE build(d)
  <2>1. Statement(d, Storable(job[d], S), phys \cup S, S, {})
    BY <1>6 DEF build
  <2>2. Foreign \subseteq phys \cup S /\ \A x \in (phys \cup S) \ Foreign : Ours(x)
    BY <1>3, <1>4 DEF PhysOK
  <2> HIDE DEF S
  <2> QED BY <1>1, <1>3, <2>1, <2>2, StatementIs
<1>7. CASE drop(d)
  <2>1. Statement(d, Droppable(S), phys \ Fall(S), Fall(S), OfOthers(d, S))
    BY <1>7 DEF drop
  <2> HIDE DEF S
  <2> QED BY <1>1, <1>5, <2>1, StatementIs
<1>8. CASE clear(d)
  <2>1. Statement(d, TRUE, phys \ Fall(S), Fall(S), {})
    BY <1>8 DEF clear
  <2> HIDE DEF S
  <2> QED BY <1>1, <1>5, <2>1, StatementIs
<1>9. CASE rename(d)
  <2> DEFINE moved == {Moved(x) : x \in S}
             result == (phys \ S) \cup moved
  <2>1. Statement(d, S \subseteq phys /\ moved \cap phys = {}, result, S \cup moved, {})
    BY <1>9 DEF rename
  <2>2. \A x \in S : x[1] = "column"
    BY <1>2, <1>9 DEF StepOK, rename, At
  <2>3. \A x \in S : x \notin Foreign
    BY <1>3, <2>2, ForeignIs DEF Ours
  <2>4. \A x \in S : Ours(Moved(x))
    <3>1. ASSUME NEW x \in S PROVE Ours(Moved(x))
      <4>1. x[2] \notin External \cup {Gone}
        BY <1>3, <2>2, <3>1 DEF Ours
      <4> QED BY <4>1 DEF Ours, Moved, Kinds
    <3> QED BY <3>1
  <2>5. \A y \in moved : Ours(y)
    BY <2>4
  <2> HIDE DEF S, moved
  <2>6. Foreign \subseteq result /\ \A x \in result \ Foreign : Ours(x)
    BY <1>4, <2>3, <2>5 DEF PhysOK
  <2>7. \A x \in S \cup moved : Ours(x)
    BY <1>3, <2>5
  <2> HIDE DEF result
  <2> QED BY <1>1, <2>1, <2>6, <2>7, StatementIs
<1>10. CASE fail(d)
  BY <1>1, <1>10, RefusedIs DEF fail
<1> QED BY <1>6, <1>7, <1>8, <1>9, <1>10

\* Rows that are sent are new.
LEMMA FlushIs ==
  ASSUME SchemaInv, NEW d \in Designers, flush(d)
  PROVE  SchemaInv'
<1> DEFINE o == OnDone(job[d])
           j == [o EXCEPT !.held = Flushed(job[d])]
<1>1. Busy(d) /\ job[d] # Idle /\ Next1(d).do = "flush"
  BY DEF flush, At, Busy
<1>2. CASE Stop(d)
  BY <1>1, <1>2, StopIs
<1>3. CASE ~ Stop(d)
  <2>1. /\ Sound(job[d]) /\ job' = [job EXCEPT ![d] = j]
        /\ cat' = cat /\ topic' = topic /\ phys' = phys
    BY <1>3 DEF flush
  <2>2. JobOK(cat, job[d])
    BY DEF SchemaInv
  <2>3. /\ JobOK(cat, o) /\ o = Whose(o) /\ o.by = job[d].by /\ o.todo # <<>>
        /\ o.new = job[d].new
    <3>1. job[d] # Idle /\ ~ MayBeLast(job[d].todo[1])
      BY <1>1 DEF Next1, MayBeLast
    <3>2. /\ JobOK(cat, o) /\ o = Whose(o)
          /\ Len(job[d].todo) # 1
      BY <2>2, <3>1, OnDoneIs
    <3>3. o.by = job[d].by /\ o.todo # <<>> /\ o.new = job[d].new
      BY <2>2, <3>1, <3>2, OnDoneIs
    <3> HIDE DEF o
    <3> QED BY <3>2, <3>3
  <2>4. DOMAIN job[d].new \cap DOMAIN cat = {}
    BY <2>1, <2>2 DEF Sound, JobOK
  <2>5. PhysOK'
    BY <2>1 DEF SchemaInv, PhysOK
  <2> HIDE DEF o
  <2>6. JobOK(cat, j)
    BY <2>3, <2>4, IdleIs, JobChanges
  <2>7. j.by = job[d].by
    BY <2>3, UpdatesAre
  <2> HIDE DEF j
  <2> QED BY <1>1, <2>1, <2>5, <2>6, <2>7, MoveIs
<1> QED BY <1>2, <1>3

\* Only a request that replaces the model deletes the old one, and it runs alone.
LEMMA WipeIs ==
  ASSUME SchemaInv, NEW d \in Designers, wipe(d)
  PROVE  SchemaInv'
<1> DEFINE o == OnDone(job[d])
           i == [o EXCEPT !.done = {}]
           j == [i EXCEPT !.past = FALSE]
<1>1. Busy(d) /\ job[d] # Idle /\ Next1(d).do = "wipe" /\ JobOK(cat, job[d])
  BY DEF wipe, At, Busy, SchemaInv
<1>2. /\ JobOK(cat, o) /\ o = Whose(o) /\ StepOK(Next1(d), job[d].by)
      /\ Len(job[d].todo) = 1 => o = Idle
      /\ Len(job[d].todo) # 1 => /\ o.by = job[d].by /\ o.set = job[d].set /\ o.todo # <<>>
  BY <1>1, OnDoneIs, ZenonT(30) DEF Next1
<1>3. job[d].by \in Whole /\ DOMAIN job[d].set = {}
  BY <1>1, <1>2 DEF StepOK, JobOK
<1>4. job' = [job EXCEPT ![d] = [o EXCEPT !.done = {}, !.past = FALSE]]
  BY DEF wipe
<1> HIDE DEF o
<1>5. [o EXCEPT !.done = {}, !.past = FALSE] =
        [by |-> o.by, todo |-> o.todo, new |-> o.new, set |-> o.set,
         del |-> o.del, held |-> o.held, done |-> {}, past |-> FALSE]
  BY <1>2, FreshStart
<1> DEFINE w == [by |-> o.by, todo |-> o.todo, new |-> o.new, set |-> o.set,
                 del |-> o.del, held |-> o.held, done |-> {}, past |-> FALSE]
<1>6. job' = [job EXCEPT ![d] = w]
  BY <1>4, <1>5
<1>7. cat' = Without(cat, Wiped(cat)) /\ topic' = topic /\ phys' = phys
  BY DEF wipe
<1>8. CatOK(cat') /\ DOMAIN cat' \subseteq DOMAIN cat
  BY <1>7, WithoutIs DEF SchemaInv
<1>9. JobOK(cat', w)
  <2>1. CASE o = Idle
    <3>1. w = Idle
      BY <2>1 DEF Idle, Asked
    <3> QED BY <3>1, IdleIs
  <2>2. CASE o # Idle
    <3>1. o.set = job[d].set
      BY <1>2, <2>2
    <3>2. SetOK(cat', o.set)
      BY <1>3, <3>1 DEF SetOK
    <3> QED BY <1>2, <1>8, <2>2, <3>2 DEF JobOK
  <2> QED BY <2>1, <2>2
<1>10. \A e \in Designers \ {d} : job[e] = Idle
  BY <1>1, <1>3 DEF SchemaInv, Lonely
<1>11. \A e \in Designers \ {d} : JobOK(cat', job[e])
  BY <1>10, IdleIs
<1>12. PhysOK'
  BY <1>7 DEF SchemaInv, PhysOK
<1> HIDE DEF w
<1> QED
  BY <1>6, <1>7, <1>8, <1>9, <1>10, <1>11, <1>12, JobIs

LEMMA CrashIs ==
  ASSUME SchemaInv, crash
  PROVE  SchemaInv'
<1>1. /\ job' = [d \in Designers |-> Idle]
      /\ cat' = cat /\ topic' = topic /\ phys' = phys
  BY DEF crash
<1>2. \A d \in Designers : job'[d] = Idle
  BY <1>1
<1>3. job' = [d \in Designers |-> job'[d]]
  BY <1>1
<1>4. Lonely'
  BY <1>2 DEF Lonely, Busy
<1>5. \A d \in Designers : JobOK(cat', job'[d])
  BY <1>2, IdleIs
<1> QED
  BY <1>1, <1>3, <1>4, <1>5 DEF SchemaInv, PhysOK

\* Nothing falls where nothing is deleted, and no more than with all that is.
LEMMA LessFalls ==
  ASSUME NEW c, IsFiniteSet(DOMAIN c), NEW S
  PROVE  /\ Cascaded(c, S \cap DOMAIN c) \subseteq Cascaded(c, S)
         /\ S = {} => Cascaded(c, S \cap DOMAIN c) = {}
<1>1. S \subseteq Cascaded(c, S) /\ Closed(c, Cascaded(c, S))
  BY CascadedIs
<1>2. \A X : S \cap DOMAIN c \subseteq X /\ Closed(c, X) => Cascaded(c, S \cap DOMAIN c) \subseteq X
  BY CascadedIs
<1>3. Closed(c, {})
  BY DEF Closed, Hangs
<1>4. Cascaded(c, S \cap DOMAIN c) \subseteq Cascaded(c, S)
  BY <1>1, <1>2
<1>5. S = {} => Cascaded(c, S \cap DOMAIN c) \subseteq {}
  BY <1>2, <1>3
<1> QED BY <1>4, <1>5

\* The rows after a commit: what was sent was new, and what a foreign key
\* refers to is there.
LEMMA CommittedIs ==
  ASSUME CatOK(cat), NEW j, JobOK(cat, j), Sound(j)
  PROVE  /\ CatOK(Committed(j))
         /\ DOMAIN Committed(j) \subseteq DOMAIN cat \cup DOMAIN j.new
         /\ DOMAIN cat \ Cascaded(cat, j.del) \subseteq DOMAIN Committed(j)
         /\ \A k \in DOMAIN cat \ Cascaded(cat, j.del) :
              k[1] = "field" => Committed(j)[k].table_id = cat[k].table_id
<1> DEFINE gone == j.del \cap DOMAIN cat
           left == Without(cat, gone)
           keys == DOMAIN left \cup DOMAIN j.new
           Old(k) == IF k \in DOMAIN j.new THEN j.new[k] ELSE left[k]
           Value(k, m) == IF k \in DOMAIN j.set /\ m \in DOMAIN j.set[k] THEN j.set[k][m]
                          ELSE Old(k)[m]
           after == Committed(j)
<1>1. after = [k \in keys |-> [m \in Columns(k) |->
                 IF Value(k, m) \in keys \cup {None} THEN Value(k, m) ELSE Gone]]
  BY DEF Committed
<1>2. /\ CatOK(left) /\ DOMAIN left = DOMAIN cat \ Cascaded(cat, j.del \cap DOMAIN cat)
      /\ \A k \in DOMAIN left : \A m \in Columns(k) :
           Column(k, m).on = "cascade" => left[k][m] = cat[k][m]
  <2> HIDE DEF gone
  <2>1. DOMAIN left = DOMAIN cat \ Cascaded(cat, gone)
    BY WithoutIs
  <2>2. CatOK(left)
    BY WithoutIs
  <2>3. \A k \in DOMAIN left : \A m \in Columns(k) :
          Column(k, m).on = "cascade" => left[k][m] = cat[k][m]
    BY KeyKept
  <2> QED BY <2>1, <2>2, <2>3 DEF gone
<1> HIDE DEF left, after
<1>3. /\ NewOK(j.new) /\ SetOK(cat, j.set) /\ DOMAIN j.new \cap DOMAIN cat = {}
      /\ Shared(j) \subseteq DOMAIN cat
      /\ DOMAIN j.new # {} => j.del = {}
  BY DEF JobOK, Sound
<1>4. /\ DOMAIN cat \ Cascaded(cat, j.del) \subseteq DOMAIN left /\ DOMAIN left \subseteq DOMAIN cat
      /\ DOMAIN j.new # {} => DOMAIN left = DOMAIN cat
  BY <1>2, <1>3, LessFalls DEF CatOK
<1>5. ASSUME NEW k \in DOMAIN left, NEW m \in Columns(k), Column(k, m).on # "nothing"
      PROVE  Value(k, m) = left[k][m]
  <2>1. k \in DOMAIN cat /\ k \notin DOMAIN j.new
    BY <1>3, <1>4
  <2>2. CASE k \in DOMAIN j.set /\ m \in DOMAIN j.set[k]
    <3>1. k[1] = "field" /\ m = "table_id" /\ j.set[k][m] = cat[k].table_id
      BY <1>3, <1>5, <2>2 DEF SetOK
    <3>2. "table_id" \in Columns(k) /\ Column(k, "table_id").on = "cascade"
      BY <3>1, CoreColumns, KindsAre
    <3>3. left[k].table_id = cat[k].table_id
      BY <1>2, <1>5, <3>2
    <3> QED BY <2>2, <3>1, <3>3
  <2>3. CASE ~ (k \in DOMAIN j.set /\ m \in DOMAIN j.set[k])
    BY <2>1, <2>3
  <2> QED BY <2>2, <2>3
<1>6. ASSUME NEW k \in DOMAIN j.new, NEW m
      PROVE  Value(k, m) = j.new[k][m]
  BY <1>3 DEF SetOK
<1>7. ASSUME NEW k \in keys
      PROVE  k \in Keys /\ k[1] \in Classes
  <2>1. k \in Keys
    BY <1>2, <1>3 DEF CatOK, Typed, NewOK
  <2> QED BY <2>1 DEF Keys
<1>8. ASSUME NEW k \in keys, NEW m \in Columns(k)
      PROVE  Fits(k, m, Value(k, m))
  <2>1. CASE k \in DOMAIN j.new
    <3>1. Fits(k, m, j.new[k][m])
      BY <1>3, <2>1 DEF NewOK
    <3> QED BY <1>6, <2>1, <3>1
  <2>2. CASE k \notin DOMAIN j.new
    <3>1. k \in DOMAIN left /\ Fits(k, m, left[k][m])
      BY <1>2, <2>2 DEF CatOK, Typed, Fits
    <3>2. CASE k \in DOMAIN j.set /\ m \in DOMAIN j.set[k] /\ Column(k, m).on = "nothing"
      <4>1. Fits(k, m, j.set[k][m])
        <5>1. k[1] = "field" => m # "table_id"
          BY <3>2, CoreColumns, KindsAre
        <5> QED BY <1>3, <3>2, <5>1 DEF SetOK
      <4> QED BY <3>2, <4>1
    <3>3. CASE Column(k, m).on # "nothing"
      BY <1>5, <3>1, <3>3
    <3>4. CASE ~ (k \in DOMAIN j.set /\ m \in DOMAIN j.set[k])
      BY <2>2, <3>1, <3>4
    <3> QED BY <3>2, <3>3, <3>4
  <2> QED BY <2>1, <2>2
<1>9. ASSUME NEW k \in keys, NEW m \in Columns(k), Column(k, m).on # "nothing"
      PROVE  Value(k, m) \in keys \cup {None}
  <2>1. CASE k \in DOMAIN left
    <3>1. left[k][m] \in DOMAIN left \cup {None}
      BY <1>2, <1>9, <2>1 DEF CatOK, Typed
    <3> QED BY <1>5, <1>9, <2>1, <3>1
  <2>2. CASE k \in DOMAIN j.new
    <3>1. Value(k, m) = j.new[k][m]
      BY <1>6, <2>2
    <3>2. DOMAIN left = DOMAIN cat
      BY <1>4, <2>2
    <3>3. CASE k[1] \notin {"field", "unique"}
      BY <1>3, <1>9, <2>2, <3>1, <3>3 DEF NewOK
    <3>4. CASE k[1] \in {"field", "unique"}
      <4>1. m = "table_id"
        BY <1>9, <3>4, CoreColumns, KindsAre
      <4>2. j.new[k].table_id \in Shared(j) \cup DOMAIN j.new
        BY <2>2, <3>4 DEF Shared
      <4> QED BY <1>3, <3>1, <3>2, <4>1, <4>2
    <3> QED BY <3>3, <3>4
  <2> QED BY <2>1, <2>2
<1>10. /\ DOMAIN after = keys
       /\ \A k \in keys : /\ DOMAIN after[k] = Columns(k)
                          /\ \A m \in Columns(k) :
                               after[k][m] = IF Value(k, m) \in keys \cup {None} THEN Value(k, m)
                                             ELSE Gone
  BY <1>1
<1>11. IsFiniteSet(keys)
  BY <1>2, <1>3, FS_Union DEF CatOK, NewOK
<1>12. \A u \in keys : u[1] = "unique" => Managed(Value(u, "table_id"))
  <2>1. ASSUME NEW u \in keys, u[1] = "unique" PROVE Managed(Value(u, "table_id"))
    <3>1. "table_id" \in Columns(u) /\ Column(u, "table_id").on # "nothing"
      BY <2>1, CoreColumns, KindsAre
    <3>2. CASE u \in DOMAIN left
      <4>1. Value(u, "table_id") = left[u].table_id
        BY <1>5, <3>1, <3>2
      <4> QED BY <1>2, <2>1, <3>2, <4>1 DEF CatOK, NoneIndexed, RowsIn
    <3>3. CASE u \in DOMAIN j.new
      <4>1. Value(u, "table_id") = j.new[u].table_id
        BY <1>6, <3>3
      <4> QED BY <1>3, <2>1, <3>3, <4>1 DEF NewOK, NoneIndexed, RowsIn
    <3> QED BY <3>2, <3>3
  <2> QED BY <2>1
<1>13. \A k \in DOMAIN cat \ Cascaded(cat, j.del) : k[1] = "field" => Value(k, "table_id") = cat[k].table_id
  <2>1. ASSUME NEW k \in DOMAIN cat \ Cascaded(cat, j.del), k[1] = "field"
        PROVE  Value(k, "table_id") = cat[k].table_id
    <3>1. "table_id" \in Columns(k) /\ Column(k, "table_id").on = "cascade" /\ k \in DOMAIN left
      BY <1>4, <2>1, CoreColumns, KindsAre
    <3> QED BY <1>2, <1>5, <3>1
  <2> QED BY <2>1
<1> HIDE DEF Value, keys
<1>14. Typed(after)
  <2>1. ASSUME NEW k \in keys, NEW m \in Columns(k)
        PROVE  \/ after[k][m] = None
               \/ after[k][m] = Gone /\ Column(k, m).on = "nothing"
               \/ after[k][m] \in keys /\ after[k][m][1] = Column(k, m).to
    <3>1. CASE Value(k, m) \in keys
      <4>1. Value(k, m)[1] = Column(k, m).to
        BY <1>7, <1>8, <3>1, ForeignIs DEF Fits
      <4> QED BY <1>10, <3>1, <4>1
    <3>2. CASE Value(k, m) \notin keys
      BY <1>9, <1>10, <3>2
    <3> QED BY <3>1, <3>2
  <2> QED BY <1>7, <1>10, <2>1 DEF Typed
<1>15. NoneIndexed(after)
  <2>1. ASSUME NEW u \in RowsIn(after, "unique") PROVE Managed(after[u].table_id)
    <3>1. u \in keys /\ u[1] = "unique" /\ "table_id" \in Columns(u)
      BY <1>10, <2>1, CoreColumns DEF RowsIn
    <3>2. after[u].table_id \in {Value(u, "table_id"), Gone}
      BY <1>10, <3>1
    <3> QED BY <1>12, <3>1, <3>2, ForeignIs DEF Managed
  <2> QED BY <2>1 DEF NoneIndexed
<1>16. ASSUME NEW k \in DOMAIN cat \ Cascaded(cat, j.del), k[1] = "field"
       PROVE  after[k].table_id = cat[k].table_id
  <2>1. k \in keys /\ "table_id" \in Columns(k) /\ Column(k, "table_id").on # "nothing"
    BY <1>4, <1>16, CoreColumns, KindsAre DEF keys
  <2>2. Value(k, "table_id") \in keys \cup {None}
    BY <1>9, <2>1
  <2> QED BY <1>10, <1>13, <1>16, <2>1, <2>2
<1>17. keys \subseteq DOMAIN cat \cup DOMAIN j.new /\ DOMAIN cat \ Cascaded(cat, j.del) \subseteq keys
  BY <1>4 DEF keys
<1> QED
  BY <1>10, <1>11, <1>14, <1>15, <1>16, <1>17 DEF CatOK, after

LEMMA MoreUpdates ==
  ASSUME NEW j, j = Whose(j), NEW x
  PROVE  /\ [j EXCEPT !.set = x] = [by |-> j.by, todo |-> j.todo, new |-> j.new, set |-> x,
                                   del |-> j.del, held |-> j.held, done |-> j.done, past |-> j.past]
         /\ [j EXCEPT !.del = x] = [by |-> j.by, todo |-> j.todo, new |-> j.new, set |-> j.set,
                                   del |-> x, held |-> j.held, done |-> j.done, past |-> j.past]
BY DEF Whose

Now(v, dead) == IF v \in dead THEN Gone ELSE v
Renamed(todo, moved) == [n \in DOMAIN todo |-> AsNamed(todo[n], moved)]
NewNow(new, dead) == [k \in DOMAIN new |-> [m \in DOMAIN new[k] |-> Now(new[k][m], dead)]]
SetNow(set, dead) ==
    [k \in {Now(k, dead) : k \in DOMAIN set} |->
       IF k = Gone THEN Nothing ELSE [m \in DOMAIN set[k] |-> Now(set[k][m], dead)]]

LEMMA OutdatedIs ==
  ASSUME NEW j, j = Whose(j), NEW moved, NEW dead
  PROVE  Outdated(j, moved, dead) =
           [by |-> j.by, todo |-> Renamed(j.todo, moved), new |-> NewNow(j.new, dead),
            set |-> SetNow(j.set, dead), del |-> {Now(k, dead) : k \in j.del},
            held |-> j.held, done |-> j.done, past |-> j.past]
<1> DEFINE T == Renamed(j.todo, moved)
           N == NewNow(j.new, dead)
           S == SetNow(j.set, dead)
           D == {Now(k, dead) : k \in j.del}
           a == [j EXCEPT !.todo = T]
           b == [a EXCEPT !.new = N]
           c == [b EXCEPT !.set = S]
           e == [c EXCEPT !.del = D]
<1>1. Outdated(j, moved, dead) = [j EXCEPT !.todo = T, !.new = N, !.set = S, !.del = D]
  BY DEF Outdated, Renamed, NewNow, SetNow, Now
<1> HIDE DEF T, N, S, D
<1>2. [j EXCEPT !.todo = T, !.new = N, !.set = S, !.del = D] = e
  OBVIOUS
<1>3. a = [by |-> j.by, todo |-> T, new |-> j.new, set |-> j.set,
           del |-> j.del, held |-> j.held, done |-> j.done, past |-> j.past]
  BY UpdatesAre
<1>4. a = Whose(a)
  BY <1>3 DEF Whose
<1> HIDE DEF a
<1>5. b = [by |-> j.by, todo |-> T, new |-> N, set |-> j.set,
           del |-> j.del, held |-> j.held, done |-> j.done, past |-> j.past]
  <2>1. b = [by |-> a.by, todo |-> a.todo, new |-> N, set |-> a.set,
             del |-> a.del, held |-> a.held, done |-> a.done, past |-> a.past]
    BY <1>4, UpdatesAre
  <2> HIDE DEF b
  <2> QED BY <1>3, <2>1
<1>6. b = Whose(b)
  BY <1>5 DEF Whose
<1> HIDE DEF b
<1>7. c = [by |-> j.by, todo |-> T, new |-> N, set |-> S,
           del |-> j.del, held |-> j.held, done |-> j.done, past |-> j.past]
  BY <1>5, <1>6, MoreUpdates
<1>8. c = Whose(c)
  BY <1>7 DEF Whose
<1> HIDE DEF c
<1>9. e = [by |-> j.by, todo |-> T, new |-> N, set |-> S,
           del |-> D, held |-> j.held, done |-> j.done, past |-> j.past]
  BY <1>7, <1>8, MoreUpdates
<1> HIDE DEF e
<1> QED
  BY <1>1, <1>2, <1>9 DEF T, N, S, D

LEMMA NamedStepIs ==
  ASSUME NEW by, NEW s, StepOK(s, by), NEW moved
  PROVE  StepOK(AsNamed(s, moved), by) /\ (MayBeLast(s) => MayBeLast(AsNamed(s, moved)))
<1> DEFINE Seen(x) == IF s.do # "build" /\ Moved(x) \in moved THEN Misnamed(x) ELSE x
           what == {Seen(x) : x \in s.what}
<1>1. AsNamed(s, moved) = [do |-> s.do, what |-> what, else |-> s.else]
  BY DEF AsNamed, Step
<1>2. \A x \in s.what : Ours(Seen(x)) /\ (s.do = "rename" => Seen(x)[1] = "column")
                        /\ (s.do = "build" => Seen(x) = x)
  BY DEF StepOK, Misnamed, Ours
<1>3. /\ \A y \in what : Ours(y) /\ (s.do = "rename" => y[1] = "column")
      /\ s.do = "build" => what = s.what
  BY <1>2
<1> HIDE DEF what
<1>4. StepOK(AsNamed(s, moved), by)
  BY <1>1, <1>3 DEF StepOK, Step
<1>5. MayBeLast(s) => MayBeLast(AsNamed(s, moved))
  BY <1>1 DEF MayBeLast
<1> QED BY <1>4, <1>5

LEMMA RenamedIs ==
  ASSUME NEW by, NEW todo, StepsOK(todo, by), EndsWell(todo), NEW moved
  PROVE  /\ StepsOK(Renamed(todo, moved), by) /\ EndsWell(Renamed(todo, moved))
         /\ Renamed(todo, moved) = <<>> <=> todo = <<>>
<1> DEFINE R == {todo[n] : n \in 1 .. Len(todo)}
           Q == {AsNamed(s, moved) : s \in R}
           r == Renamed(todo, moved)
<1>1. todo \in Seq(R)
  BY DEF StepsOK
<1>2. \A n \in 1 .. Len(todo) : AsNamed(todo[n], moved) \in Q
  OBVIOUS
<1> HIDE DEF R, Q
<1>3. Len(todo) \in Nat /\ DOMAIN todo = 1 .. Len(todo) /\ (todo # <<>> <=> Len(todo) # 0)
  BY <1>1
<1>4. r = [n \in 1 .. Len(todo) |-> AsNamed(todo[n], moved)]
  BY <1>3 DEF Renamed
<1> HIDE DEF r
<1>5. r \in Seq(Q) /\ Len(r) = Len(todo) /\ \A n \in 1 .. Len(todo) : r[n] = AsNamed(todo[n], moved)
  <2>1. r \in [1 .. Len(todo) -> Q]
    BY <1>2, <1>4
  <2> QED BY <1>3, <1>4, <2>1
<1>6. \A n \in 1 .. Len(r) : StepOK(r[n], by)
  BY <1>5, NamedStepIs DEF StepsOK
<1>7. r = <<>> <=> todo = <<>>
  <2>1. r # <<>> <=> Len(r) # 0
    BY <1>5
  <2> QED BY <1>3, <1>5, <2>1
<1>8. EndsWell(r)
  <2>1. ASSUME r # <<>> PROVE MayBeLast(r[Len(r)])
    <3>1. Len(todo) \in 1 .. Len(todo) /\ MayBeLast(todo[Len(todo)]) /\ StepOK(todo[Len(todo)], by)
      BY <1>3, <1>7, <2>1 DEF EndsWell, StepsOK
    <3> QED BY <1>5, <3>1, NamedStepIs
  <2> QED BY <2>1 DEF EndsWell
<1>9. StepsOK(r, by)
  BY <1>5, <1>6, SeqIs DEF StepsOK
<1> QED
  BY <1>7, <1>8, <1>9 DEF r

LEMMA NewNowIs ==
  ASSUME NEW new, NewOK(new), \A k \in DOMAIN new : k[1] \in Core, NEW dead
  PROVE  NewOK(NewNow(new, dead)) /\ DOMAIN NewNow(new, dead) = DOMAIN new
<1> DEFINE n == NewNow(new, dead)
<1>1. /\ DOMAIN n = DOMAIN new
      /\ \A k \in DOMAIN new : n[k] = [m \in DOMAIN new[k] |-> Now(new[k][m], dead)]
  BY DEF NewNow
<1> HIDE DEF n
<1>2. ASSUME NEW k \in DOMAIN n
      PROVE  /\ k \in Keys /\ DOMAIN n[k] = Columns(k) /\ k[1] \in Core
             /\ \A m \in Columns(k) : n[k][m] \in {new[k][m], Gone} /\ Fits(k, m, n[k][m])
  <2>1. /\ k \in Keys /\ DOMAIN new[k] = Columns(k) /\ k[1] \in Core
        /\ \A m \in Columns(k) : Fits(k, m, new[k][m])
    BY <1>1, <1>2 DEF NewOK
  <2>2. DOMAIN n[k] = Columns(k) /\ \A m \in Columns(k) : n[k][m] = Now(new[k][m], dead)
    BY <1>1, <1>2, <2>1
  <2> QED BY <2>1, <2>2 DEF Now, Fits
<1>3. NoneIndexed(n)
  <2>1. ASSUME NEW u \in RowsIn(n, "unique") PROVE Managed(n[u].table_id)
    <3>1. u \in RowsIn(new, "unique") /\ u \in DOMAIN n /\ "table_id" \in Columns(u)
      BY <1>1, <2>1, CoreColumns DEF RowsIn
    <3>2. n[u].table_id \in {new[u].table_id, Gone}
      BY <1>2, <3>1
    <3> QED BY <3>1, <3>2, ForeignIs DEF NewOK, NoneIndexed, Managed
  <2> QED BY <2>1 DEF NoneIndexed
<1>4. ASSUME NEW k \in DOMAIN n, NEW m \in Columns(k), k[1] \notin {"field", "unique"}
      PROVE  Column(k, m).on = "nothing"
  <2>1. k[1] \in {"table", "relation"}
    BY <1>2, <1>4 DEF Core
  <2> QED BY <1>4, <2>1, CoreColumns, KindsAre
<1>5. IsFiniteSet(DOMAIN n)
  BY <1>1 DEF NewOK
<1>6. NewOK(n)
  BY <1>2, <1>3, <1>4, <1>5 DEF NewOK
<1> QED
  BY <1>1, <1>6 DEF n

\* What is set is still there, or goes nowhere.
LEMMA SetNowIs ==
  ASSUME NEW c, CatOK(c), NEW set, SetOK(c, set), NEW dead, Closed(c, dead), NEW after,
         DOMAIN c \ dead \subseteq DOMAIN after,
         \A k \in DOMAIN c \ dead : k[1] = "field" => after[k].table_id = c[k].table_id
  PROVE  SetOK(after, SetNow(set, dead))
<1> DEFINE s == SetNow(set, dead)
<1>1. s = [k \in {Now(k, dead) : k \in DOMAIN set} |->
             IF k = Gone THEN Nothing ELSE [m \in DOMAIN set[k] |-> Now(set[k][m], dead)]]
  BY DEF SetNow
<1> HIDE DEF s
<1>2. ASSUME NEW k \in DOMAIN s, NEW m \in DOMAIN s[k]
      PROVE  /\ k \in DOMAIN after /\ m \in Columns(k)
             /\ \/ Column(k, m).on = "nothing" /\ Fits(k, m, s[k][m])
                \/ k[1] = "field" /\ m = "table_id" /\ s[k][m] = after[k].table_id
  <2>1. k # Gone
    BY <1>1, <1>2 DEF Nothing
  <2>2. k \in DOMAIN set /\ k \notin dead
    BY <1>1, <2>1 DEF Now
  <2>3. m \in DOMAIN set[k] /\ s[k][m] = Now(set[k][m], dead)
    BY <1>1, <1>2, <2>1
  <2>4. /\ k \in DOMAIN c /\ m \in Columns(k)
        /\ \/ Column(k, m).on = "nothing" /\ Fits(k, m, set[k][m])
           \/ k[1] = "field" /\ m = "table_id" /\ set[k][m] = c[k].table_id
    BY <2>2, <2>3 DEF SetOK
  <2>5. CASE Column(k, m).on = "nothing" /\ Fits(k, m, set[k][m])
    BY <2>2, <2>3, <2>4, <2>5 DEF Now, Fits
  <2>6. CASE k[1] = "field" /\ m = "table_id" /\ set[k][m] = c[k].table_id
    <3>1. Column(k, m).on = "cascade"
      BY <2>6, CoreColumns, KindsAre
    <3>2. c[k].table_id \notin dead
      BY <2>2, <2>4, <2>6, <3>1 DEF Closed, Hangs
    <3> QED BY <2>2, <2>3, <2>4, <2>6, <3>2 DEF Now
  <2> QED BY <2>4, <2>5, <2>6
<1> QED
  BY <1>2 DEF SetOK, s

LEMMA IdleOutdated ==
  ASSUME NEW moved, NEW dead
  PROVE  Outdated(Idle, moved, dead) = Idle
<1>1. Idle = Whose(Idle)
  BY DEF Idle, Asked, Whose
<1>2. Renamed(<<>>, moved) = <<>>
  <2>1. StepsOK(<<>>, None) /\ EndsWell(<<>>)
    BY StepsAre DEF EndsWell
  <2> QED BY <2>1, RenamedIs
<1>3. NewNow(Nothing, dead) = Nothing
  BY DEF NewNow, Nothing
<1>4. SetNow(Nothing, dead) = Nothing
  BY DEF SetNow, Nothing
<1>5. {Now(k, dead) : k \in {}} = {}
  OBVIOUS
<1>6. Outdated(Idle, moved, dead) =
           [by |-> Idle.by, todo |-> Renamed(Idle.todo, moved), new |-> NewNow(Idle.new, dead),
            set |-> SetNow(Idle.set, dead), del |-> {Now(k, dead) : k \in Idle.del},
            held |-> Idle.held, done |-> Idle.done, past |-> Idle.past]
  BY <1>1, OutdatedIs
<1> QED
  BY <1>1, <1>2, <1>3, <1>4, <1>5, <1>6, IdleIs DEF Whose

\* A request that sees another one commit: it holds none of what is new, and what
\* did not fall is of the table that it was of.
Outlives(c, j, dead, new, after) ==
    /\ CatOK(c) /\ JobOK(c, j) /\ j # Idle /\ j.by \notin Whole /\ Closed(c, dead)
    /\ DOMAIN after \subseteq DOMAIN c \cup new /\ j.held \cap new = {}
    /\ DOMAIN c \ dead \subseteq DOMAIN after
    /\ \A k \in DOMAIN c \ dead : k[1] = "field" => after[k].table_id = c[k].table_id

\* Another request is as well made after a commit as it was before.
LEMMA OutdatedOK ==
  ASSUME NEW c, NEW j, NEW moved, NEW dead, NEW new, NEW after, Outlives(c, j, dead, new, after)
  PROVE  JobOK(after, Outdated(j, moved, dead)) /\ Outdated(j, moved, dead).by = j.by
<1> USE DEF Outlives
<1> DEFINE o == Outdated(j, moved, dead)
<1>1. j = Whose(j)
  BY DEF JobOK, Whose
<1>2. o = [by |-> j.by, todo |-> Renamed(j.todo, moved), new |-> NewNow(j.new, dead),
           set |-> SetNow(j.set, dead), del |-> {Now(k, dead) : k \in j.del},
           held |-> j.held, done |-> j.done, past |-> j.past]
  BY <1>1, OutdatedIs
<1> HIDE DEF o
<1>3. /\ o.by = j.by /\ o.todo = Renamed(j.todo, moved) /\ o.new = NewNow(j.new, dead)
      /\ o.set = SetNow(j.set, dead) /\ o.del = {Now(k, dead) : k \in j.del}
      /\ o.held = j.held /\ o.done = j.done /\ o.past = j.past
      /\ o = [by |-> o.by, todo |-> o.todo, new |-> o.new, set |-> o.set, del |-> o.del,
              held |-> o.held, done |-> o.done, past |-> o.past]
  BY <1>2
<1>4. /\ StepsOK(o.todo, o.by) /\ EndsWell(o.todo) /\ o.todo # <<>>
  BY <1>3, RenamedIs DEF JobOK
<1>5. NewOK(o.new) /\ DOMAIN o.new = DOMAIN j.new
  <2>1. NewOK(j.new) /\ \A k \in DOMAIN j.new : k[1] \in Core
    BY DEF JobOK, Core
  <2> QED BY <1>3, <2>1, NewNowIs
<1>6. SetOK(after, o.set)
  <2>1. SetOK(c, j.set)
    BY DEF JobOK
  <2> QED BY <1>3, <2>1, SetNowIs
<1>7. DOMAIN o.new # {} => o.del = {}
  BY <1>3, <1>5 DEF JobOK
<1>8. o.held \cap DOMAIN o.new \cap DOMAIN after = {}
  BY <1>3, <1>5 DEF JobOK
<1>9. \A k \in DOMAIN o.new : k[1] \in {"table", "field", "unique", "relation"}
  BY <1>5 DEF JobOK
<1>10. \A x \in o.done : Ours(x)
  BY <1>3 DEF JobOK
<1>11. JobOK(after, o)
  BY <1>3, <1>4, <1>5, <1>6, <1>7, <1>8, <1>9, <1>10 DEF JobOK
<1> QED
  BY <1>3, <1>11 DEF o

\* A request that has committed goes on with nothing to add or to set.
GoesOn(c, j, o) ==
    /\ JobOK(c, j) /\ j # Idle /\ Len(j.todo) # 1
    /\ o = [Asked(j.by, Tail(j.todo), Nothing, Nothing, {}) EXCEPT !.past = TRUE]

LEMMA CommitsLeft ==
  ASSUME NEW c, NEW j, NEW o, GoesOn(c, j, o)
  PROVE  \A after : JobOK(after, o) /\ o.by = j.by
<1> SUFFICES ASSUME NEW after PROVE JobOK(after, o) /\ o.by = j.by
  OBVIOUS
<1> USE DEF GoesOn
<1> DEFINE a == Asked(j.by, Tail(j.todo), Nothing, Nothing, {})
<1>1. a = [by |-> j.by, todo |-> Tail(j.todo), new |-> Nothing, set |-> Nothing, del |-> {},
           held |-> {}, done |-> {}, past |-> FALSE]
  BY DEF Asked
<1> HIDE DEF a
<1>2. a = Whose(a)
  BY <1>1 DEF Whose
<1>3. o = [by |-> a.by, todo |-> a.todo, new |-> a.new, set |-> a.set, del |-> a.del,
           held |-> a.held, done |-> a.done, past |-> TRUE]
  BY <1>2, UpdatesAre DEF a
<1>4. /\ o.by = j.by /\ o.todo = Tail(j.todo) /\ o.new = Nothing /\ o.set = Nothing /\ o.del = {}
      /\ o.held = {} /\ o.done = {}
      /\ o = [by |-> o.by, todo |-> o.todo, new |-> o.new, set |-> o.set, del |-> o.del,
              held |-> o.held, done |-> o.done, past |-> o.past]
  <2>1. /\ a.by = j.by /\ a.todo = Tail(j.todo) /\ a.new = Nothing /\ a.set = Nothing
        /\ a.del = {} /\ a.held = {} /\ a.done = {}
    BY <1>1
  <2>2. /\ o.by = a.by /\ o.todo = a.todo /\ o.new = a.new /\ o.set = a.set /\ o.del = a.del
        /\ o.held = a.held /\ o.done = a.done /\ o.past = TRUE
    BY <1>3
  <2>3. o = [by |-> o.by, todo |-> o.todo, new |-> o.new, set |-> o.set, del |-> o.del,
             held |-> o.held, done |-> o.done, past |-> o.past]
    BY <1>3
  <2> QED BY <2>1, <2>2, <2>3
<1>5. StepsOK(o.todo, o.by) /\ EndsWell(o.todo) /\ o.todo # <<>>
  <2>1. StepsOK(j.todo, j.by) /\ EndsWell(j.todo) /\ j.todo # <<>>
    BY DEF JobOK
  <2>2. StepsOK(Tail(j.todo), j.by) /\ EndsWell(Tail(j.todo)) /\ Tail(j.todo) # <<>>
    BY <2>1, StepsTail
  <2> QED BY <1>4, <2>2
<1>6. NewOK(Nothing) /\ SetOK(after, Nothing) /\ DOMAIN Nothing = {}
  BY PlainNews, PlainNewOK DEF SetOK, Nothing
<1> QED
  BY <1>4, <1>5, <1>6 DEF JobOK

LEMMA CommitIs ==
  ASSUME SchemaInv, NEW d \in Designers, commit(d)
  PROVE  SchemaInv'
<1>1. Busy(d) /\ job[d] # Idle /\ Next1(d).do = "commit" /\ ~ Waiting(d)
  BY DEF commit, At, Busy
<1>2. CASE Stop(d)
  BY <1>1, <1>2, StopIs
<1>3. CASE ~ Stop(d)
  <2> DEFINE moved == MovedBy(job[d])
             dead == Cascaded(cat, job[d].del)
             own == IF Len(job[d].todo) = 1 THEN Idle
                    ELSE [Asked(job[d].by, Tail(job[d].todo), Nothing, Nothing, {}) EXCEPT !.past = TRUE]
  <2>1. /\ Sound(job[d]) /\ cat' = Committed(job[d]) /\ topic' = topic
        /\ phys' = (phys \ moved) \cup {Unmoved(x) : x \in moved}
        /\ job' = [e \in Designers |-> IF e # d THEN Outdated(job[e], moved, dead) ELSE own]
    BY <1>3 DEF commit
  <2>2. JobOK(cat, job[d]) /\ CatOK(cat) /\ IsFiniteSet(DOMAIN cat)
    BY DEF SchemaInv, CatOK
  <2>3. /\ CatOK(cat') /\ DOMAIN cat' \subseteq DOMAIN cat \cup DOMAIN job[d].new
        /\ DOMAIN cat \ dead \subseteq DOMAIN cat'
        /\ \A k \in DOMAIN cat \ dead : k[1] = "field" => cat'[k].table_id = cat[k].table_id
    BY <2>1, <2>2, CommittedIs
  <2>4. Closed(cat, dead)
    BY <2>2, CascadedIs
  <2>5. PhysOK'
    <3>1. \A x \in moved : x[1] = "moved" /\ Ours(x) /\ x \in phys
      BY <2>2 DEF MovedBy, JobOK
    <3>2. \A x \in moved : x \notin Foreign
      BY <3>1, ForeignIs
    <3>3. \A x \in moved : Ours(Unmoved(x))
      <4>1. ASSUME NEW x \in moved PROVE Ours(Unmoved(x))
        <5>1. x[2] \notin External \cup {Gone}
          BY <3>1, <4>1 DEF Ours
        <5> QED BY <5>1 DEF Ours, Unmoved, Kinds
      <4> QED BY <4>1
    <3> HIDE DEF moved
    <3>4. Foreign \subseteq phys'
      BY <2>1, <3>2 DEF SchemaInv, PhysOK
    <3>5. \A x \in phys' \ Foreign : Ours(x)
      BY <2>1, <3>3 DEF SchemaInv, PhysOK
    <3> QED BY <3>4, <3>5 DEF PhysOK
  <2>6. JobOK(cat', own) /\ (own = Idle \/ own.by = job[d].by)
    <3>1. CASE Len(job[d].todo) = 1
      BY <3>1, IdleIs
    <3>2. CASE Len(job[d].todo) # 1
      <4>1. own = [Asked(job[d].by, Tail(job[d].todo), Nothing, Nothing, {}) EXCEPT !.past = TRUE]
        BY <3>2
      <4> DEFINE j == job[d]
      <4>2. own = [Asked(j.by, Tail(j.todo), Nothing, Nothing, {}) EXCEPT !.past = TRUE]
        BY <4>1
      <4>3. JobOK(cat, j) /\ j # Idle /\ Len(j.todo) # 1
        BY <1>1, <2>2, <3>2
      <4> HIDE DEF own, j
      <4>4. GoesOn(cat, j, own)
        BY <4>2, <4>3 DEF GoesOn
      <4>5. \A after : JobOK(after, own) /\ own.by = j.by
        BY <4>4, CommitsLeft
      <4> QED BY <4>5 DEF j
    <3> QED BY <3>1, <3>2
  <2> HIDE DEF moved, dead, own
  <2>7. ASSUME NEW e \in Designers, e # d, job[e] # Idle
        PROVE  /\ JobOK(cat', Outdated(job[e], moved, dead))
               /\ Outdated(job[e], moved, dead).by = job[e].by
               /\ job[e].by \notin Whole /\ job[d].by \notin Whole
    <3>1. JobOK(cat, job[e])
      BY <2>7 DEF SchemaInv
    <3>2. job[e].by \notin Whole /\ job[d].by \notin Whole
      BY <1>1, <2>7 DEF SchemaInv, Lonely, Busy
    <3>3. job[e].held \cap DOMAIN job[d].new = {}
      <4>1. ~ Waits(d, e)
        BY <1>1, <2>7 DEF Waiting
      <4>2. Written(job[d]) = DOMAIN job[d].new \cup DOMAIN job[d].set \cup Cascaded(cat, job[d].del)
        BY <1>1 DEF Written, Next1
      <4> QED BY <1>1, <2>7, <4>1, <4>2 DEF Waits
    <3> DEFINE j == job[e]
               new == DOMAIN job[d].new
    <3>4. /\ CatOK(cat) /\ JobOK(cat, j) /\ j # Idle /\ j.by \notin Whole /\ Closed(cat, dead)
          /\ DOMAIN cat' \subseteq DOMAIN cat \cup new /\ j.held \cap new = {}
          /\ DOMAIN cat \ dead \subseteq DOMAIN cat'
          /\ \A k \in DOMAIN cat \ dead : k[1] = "field" => cat'[k].table_id = cat[k].table_id
      BY <2>2, <2>3, <2>4, <2>7, <3>1, <3>2, <3>3
    <3> HIDE DEF j, new
    <3>5. PICK after : after = cat'
      OBVIOUS
    <3>6. /\ DOMAIN after \subseteq DOMAIN cat \cup new /\ DOMAIN cat \ dead \subseteq DOMAIN after
          /\ \A k \in DOMAIN cat \ dead : k[1] = "field" => after[k].table_id = cat[k].table_id
      BY <3>4, <3>5
    <3>7. Outlives(cat, j, dead, new, after)
      BY <3>4, <3>6 DEF Outlives
    <3>8. JobOK(after, Outdated(j, moved, dead)) /\ Outdated(j, moved, dead).by = j.by
      BY <3>7, OutdatedOK
    <3> QED BY <3>2, <3>5, <3>8 DEF j
  <2>8. \A e \in Designers : e # d /\ job[e] = Idle => Outdated(job[e], moved, dead) = Idle
    BY IdleOutdated
  <2>9. /\ job' = [e \in Designers |-> job'[e]] /\ job'[d] = own
        /\ \A e \in Designers : e # d => job'[e] = Outdated(job[e], moved, dead)
    BY <2>1
  <2>10. \A e \in Designers : JobOK(cat', job'[e])
    BY <2>6, <2>7, <2>8, <2>9, IdleIs
  <2>11. Lonely'
    <3>1. ASSUME NEW e \in Designers, NEW f \in Designers, e # f, job'[e] # Idle, job'[e].by \in Whole
          PROVE  job'[f] = Idle
      <4>1. CASE e = d
        <5>1. job[d].by \in Whole
          BY <2>6, <2>9, <3>1, <4>1
        <5>2. job[f] = Idle
          BY <2>7, <3>1, <4>1, <5>1
        <5> QED BY <2>8, <2>9, <3>1, <4>1, <5>2
      <4>2. CASE e # d
        BY <2>7, <2>8, <2>9, <3>1, <4>2
      <4> QED BY <4>1, <4>2
    <3> QED BY <3>1 DEF Lonely, Busy
  <2> QED
    BY <2>1, <2>3, <2>5, <2>9, <2>10, <2>11 DEF SchemaInv
<1> QED BY <1>2, <1>3

-----------------------------------------------------------------------------
(* The theorems.                                                              *)

LEMMA SchemaInvInit == Init => SchemaInv
<1> SUFFICES ASSUME Init PROVE SchemaInv
  OBVIOUS
<1>2. PICK s \in Seeds : topic = s.topic /\ cat = s.cat
  BY DEF Init
<1>3. topic.each \in Nat /\ CatOK(cat)
  BY <1>2, SchemaAssumption DEF CatOK
<1>4. PhysOK
  <2>1. \A x \in Described(cat) : Ours(x)
    BY <1>3, CatDescribes
  <2> QED BY <2>1 DEF Init, PhysOK
<1>5. job = [d \in Designers |-> job[d]] /\ \A d \in Designers : job[d] = Idle
  BY DEF Init
<1> QED
  BY <1>3, <1>4, <1>5, IdleIs DEF SchemaInv, Lonely, Busy

LEMMA SchemaInvNext == SchemaInv /\ [Next]_vars => SchemaInv'
<1> SUFFICES ASSUME SchemaInv, [Next]_vars PROVE SchemaInv'
  OBVIOUS
<1>2. CASE Quiet /\ OneRow /\ UNCHANGED schemaVars
  <2>1. CatOK(cat') /\ topic' = topic
    BY <1>2, OneRowIs DEF SchemaInv
  <2>2. phys' = phys /\ job' = job
    BY <1>2 DEF schemaVars
  <2>3. \A d \in Designers : JobOK(cat', job[d])
    BY <1>2, IdleIs DEF Quiet, Busy
  <2> QED BY <2>1, <2>2, <2>3 DEF SchemaInv, PhysOK, Lonely, Busy
<1>3. ASSUME NEW d \in Designers, (AllWhole /\ Alone /\ Request(d)) \/ Progress(d)
      PROVE  SchemaInv'
  <2>1. CASE Alone /\ Request(d)
    BY <2>1, RequestIs
  <2>2. CASE flush(d) \/ commit(d) \/ wipe(d)
    BY <2>2, FlushIs, CommitIs, WipeIs
  <2>3. CASE build(d) \/ drop(d) \/ rename(d) \/ clear(d) \/ fail(d)
    BY <2>3, StatementsAre
  <2>4. CASE deadlock_victim(d)
    <3>1. Busy(d) /\ Stop(d)
      BY <2>4 DEF deadlock_victim, Waits
    <3> QED BY <3>1, StopIs
  <2> QED BY <1>3, <2>1, <2>2, <2>3, <2>4 DEF Progress
<1>4. CASE crash
  BY <1>4, CrashIs
<1>5. CASE UNCHANGED vars
  <2>1. topic' = topic /\ cat' = cat /\ phys' = phys /\ job' = job
    BY <1>5 DEF vars
  <2> QED BY <2>1 DEF SchemaInv, PhysOK, Lonely, Busy
<1> QED
  BY <1>2, <1>3, <1>4, <1>5 DEF Next

\* What is sent to the database is Biggy's own, and fits the catalogue
\* (schema_service.py, designer/routes.py).
THEOREM SchemaInvHolds == Spec => []SchemaInv
<1> QED
  BY SchemaInvInit, SchemaInvNext, PTL DEF Spec

\* Every foreign key of the catalogue names a row of its class, whatever is
\* deleted, imported or changed by two designers at once; a request that is
\* under way has a step to take (models/metadata.py).
THEOREM TypeCorrect == Spec => []TypeOK
<1>1. SchemaInv => TypeOK
  <2> SUFFICES ASSUME SchemaInv PROVE TypeOK
    OBVIOUS
  <2>2. Typed(cat)
    BY DEF SchemaInv, CatOK
  <2>3. \A x \in phys : x[1] \in {"table", "column", "moved", "junction", "unique", "flags"}
    BY ForeignIs DEF SchemaInv, PhysOK, Ours, Kinds
  <2>4. ASSUME NEW d \in Designers, Busy(d) PROVE Len(job[d].todo) > 0
    <3>1. StepsOK(job[d].todo, job[d].by) /\ job[d].todo # <<>>
      BY <2>4 DEF SchemaInv, JobOK, Busy
    <3> QED BY <3>1, StepsTail
  <2> QED BY <2>2, <2>3, <2>4 DEF TypeOK
<1> QED
  BY <1>1, SchemaInvHolds, PTL

\* Whatever is requested, and however requests overlap, are refused or die, the
\* tables that Biggy did not make stay, with their columns (designer/routes.py:
\* _external_readonly; schema_service.py).
THEOREM ForeignKeptHolds == Spec => []ForeignKept
<1>1. SchemaInv => ForeignKept
  BY DEF SchemaInv, PhysOK, ForeignKept
<1> QED
  BY <1>1, SchemaInvHolds, PTL

=============================================================================
