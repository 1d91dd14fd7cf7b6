--------------------------- MODULE RecordsProofs ---------------------------
(* Proofs about Records: the types, that nothing is left pointing at a row    *)
(* that is not there, that files follow rows, that removals and merges are    *)
(* whole, and that formulas are exact.                                        *)
EXTENDS Records, TLAPS, FiniteSetTheorems, SequenceTheorems, WellFoundedInduction

-----------------------------------------------------------------------------
(* Types. *)

InsertSteps == [do: {"insert"}, ref: Projects \cup {None}, value: Values \cup {None},
                depth: 0..MaxDepth, file: BOOLEAN]
FireSteps == [do: {"fire"}, event: {"create", "update"}, t: Tasks,
              old: Values \cup {None}, k: Nat \ {0}, depth: 0..MaxDepth]
RippleSteps == [do: {"ripple"}, r: Rows, ref: Projects \cup {None}]
RefreshSteps == [do: {"refresh"}, rows: SUBSET Rows]
WriteTaskSteps == [do: {"write task"}, t: Tasks, ref: Projects \cup {None},
                   value: Values \cup {None}]
WriteProjectSteps == [do: {"write project"}, p: Projects, note: Notes \cup {None}]
CellSteps == [do: {"edit cell"}, t: Tasks, value: Values \cup {None}]
LinkSteps == [do: {"set links"}, p: Projects, tags: SUBSET Tags]
LooseSteps == [do: {"unlink", "dissociate"}, p: Projects]
MarkSteps == [do: {"mark"}, r: Rows, state: {"live", "trash"}]
RowSteps == [do: {"remove", "delete"}, r: Rows]
FileSteps == [do: {"delete file", "detach", "save", "attach"}, t: Tasks]
RepointSteps == [do: {"repoint"}, s: Projects, d: Projects]

\* What a request may have to commit.
Steps ==
    InsertSteps \cup FireSteps \cup RippleSteps \cup RefreshSteps \cup WriteTaskSteps
    \cup WriteProjectSteps \cup CellSteps \cup LinkSteps \cup LooseSteps \cup MarkSteps
    \cup RowSteps \cup FileSteps \cup RepointSteps

TypeInv ==
    /\ TypeOK
    /\ todo \in Seq(Steps)
    /\ made \in 0..MaxDepth
    /\ crashed \in BOOLEAN
    /\ pair \in {<<>>} \cup (Projects \X Projects)
    /\ requests \in Nat

\* A step is what its name says.
LEMMA StepKinds ==
  ASSUME NEW s \in Steps
  PROVE  /\ s.do = "insert" => s \in InsertSteps
         /\ s.do = "fire" => s \in FireSteps
         /\ s.do = "ripple" => s \in RippleSteps
         /\ s.do = "refresh" => s \in RefreshSteps
         /\ s.do = "write task" => s \in WriteTaskSteps
         /\ s.do = "write project" => s \in WriteProjectSteps
         /\ s.do = "edit cell" => s \in CellSteps
         /\ s.do = "set links" => s \in LinkSteps
         /\ s.do \in {"unlink", "dissociate"} => s \in LooseSteps
         /\ s.do = "mark" => s \in MarkSteps
         /\ s.do \in {"remove", "delete"} => s \in RowSteps
         /\ s.do \in {"delete file", "detach", "save", "attach"} => s \in FileSteps
         /\ s.do = "repoint" => s \in RepointSteps
<1>1. \/ s \in InsertSteps \/ s \in FireSteps \/ s \in RippleSteps \/ s \in RefreshSteps
      \/ s \in WriteTaskSteps \/ s \in WriteProjectSteps \/ s \in CellSteps
      \/ s \in LinkSteps \/ s \in LooseSteps \/ s \in MarkSteps \/ s \in RowSteps
      \/ s \in FileSteps \/ s \in RepointSteps
  BY DEF Steps
<1>2. /\ s \in InsertSteps => s.do = "insert"
      /\ s \in FireSteps => s.do = "fire"
      /\ s \in RippleSteps => s.do = "ripple"
      /\ s \in RefreshSteps => s.do = "refresh"
  BY DEF InsertSteps, FireSteps, RippleSteps, RefreshSteps
<1>3. /\ s \in WriteTaskSteps => s.do = "write task"
      /\ s \in WriteProjectSteps => s.do = "write project"
      /\ s \in CellSteps => s.do = "edit cell"
      /\ s \in LinkSteps => s.do = "set links"
      /\ s \in LooseSteps => s.do \in {"unlink", "dissociate"}
  BY DEF WriteTaskSteps, WriteProjectSteps, CellSteps, LinkSteps, LooseSteps
<1>4. /\ s \in MarkSteps => s.do = "mark"
      /\ s \in RowSteps => s.do \in {"remove", "delete"}
      /\ s \in FileSteps => s.do \in {"delete file", "detach", "save", "attach"}
      /\ s \in RepointSteps => s.do = "repoint"
  BY DEF MarkSteps, RowSteps, FileSteps, RepointSteps
<1>5. QED
  BY <1>1, <1>2, <1>3, <1>4

\* The steps that the transactions make.
LEMMA StepMakers ==
  /\ \A p \in Projects \cup {None}, v \in Values \cup {None}, d \in 0..MaxDepth :
       \A f \in BOOLEAN :
         [do |-> "insert", ref |-> p, value |-> v, depth |-> d, file |-> f] \in Steps
  /\ \A e \in {"create", "update"}, t \in Tasks, v \in Values \cup {None}, d \in 0..MaxDepth :
         [do |-> "fire", event |-> e, t |-> t, old |-> v, k |-> 1, depth |-> d] \in Steps
  /\ \A r \in Rows, p \in Projects \cup {None} :
         [do |-> "ripple", r |-> r, ref |-> p] \in Steps
  /\ \A S \in SUBSET Rows : [do |-> "refresh", rows |-> S] \in Steps
  /\ \A t \in Tasks, p \in Projects \cup {None}, v \in Values \cup {None} :
         [do |-> "write task", t |-> t, ref |-> p, value |-> v] \in Steps
  /\ \A p \in Projects, n \in Notes \cup {None} :
         [do |-> "write project", p |-> p, note |-> n] \in Steps
  /\ \A t \in Tasks, v \in Values \cup {None} :
         [do |-> "edit cell", t |-> t, value |-> v] \in Steps
  /\ \A p \in Projects, S \in SUBSET Tags : [do |-> "set links", p |-> p, tags |-> S] \in Steps
  /\ \A p \in Projects : /\ [do |-> "unlink", p |-> p] \in Steps
                         /\ [do |-> "dissociate", p |-> p] \in Steps
  /\ \A r \in Rows : /\ [do |-> "mark", r |-> r, state |-> "live"] \in Steps
                     /\ [do |-> "mark", r |-> r, state |-> "trash"] \in Steps
                     /\ [do |-> "remove", r |-> r] \in Steps
                     /\ [do |-> "delete", r |-> r] \in Steps
  /\ \A t \in Tasks : /\ [do |-> "delete file", t |-> t] \in Steps
                      /\ [do |-> "detach", t |-> t] \in Steps
                      /\ [do |-> "save", t |-> t] \in Steps
                      /\ [do |-> "attach", t |-> t] \in Steps
  /\ \A s, d \in Projects : [do |-> "repoint", s |-> s, d |-> d] \in Steps
<1>1. \A s : s \in InsertSteps \/ s \in FireSteps \/ s \in RippleSteps \/ s \in RefreshSteps
             \/ s \in WriteTaskSteps \/ s \in WriteProjectSteps \/ s \in CellSteps
             \/ s \in LinkSteps \/ s \in LooseSteps \/ s \in MarkSteps \/ s \in RowSteps
             \/ s \in FileSteps \/ s \in RepointSteps => s \in Steps
  BY DEF Steps
<1>2. \A p \in Projects \cup {None}, v \in Values \cup {None}, d \in 0..MaxDepth :
       \A f \in BOOLEAN :
         [do |-> "insert", ref |-> p, value |-> v, depth |-> d, file |-> f] \in InsertSteps
  BY DEF InsertSteps
<1>3. \A e \in {"create", "update"}, t \in Tasks, v \in Values \cup {None}, d \in 0..MaxDepth :
         [do |-> "fire", event |-> e, t |-> t, old |-> v, k |-> 1, depth |-> d] \in FireSteps
  BY DEF FireSteps
<1>4. /\ \A r \in Rows, p \in Projects \cup {None} :
           [do |-> "ripple", r |-> r, ref |-> p] \in RippleSteps
      /\ \A S \in SUBSET Rows : [do |-> "refresh", rows |-> S] \in RefreshSteps
  BY DEF RippleSteps, RefreshSteps
<1>5. /\ \A t \in Tasks, p \in Projects \cup {None}, v \in Values \cup {None} :
           [do |-> "write task", t |-> t, ref |-> p, value |-> v] \in WriteTaskSteps
      /\ \A p \in Projects, n \in Notes \cup {None} :
           [do |-> "write project", p |-> p, note |-> n] \in WriteProjectSteps
      /\ \A t \in Tasks, v \in Values \cup {None} :
           [do |-> "edit cell", t |-> t, value |-> v] \in CellSteps
  BY DEF WriteTaskSteps, WriteProjectSteps, CellSteps
<1>6. /\ \A p \in Projects, S \in SUBSET Tags :
           [do |-> "set links", p |-> p, tags |-> S] \in LinkSteps
      /\ \A p \in Projects : /\ [do |-> "unlink", p |-> p] \in LooseSteps
                             /\ [do |-> "dissociate", p |-> p] \in LooseSteps
  BY DEF LinkSteps, LooseSteps
<1>7. \A r \in Rows : /\ [do |-> "mark", r |-> r, state |-> "live"] \in MarkSteps
                      /\ [do |-> "mark", r |-> r, state |-> "trash"] \in MarkSteps
                      /\ [do |-> "remove", r |-> r] \in RowSteps
                      /\ [do |-> "delete", r |-> r] \in RowSteps
  BY DEF MarkSteps, RowSteps
<1>8. /\ \A t \in Tasks : /\ [do |-> "delete file", t |-> t] \in FileSteps
                          /\ [do |-> "detach", t |-> t] \in FileSteps
                          /\ [do |-> "save", t |-> t] \in FileSteps
                          /\ [do |-> "attach", t |-> t] \in FileSteps
      /\ \A s, d \in Projects : [do |-> "repoint", s |-> s, d |-> d] \in RepointSteps
  BY DEF FileSteps, RepointSteps
<1>9. QED
  BY <1>1, <1>2, <1>3, <1>4, <1>5, <1>6, <1>7, <1>8

LEMMA StepSeqs ==
  /\ <<>> \in Seq(Steps)
  /\ \A a \in Steps : <<a>> \in Seq(Steps)
  /\ \A a, b \in Steps : <<a, b>> \in Seq(Steps)
  /\ \A u, v \in Seq(Steps) : u \o v \in Seq(Steps)
OBVIOUS

\* The step under way, and what follows it.
LEMMA HeadTail ==
  ASSUME todo \in Seq(Steps), todo # <<>>
  PROVE  /\ This \in Steps /\ Tail(todo) \in Seq(Steps)
         /\ Len(todo) \in Nat \ {0} /\ Len(Tail(todo)) = Len(todo) - 1
         /\ This = todo[1]
         /\ \A i \in 1..Len(Tail(todo)) : Tail(todo)[i] = todo[i + 1]
BY DEF This

LEMMA ThenSteps ==
  ASSUME todo \in Seq(Steps), todo # <<>>, NEW steps \in Seq(Steps), Then(steps)
  PROVE  /\ todo' \in Seq(Steps)
         /\ Len(todo') = Len(steps) + Len(todo) - 1
         /\ \A i \in 1..Len(steps) : todo'[i] = steps[i]
         /\ \A i \in 1..Len(todo') : i > Len(steps) => todo'[i] = todo[i - Len(steps) + 1]
<1>1. /\ Tail(todo) \in Seq(Steps) /\ Len(todo) \in Nat \ {0}
      /\ Len(Tail(todo)) = Len(todo) - 1
      /\ \A i \in 1..Len(Tail(todo)) : Tail(todo)[i] = todo[i + 1]
  BY HeadTail
<1> DEFINE v == Tail(todo)
<1>2. todo' = steps \o v /\ v \in Seq(Steps)
  BY <1>1 DEF Then
<1>3. Len(steps) \in Nat /\ Len(v) \in Nat /\ Len(v) = Len(todo) - 1
      /\ \A i \in 1..Len(v) : v[i] = todo[i + 1]
  BY <1>1
<1> HIDE DEF v
<1>4. /\ todo' \in Seq(Steps) /\ Len(todo') = Len(steps) + Len(v)
      /\ \A i \in 1..Len(steps) : todo'[i] = steps[i]
      /\ \A i \in 1..Len(v) : todo'[Len(steps) + i] = v[i]
  BY <1>2
<1>5. ASSUME NEW i \in 1..Len(todo'), i > Len(steps)
      PROVE  todo'[i] = todo[i - Len(steps) + 1]
  <2>1. i - Len(steps) \in 1..Len(v) /\ Len(steps) + (i - Len(steps)) = i
    BY <1>3, <1>4, <1>5
  <2>2. QED
    BY <1>3, <1>4, <2>1
<1>6. Len(todo') = Len(steps) + Len(todo) - 1
  BY <1>1, <1>3, <1>4
<1>7. QED
  BY <1>4, <1>5, <1>6

\* A finite set as a sequence without repetitions.
LEMMA Listed ==
  ASSUME NEW S, IsFiniteSet(S)
  PROVE  /\ Cardinality(S) \in Nat
         /\ SetToSeq(S) \in [1..Cardinality(S) -> S]
         /\ \A i, j \in 1..Cardinality(S) : SetToSeq(S)[i] = SetToSeq(S)[j] => i = j
         /\ \A r \in S : \E i \in 1..Cardinality(S) : SetToSeq(S)[i] = r
<1>1. Cardinality(S) \in Nat /\ ExistsBijection(1..Cardinality(S), S)
  BY FS_CardinalityType
<1>2. \E f \in [1..Cardinality(S) -> S] : IsInjective(f)
  BY <1>1 DEF ExistsBijection, Bijection, Injection, IsInjective
<1> DEFINE f == SetToSeq(S)
           n == Cardinality(S)
<1>3. f \in [1..n -> S] /\ IsInjective(f)
  BY <1>2 DEF SetToSeq
<1> HIDE DEF f
<1>4. \A i, j \in 1..n : f[i] = f[j] => i = j
  BY <1>3 DEF IsInjective
<1>5. f \in Injection(1..n, S)
  BY <1>3, <1>4 DEF Injection, IsInjective
<1>6. n = Cardinality(1..n)
  BY <1>1, FS_Interval
<1>7. f \in Surjection(1..n, S)
  BY <1>5, <1>6, FS_Injection
<1>8. \A r \in S : \E i \in 1..n : f[i] = r
  BY <1>7 DEF Surjection
<1>9. QED
  BY <1>1, <1>3, <1>4, <1>8 DEF f

LEMMA RollupType ==
  ASSUME NEW p
  PROVE  Rollup(p) \in 0..Cardinality(Tasks)
<1> DEFINE S == {t \in Children(p) : value[t] # None}
<1>1. S \in SUBSET Tasks
  BY DEF Children
<1> HIDE DEF S
<1>2. IsFiniteSet(S) /\ Cardinality(S) <= Cardinality(Tasks)
  BY <1>1, RecordsAssumption, FS_Subset
<1>3. Cardinality(S) \in Nat /\ Cardinality(Tasks) \in Nat
  BY <1>2, RecordsAssumption, FS_CardinalityType
<1>4. QED
  BY <1>2, <1>3 DEF Rollup, S

\* What follows a refusal is the end of the queue.
LEMMA AfterFailureIs ==
  ASSUME todo \in Seq(Steps)
  PROVE  /\ AfterFailure \in Seq(Steps)
         /\ Len(AfterFailure) = Cardinality({i \in DOMAIN todo : todo[i].do = "remove"})
         /\ Len(AfterFailure) \in 0..Len(todo)
         /\ \A i \in 1..Len(AfterFailure) :
              /\ Len(todo) - Len(AfterFailure) + i \in 1..Len(todo)
              /\ AfterFailure[i] = todo[Len(todo) - Len(AfterFailure) + i]
<1> DEFINE R == {i \in DOMAIN todo : todo[i].do = "remove"}
           n == Cardinality(R)
           L == Len(todo)
<1>1. L \in Nat /\ DOMAIN todo = 1..L /\ R \in SUBSET (1..L)
  OBVIOUS
<1>2. n \in Nat /\ n <= L
  <2>1. IsFiniteSet(1..L) /\ Cardinality(1..L) = L
    BY <1>1, FS_Interval
  <2>2. IsFiniteSet(R) /\ Cardinality(R) <= Cardinality(1..L)
    <3> HIDE DEF R
    <3>1. QED
      BY <1>1, <2>1, FS_Subset
  <2>3. Cardinality(R) \in Nat
    BY <2>2, FS_CardinalityType
  <2>4. QED
    BY <2>1, <2>2, <2>3
<1>3. AfterFailure = [i \in 1..n |-> todo[L - n + i]]
  BY DEF AfterFailure
<1> HIDE DEF n
<1>4. \A i \in 1..n : L - n + i \in 1..L
  BY <1>1, <1>2
<1>5. \A i \in 1..n : todo[L - n + i] \in Steps
  BY <1>1, <1>4
<1>6. AfterFailure \in Seq(Steps) /\ Len(AfterFailure) = n
  BY <1>2, <1>3, <1>5
<1>7. \A i \in 1..n : AfterFailure[i] = todo[L - n + i]
  BY <1>3
<1>8. n \in 0..L
  BY <1>1, <1>2
<1>9. QED
  BY <1>4, <1>6, <1>7, <1>8 DEF n

LEMMA TypeInit == Init => TypeInv
<1> SUFFICES ASSUME Init PROVE TypeInv
  OBVIOUS
<1>1. PICK old \in {{}, Projects}, first \in SUBSET Tasks, p \in Projects, v \in Values :
        /\ IF old = {} THEN first = {} ELSE Cardinality(first) = 1
        /\ row = [r \in Rows |-> IF r \in old \cup first THEN "live" ELSE "unused"]
        /\ ref = [t \in Tasks |-> IF t \in first THEN p ELSE None]
        /\ value = [t \in Tasks |-> IF t \in first THEN v ELSE None]
        /\ note \in [Projects -> IF old = {} THEN {None} ELSE Notes \cup {None}]
        /\ shown = [t \in Tasks |-> IF t \in first THEN note[p] ELSE None]
        /\ total = [q \in Projects |-> IF first # {} /\ q = p THEN 1 ELSE 0]
        /\ link \in {{}, (old \cap {p}) \X Tags}
        /\ att = first /\ disk = first
  BY DEF Init
<1>2. /\ row \in [Rows -> {"unused", "live", "trash", "gone"}]
      /\ ref \in [Tasks -> Projects \cup {None}]
      /\ value \in [Tasks -> Values \cup {None}]
      /\ att \subseteq Tasks /\ disk \subseteq Tasks /\ link \subseteq Projects \X Tags
  BY <1>1
<1>3. note \in [Projects -> Notes \cup {None}]
  BY <1>1
<1>4. shown \in [Tasks -> Notes \cup {None}]
  BY <1>1, <1>3
<1>5. total \in [Projects -> 0..Cardinality(Tasks)]
  <2>1. Cardinality(Tasks) \in Nat /\ Cardinality({}) = 0
    BY RecordsAssumption, FS_CardinalityType, FS_EmptySet
  <2>2. Tasks # {} => Cardinality(Tasks) # 0
    BY RecordsAssumption, FS_EmptySet
  <2>3. first # {} => 1 \in 0..Cardinality(Tasks)
    BY <2>1, <2>2
  <2>4. 0 \in 0..Cardinality(Tasks)
    BY <2>1
  <2>5. QED
    BY <1>1, <2>3, <2>4
<1>6. /\ design \in Designs /\ todo = <<>> /\ stale = {} /\ crashed = FALSE
      /\ pair = <<>> /\ asked = {} /\ made = 0 /\ requests = 0
  BY DEF Init
<1>7. 0 \in 0..MaxDepth /\ <<>> \in Seq(Steps)
  BY RecordsAssumption
<1>8. TypeOK
  BY <1>2, <1>3, <1>4, <1>5, <1>6 DEF TypeOK
<1>9. QED
  BY <1>6, <1>7, <1>8 DEF TypeInv

LEMMA Looked ==
  ASSUME TypeOK, NEW p \in Projects \cup {None}
  PROVE  Lookup(p) \in Notes \cup {None}
BY DEF Lookup, TypeOK

LEMMA RuleType ==
  ASSUME NEW k \in Nat \ {0}, k <= Len(Rules)
  PROVE  /\ Rules[k] \in TriggerRules
         /\ Rules[k].set \in Values \cup {None, "keep"}
         /\ Rules[k].spawn \in Values \cup {None, "no"}
<1>1. Rules[k] \in TriggerRules
  BY RecordsAssumption
<1>2. QED
  BY <1>1 DEF TriggerRules

LEMMA SpawnedType ==
  ASSUME TypeOK, NEW k \in Nat \ {0}, k <= Len(Rules), NEW s \in FireSteps
  PROVE  /\ Spawned(Rules[k], s) \in Seq(Steps)
         /\ \/ Spawned(Rules[k], s) = <<>>
            \/ \E a \in InsertSteps :
                 Spawned(Rules[k], s) = <<a>> /\ a.do = "insert" /\ a.ref = ref[s.t]
<1> DEFINE a == [do |-> "insert", ref |-> ref[s.t], value |-> Rules[k].spawn,
                 depth |-> s.depth + 1, file |-> FALSE]
<1>1. Spawned(Rules[k], s) = <<>> \/ (/\ Spawned(Rules[k], s) = <<a>>
                                     /\ Rules[k].spawn # "no" /\ ~ (s.depth >= MaxDepth))
  BY DEF Spawned
<1>2. CASE Rules[k].spawn # "no" /\ ~ (s.depth >= MaxDepth)
  <2>1. Rules[k].spawn \in Values \cup {None}
    BY <1>2, RuleType
  <2>2. s.t \in Tasks /\ s.depth \in 0..MaxDepth
    BY DEF FireSteps
  <2>3. s.depth + 1 \in 0..MaxDepth
    BY <1>2, <2>2, RecordsAssumption
  <2>4. ref[s.t] \in Projects \cup {None}
    BY <2>2 DEF TypeOK
  <2>5. a \in InsertSteps
    BY <2>1, <2>3, <2>4 DEF InsertSteps
  <2>6. a \in Steps
    BY <2>5 DEF Steps
  <2>7. a.do = "insert" /\ a.ref = ref[s.t]
    OBVIOUS
  <2> HIDE DEF a
  <2>8. QED
    BY <1>1, <2>5, <2>6, <2>7, StepSeqs
<1>3. CASE ~ (Rules[k].spawn # "no" /\ ~ (s.depth >= MaxDepth))
  BY <1>1, <1>3, StepSeqs
<1>4. QED
  BY <1>2, <1>3

LEMMA PurgeType ==
  ASSUME TypeOK, NEW r
  PROVE  Purge(r) \in Seq(Steps)
<1> DEFINE a == [do |-> "delete file", t |-> r]
<1>1. r \in att => a \in Steps
  BY StepMakers DEF TypeOK
<1>2. Purge(r) = (IF r \in att THEN <<a>> ELSE <<>>)
  BY DEF Purge
<1> HIDE DEF a
<1>3. QED
  BY <1>1, <1>2, StepSeqs

LEMMA FilesType ==
  ASSUME TypeOK, NEW t \in Tasks, NEW files
  PROVE  Files(t, files) \in Seq(Steps)
<1> DEFINE a == [do |-> "save", t |-> t]
<1>1. a \in Steps /\ Purge(t) \in Seq(Steps)
  BY StepMakers, PurgeType
<1>2. Files(t, files) \in {<<>>, <<a>>, Purge(t)}
  BY DEF Files
<1> HIDE DEF a
<1>3. QED
  BY <1>1, <1>2, StepSeqs

\* Short sequences put one after the other.
LEMMA Joined ==
  /\ \A a : <<a>> \o <<>> = <<a>> /\ <<>> \o <<a>> = <<a>>
  /\ \A a, b : <<a>> \o <<b>> = <<a, b>>
  /\ \A a, b, c : <<a, b>> \o <<c>> = <<a, b, c>>
<1>1. \A a : <<a>> \o <<>> = <<a>> /\ <<>> \o <<a>> = <<a>>
  OBVIOUS
<1>2. ASSUME NEW a, NEW b PROVE <<a>> \o <<b>> = <<a, b>>
  <2> DEFINE S == {a, b}
             u == <<a>> \o <<b>>
             v == <<a, b>>
  <2>1. <<a>> \in Seq(S) /\ <<b>> \in Seq(S) /\ v \in Seq(S)
    OBVIOUS
  <2>2. u \in Seq(S) /\ Len(u) = 2 /\ u[1] = a /\ u[2] = b
    BY <2>1
  <2>3. Len(v) = 2 /\ v[1] = a /\ v[2] = b /\ \A i \in 1..2 : i = 1 \/ i = 2
    OBVIOUS
  <2> HIDE DEF S, u, v
  <2>4. u = v
    BY <2>1, <2>2, <2>3, SeqEqual
  <2>5. QED
    BY <2>4 DEF u, v
<1>3. ASSUME NEW a, NEW b, NEW c PROVE <<a, b>> \o <<c>> = <<a, b, c>>
  <2> DEFINE S == {a, b, c}
             u == <<a, b>> \o <<c>>
             v == <<a, b, c>>
  <2>1. <<a, b>> \in Seq(S) /\ <<c>> \in Seq(S) /\ v \in Seq(S)
    OBVIOUS
  <2>2. u \in Seq(S) /\ Len(u) = 3 /\ u[1] = a /\ u[2] = b /\ u[3] = c
    BY <2>1
  <2>3. Len(v) = 3 /\ v[1] = a /\ v[2] = b /\ v[3] = c /\ \A i \in 1..3 : i = 1 \/ i = 2 \/ i = 3
    OBVIOUS
  <2> HIDE DEF S, u, v
  <2>4. u = v
    BY <2>1, <2>2, <2>3, SeqEqual
  <2>5. QED
    BY <2>4 DEF u, v
<1>4. QED
  BY <1>1, <1>2, <1>3

-----------------------------------------------------------------------------
(* What there is to do. *)

\* The steps of a sequence.
Els(u) == {u[i] : i \in 1..Len(u)}

LEMMA ElsOf ==
  /\ Els(<<>>) = {}
  /\ \A a : Els(<<a>>) = {a}
  /\ \A a, b : Els(<<a, b>>) = {a, b}
  /\ \A u, v \in Seq(Steps) : Els(u \o v) = Els(u) \cup Els(v)
<1>1. Els(<<>>) = {}
  BY DEF Els
<1>2. \A a : Els(<<a>>) = {a}
  BY DEF Els
<1>3. \A a, b : Els(<<a, b>>) = {a, b}
  <2>1. SUFFICES ASSUME NEW a, NEW b PROVE Els(<<a, b>>) = {a, b}
    OBVIOUS
  <2>2. Len(<<a, b>>) = 2 /\ <<a, b>>[1] = a /\ <<a, b>>[2] = b /\ 1..2 = {1, 2}
    OBVIOUS
  <2>3. QED
    BY <2>2 DEF Els
<1>4. ASSUME NEW u \in Seq(Steps), NEW v \in Seq(Steps)
      PROVE  Els(u \o v) = Els(u) \cup Els(v)
  <2> DEFINE w == u \o v
  <2>1. /\ Len(u) \in Nat /\ Len(v) \in Nat /\ Len(w) = Len(u) + Len(v)
        /\ \A i \in 1..Len(u) : w[i] = u[i]
        /\ \A i \in 1..Len(v) : w[Len(u) + i] = v[i]
    OBVIOUS
  <2>2. \A i \in 1..Len(w) : i \in 1..Len(u) \/ i - Len(u) \in 1..Len(v)
    BY <2>1
  <2>3. \A i \in 1..Len(u) : i \in 1..Len(w)
    BY <2>1
  <2>4. \A i \in 1..Len(v) : Len(u) + i \in 1..Len(w)
    BY <2>1
  <2>5. \A i \in 1..Len(w) : i - Len(u) \in 1..Len(v) => w[i] = v[i - Len(u)]
    BY <2>1
  <2> HIDE DEF w
  <2>6. Els(w) \subseteq Els(u) \cup Els(v)
    BY <2>1, <2>2, <2>5, SMTT(30) DEF Els
  <2>7. Els(u) \subseteq Els(w)
    BY <2>1, <2>3 DEF Els
  <2>8. Els(v) \subseteq Els(w)
    BY <2>1, <2>4 DEF Els
  <2>9. QED
    BY <2>6, <2>7, <2>8 DEF w
<1>5. QED
  BY <1>1, <1>2, <1>3, <1>4

\* What there is to do, by the step under way and the rest.
LEMMA ElsTodo ==
  ASSUME todo \in Seq(Steps), todo # <<>>
  PROVE  /\ Els(todo) = {This} \cup Els(Tail(todo))
         /\ Els(Tail(todo)) = {todo[i] : i \in 2..Len(todo)}
         /\ Els(todo) \subseteq Steps
<1>1. /\ This \in Steps /\ Tail(todo) \in Seq(Steps) /\ Len(todo) \in Nat \ {0}
      /\ Len(Tail(todo)) = Len(todo) - 1 /\ This = todo[1]
      /\ \A i \in 1..Len(Tail(todo)) : Tail(todo)[i] = todo[i + 1]
  BY HeadTail
<1>2. Els(Tail(todo)) \subseteq {todo[i] : i \in 2..Len(todo)}
  <2>1. \A i \in 1..Len(Tail(todo)) : i + 1 \in 2..Len(todo)
    BY <1>1
  <2>2. QED
    BY <1>1, <2>1 DEF Els
<1>3. {todo[i] : i \in 2..Len(todo)} \subseteq Els(Tail(todo))
  <2>1. \A i \in 2..Len(todo) : i - 1 \in 1..Len(Tail(todo)) /\ Tail(todo)[i - 1] = todo[i]
    BY <1>1
  <2>2. QED
    BY <2>1 DEF Els
<1>4. Els(todo) = {todo[1]} \cup {todo[i] : i \in 2..Len(todo)}
  <2>1. \A i \in 1..Len(todo) : i = 1 \/ i \in 2..Len(todo)
    BY <1>1
  <2>2. \A i \in 2..Len(todo) : i \in 1..Len(todo)
    BY <1>1
  <2>3. 1 \in 1..Len(todo)
    BY <1>1
  <2>4. QED
    BY <2>1, <2>2, <2>3 DEF Els
<1>5. Els(todo) \subseteq Steps
  BY DEF Els
<1>6. QED
  BY <1>1, <1>2, <1>3, <1>4, <1>5

\* The removal of one row, spelled out.
LEMMA RemovalIs ==
  ASSUME TypeOK, NEW r \in Rows
  PROVE  \E last \in {<<>>, <<[do |-> "ripple", r |-> r,
                               ref |-> IF r \in Tasks THEN ref[r] ELSE None]>>} :
           /\ last = <<>> <=> ~Exists(r)
           /\ last \in Seq(Steps)
           /\ ~design.soft /\ r \notin att => Removal(r) = <<[do |-> "delete", r |-> r]>> \o last
           /\ ~design.soft /\ r \in att =>
                /\ r \in Tasks
                /\ Removal(r) = <<[do |-> "delete", r |-> r],
                                  [do |-> "delete file", t |-> r]>> \o last
           /\ design.soft /\ r \in Tasks =>
                Removal(r) = <<[do |-> "mark", r |-> r, state |-> "trash"]>> \o last
           /\ design.soft /\ r \in Projects =>
                Removal(r) = <<[do |-> "unlink", p |-> r], [do |-> "dissociate", p |-> r],
                               [do |-> "mark", r |-> r, state |-> "trash"]>> \o last
<1> DEFINE ripple == [do |-> "ripple", r |-> r, ref |-> IF r \in Tasks THEN ref[r] ELSE None]
           last == IF Exists(r) THEN <<ripple>> ELSE <<>>
           delete == [do |-> "delete", r |-> r]
           mark == [do |-> "mark", r |-> r, state |-> "trash"]
           unlink == [do |-> "unlink", p |-> r]
           loose == [do |-> "dissociate", p |-> r]
           file == [do |-> "delete file", t |-> r]
<1>1. Removal(r) = (IF ~design.soft THEN <<delete>> \o Purge(r)
                    ELSE (IF r \in Projects THEN <<unlink, loose>> ELSE <<>>) \o <<mark>>) \o last
  BY DEF Removal
<1>2. Purge(r) = (IF r \in att THEN <<file>> ELSE <<>>)
  BY DEF Purge
<1>3. last \in Seq(Steps) /\ (r \in att => r \in Tasks)
  <2>1. (IF r \in Tasks THEN ref[r] ELSE None) \in Projects \cup {None}
    BY DEF TypeOK
  <2>2. ripple \in Steps
    BY <2>1, StepMakers
  <2>3. QED
    BY <2>2, StepSeqs DEF TypeOK
<1>4. r \in Tasks => r \notin Projects
  BY RecordsAssumption
<1>5. last \in {<<>>, <<ripple>>} /\ (last = <<>> <=> ~Exists(r))
  <2>1. <<ripple>> # <<>>
    OBVIOUS
  <2>2. QED
    BY <2>1
<1> HIDE DEF delete, mark, unlink, loose, file, last
<1>6. /\ <<delete>> \o <<>> = <<delete>> /\ <<>> \o <<mark>> = <<mark>>
      /\ <<delete>> \o <<file>> = <<delete, file>>
      /\ <<unlink, loose>> \o <<mark>> = <<unlink, loose, mark>>
  BY Joined
<1>7. /\ ~design.soft /\ r \notin att => Removal(r) = <<delete>> \o last
      /\ ~design.soft /\ r \in att => r \in Tasks /\ Removal(r) = <<delete, file>> \o last
      /\ design.soft /\ r \in Tasks => Removal(r) = <<mark>> \o last
      /\ design.soft /\ r \in Projects => Removal(r) = <<unlink, loose, mark>> \o last
  BY <1>1, <1>2, <1>3, <1>4, <1>6
<1>8. QED
  BY <1>3, <1>5, <1>7 DEF delete, mark, unlink, loose, file

\* Steps that end rows, steps that need the rows they name, and steps that are
\* done as soon as they are there.
Ending == {"remove", "dissociate", "delete"}
Referring == {"insert", "write task", "fire", "set links", "repoint", "save", "attach"}
Immediate == {"delete", "attach", "detach", "refresh"}

\* What a transaction for step a puts before the rest.
InsertLeads(a, s) ==
    /\ a.do = "insert"
    /\ \E t \in Tasks :
         /\ row[t] = "unused" /\ row' = [row EXCEPT ![t] = "live"]
         /\ ref' = [ref EXCEPT ![t] = a.ref]
         /\ \/ s = [do |-> "fire", event |-> "create", t |-> t, old |-> None, k |-> 1,
                    depth |-> a.depth]
            \/ s = [do |-> "ripple", r |-> t, ref |-> a.ref]
            \/ s = [do |-> "save", t |-> t]

WriteLeads(a, s) ==
    /\ a.do = "write task"
    /\ \/ s = [do |-> "fire", event |-> "update", t |-> a.t, old |-> value[a.t], k |-> 1,
               depth |-> 0]
       \/ s = [do |-> "ripple", r |-> a.t, ref |-> a.ref]

CellLeads(a, s) ==
    /\ a.do = "edit cell" /\ row[a.t] = "live"
    /\ s = [do |-> "write task", t |-> a.t, ref |-> ref[a.t], value |-> a.value]

FireLeads(a, s) ==
    /\ a.do = "fire"
    /\ \/ s.do = "fire" /\ s.t = a.t
       \/ s.do = "insert" /\ s.ref = ref[a.t]

FormulaLeads(a, s) ==
    \/ a.do = "write project" /\ s = [do |-> "ripple", r |-> a.p, ref |-> None]
    \/ a.do \in {"ripple", "refresh"} /\ s.do = "refresh"

RemoveLeads(a, s) ==
    /\ a.do = "remove"
    /\ \/ s.do \in {"delete", "ripple"} /\ s.r = a.r
       \/ s = [do |-> "mark", r |-> a.r, state |-> "trash"]
       \/ s = [do |-> "delete file", t |-> a.r]
       \/ s.do \in {"unlink", "dissociate"} /\ s.p = a.r

FileLeads(a, s) ==
    \/ a.do = "delete file" /\ s = [do |-> "detach", t |-> a.t]
    \/ a.do = "save" /\ s = [do |-> "attach", t |-> a.t]

Leads(a, s) ==
    \/ InsertLeads(a, s) \/ WriteLeads(a, s) \/ CellLeads(a, s) \/ FireLeads(a, s)
    \/ FormulaLeads(a, s) \/ RemoveLeads(a, s) \/ FileLeads(a, s)

LEMMA LeadsKinds ==
  ASSUME NEW a, NEW s
  PROVE  /\ InsertLeads(a, s) => a.do = "insert" /\ s.do \in {"fire", "ripple", "save"}
         /\ WriteLeads(a, s) => a.do = "write task" /\ s.do \in {"fire", "ripple"}
         /\ CellLeads(a, s) => a.do = "edit cell" /\ s.do = "write task"
         /\ FireLeads(a, s) => a.do = "fire" /\ s.do \in {"fire", "insert"}
         /\ FormulaLeads(a, s) => /\ a.do \in {"write project", "ripple", "refresh"}
                                 /\ s.do \in {"ripple", "refresh"}
         /\ RemoveLeads(a, s) =>
              /\ a.do = "remove"
              /\ s.do \in {"delete", "ripple", "mark", "delete file", "unlink", "dissociate"}
         /\ FileLeads(a, s) => a.do \in {"delete file", "save"} /\ s.do \in {"detach", "attach"}
<1>1. ASSUME InsertLeads(a, s)
      PROVE  a.do = "insert" /\ s.do \in {"fire", "ripple", "save"}
  <2>1. PICK t \in Tasks :
          \/ s = [do |-> "fire", event |-> "create", t |-> t, old |-> None, k |-> 1,
                  depth |-> a.depth]
          \/ s = [do |-> "ripple", r |-> t, ref |-> a.ref]
          \/ s = [do |-> "save", t |-> t]
    BY <1>1 DEF InsertLeads
  <2>2. CASE s = [do |-> "fire", event |-> "create", t |-> t, old |-> None, k |-> 1,
                  depth |-> a.depth]
    BY <1>1, <2>2 DEF InsertLeads
  <2>3. CASE s = [do |-> "ripple", r |-> t, ref |-> a.ref]
    BY <1>1, <2>3 DEF InsertLeads
  <2>4. CASE s = [do |-> "save", t |-> t]
    BY <1>1, <2>4 DEF InsertLeads
  <2>5. QED
    BY <2>1, <2>2, <2>3, <2>4
<1>2. ASSUME WriteLeads(a, s)
      PROVE  a.do = "write task" /\ s.do \in {"fire", "ripple"}
  <2>1. CASE s = [do |-> "fire", event |-> "update", t |-> a.t, old |-> value[a.t], k |-> 1,
                  depth |-> 0]
    BY <1>2, <2>1 DEF WriteLeads
  <2>2. CASE s = [do |-> "ripple", r |-> a.t, ref |-> a.ref]
    BY <1>2, <2>2 DEF WriteLeads
  <2>3. QED
    BY <1>2, <2>1, <2>2 DEF WriteLeads
<1>3. ASSUME CellLeads(a, s)
      PROVE  a.do = "edit cell" /\ s.do = "write task"
  BY <1>3 DEF CellLeads
<1>4. FireLeads(a, s) => a.do = "fire" /\ s.do \in {"fire", "insert"}
  BY DEF FireLeads
<1>5. ASSUME FormulaLeads(a, s)
      PROVE  /\ a.do \in {"write project", "ripple", "refresh"}
             /\ s.do \in {"ripple", "refresh"}
  <2>1. CASE a.do = "write project" /\ s = [do |-> "ripple", r |-> a.p, ref |-> None]
    BY <2>1
  <2>2. QED
    BY <1>5, <2>1 DEF FormulaLeads
<1>6. ASSUME RemoveLeads(a, s)
      PROVE  /\ a.do = "remove"
             /\ s.do \in {"delete", "ripple", "mark", "delete file", "unlink", "dissociate"}
  <2>1. CASE s = [do |-> "mark", r |-> a.r, state |-> "trash"]
    BY <1>6, <2>1 DEF RemoveLeads
  <2>2. CASE s = [do |-> "delete file", t |-> a.r]
    BY <1>6, <2>2 DEF RemoveLeads
  <2>3. QED
    BY <1>6, <2>1, <2>2 DEF RemoveLeads
<1>7. ASSUME FileLeads(a, s)
      PROVE  a.do \in {"delete file", "save"} /\ s.do \in {"detach", "attach"}
  <2>1. CASE a.do = "delete file" /\ s = [do |-> "detach", t |-> a.t]
    BY <2>1
  <2>2. CASE a.do = "save" /\ s = [do |-> "attach", t |-> a.t]
    BY <2>2
  <2>3. QED
    BY <1>7, <2>1, <2>2 DEF FileLeads
<1>8. QED
  BY <1>1, <1>2, <1>3, <1>4, <1>5, <1>6, <1>7

LEMMA LeadsTo ==
  ASSUME NEW a, NEW s, Leads(a, s)
  PROVE  /\ s.do # "remove"
         /\ a.do # "remove" => s.do \notin Ending
         /\ a.do = "remove" => s.do \notin Referring
BY LeadsKinds DEF Leads, Ending, Referring

\* Removals alone among the steps that end rows put anything before the rest.
LEMMA LeadsOnly ==
  ASSUME NEW a, NEW s, Leads(a, s), a.do \in Ending
  PROVE  a.do = "remove"
BY DEF Leads, InsertLeads, WriteLeads, CellLeads, FireLeads, FormulaLeads, RemoveLeads,
       FileLeads, Ending

\* Removals alone put marks before the rest.
LEMMA LeadsMark ==
  ASSUME NEW a, NEW s, Leads(a, s), s.do = "mark"
  PROVE  a.do = "remove"
BY LeadsKinds DEF Leads

\* The step under way puts steps before what follows it, the first of which may
\* be one to be done at once.
PutBy ==
    \E steps \in Seq(Steps) :
        /\ Then(steps)
        /\ \A s \in Els(steps) : Leads(This, s)
        /\ \A i \in 1..Len(steps) : i > 1 => steps[i].do \notin Immediate

LEMMA FirstOfTwo ==
  ASSUME NEW u \in Seq(Steps), NEW v \in Seq(Steps), u # <<>>,
         \A i \in 1..Len(u) : i > 1 => u[i].do \notin Immediate,
         \A i \in 1..Len(v) : v[i].do \notin Immediate
  PROVE  \A i \in 1..Len(u \o v) : i > 1 => (u \o v)[i].do \notin Immediate
<1>1. SUFFICES ASSUME NEW i \in 1..Len(u \o v), i > 1 PROVE (u \o v)[i].do \notin Immediate
  OBVIOUS
<1>2. Len(u) \in Nat /\ Len(v) \in Nat /\ Len(u \o v) = Len(u) + Len(v)
  OBVIOUS
<1>3. CASE i <= Len(u)
  BY <1>1, <1>2, <1>3
<1>4. CASE i > Len(u)
  <2>1. i - Len(u) \in 1..Len(v) /\ (u \o v)[i] = v[i - Len(u)]
    BY <1>1, <1>2, <1>4
  <2>2. QED
    BY <2>1
<1>5. QED
  BY <1>1, <1>2, <1>3, <1>4

LEMMA PutNone ==
  ASSUME Then(<<>>)
  PROVE  PutBy
<1>1. \A i \in 1..Len(<<>>) : FALSE
  OBVIOUS
<1>2. QED
  BY <1>1, StepSeqs, ElsOf DEF PutBy

LEMMA PutOne ==
  ASSUME NEW a \in Steps, Then(<<a>>), Leads(This, a)
  PROVE  PutBy
<1>1. <<a>> \in Seq(Steps) /\ Els(<<a>>) = {a}
  BY StepSeqs, ElsOf
<1>2. \A i \in 1..Len(<<a>>) : ~ (i > 1)
  OBVIOUS
<1>3. QED
  BY <1>1, <1>2 DEF PutBy

\* Steps after a first one that leads to them.
LEMMA PutMore ==
  ASSUME NEW a \in Steps, NEW v \in Seq(Steps), NEW u, Then(u), u = <<a>> \o v, Leads(This, a),
         \A s \in Els(v) : Leads(This, s) /\ s.do \notin Immediate
  PROVE  PutBy
<1>1. <<a>> \in Seq(Steps) /\ Els(<<a>>) = {a} /\ <<a>> # <<>>
  BY StepSeqs, ElsOf
<1>2. u \in Seq(Steps) /\ Els(u) = {a} \cup Els(v)
  BY <1>1, StepSeqs, ElsOf
<1>3. \A i \in 1..Len(<<a>>) : i > 1 => <<a>>[i].do \notin Immediate
  <2>1. \A i \in 1..Len(<<a>>) : ~ (i > 1)
    OBVIOUS
  <2>2. QED
    BY <2>1
<1>4. \A i \in 1..Len(v) : v[i].do \notin Immediate
  BY DEF Els
<1>5. \A i \in 1..Len(u) : i > 1 => u[i].do \notin Immediate
  BY <1>1, <1>3, <1>4, FirstOfTwo
<1>6. QED
  BY <1>2, <1>5 DEF PutBy

LEMMA PutInsert ==
  ASSUME TypeInv, Insert
  PROVE  PutBy
<1>1. TypeOK /\ todo # <<>> /\ This \in InsertSteps /\ This.do = "insert"
  BY HeadTail, StepKinds DEF TypeInv, Insert, At, This
<1>2. PICK t \in Tasks :
         /\ row[t] = "unused"
         /\ row' = [row EXCEPT ![t] = "live"]
         /\ ref' = [ref EXCEPT ![t] = This.ref]
         /\ Then(<<[do |-> "fire", event |-> "create", t |-> t, old |-> None,
                    k |-> 1, depth |-> This.depth],
                   [do |-> "ripple", r |-> t, ref |-> This.ref]>>
                 \o IF This.file THEN <<[do |-> "save", t |-> t]>> ELSE <<>>)
  BY DEF Insert
<1> DEFINE a == [do |-> "fire", event |-> "create", t |-> t, old |-> None,
                 k |-> 1, depth |-> This.depth]
           b == [do |-> "ripple", r |-> t, ref |-> This.ref]
           c == [do |-> "save", t |-> t]
           rest == IF This.file THEN <<c>> ELSE <<>>
<1>3. a \in Steps /\ b \in Steps /\ c \in Steps
  <2>1. /\ This.ref \in Projects \cup {None} /\ This.depth \in 0..MaxDepth
        /\ None \in Values \cup {None} /\ t \in Rows
    BY <1>1 DEF InsertSteps, Rows
  <2>2. QED
    BY <2>1, StepMakers
<1>4. Leads(This, a) /\ Leads(This, b) /\ Leads(This, c)
  <2>1. InsertLeads(This, a) /\ InsertLeads(This, b) /\ InsertLeads(This, c)
    BY <1>1, <1>2 DEF InsertLeads
  <2>2. QED
    BY <2>1 DEF Leads
<1>5. b.do = "ripple" /\ c.do = "save"
  OBVIOUS
<1>6. Then(<<a, b>> \o rest)
  BY <1>2
<1> HIDE DEF a, b, c
<1>7. rest \in Seq(Steps) /\ Els(rest) \subseteq {c}
  BY <1>3, StepSeqs, ElsOf
<1> HIDE DEF rest
<1>8. <<b>> \o rest \in Seq(Steps) /\ Els(<<b>> \o rest) \subseteq {b, c}
  <2>1. <<b>> \in Seq(Steps) /\ Els(<<b>>) = {b}
    BY <1>3, StepSeqs, ElsOf
  <2>2. Els(<<b>> \o rest) = Els(<<b>>) \cup Els(rest)
    BY <1>7, <2>1, ElsOf
  <2>3. QED
    BY <1>7, <2>1, <2>2, StepSeqs
<1>9. <<a, b>> \o rest = <<a>> \o (<<b>> \o rest)
  <2>1. <<a>> \in Seq(Steps) /\ <<b>> \in Seq(Steps) /\ <<a, b>> = <<a>> \o <<b>>
    BY <1>3, StepSeqs, Joined
  <2>2. QED
    BY <1>7, <2>1, ConcatAssociative
<1>10. QED
  BY <1>3, <1>4, <1>5, <1>6, <1>8, <1>9, PutMore DEF Immediate

LEMMA PutWrite ==
  ASSUME TypeInv, WriteTask
  PROVE  PutBy
<1>1. TypeOK /\ todo # <<>> /\ This \in WriteTaskSteps /\ This.do = "write task"
  BY HeadTail, StepKinds DEF TypeInv, WriteTask, At, This
<1> DEFINE a == [do |-> "fire", event |-> "update", t |-> This.t, old |-> value[This.t],
                 k |-> 1, depth |-> 0]
           b == [do |-> "ripple", r |-> This.t, ref |-> This.ref]
<1>2. Then(<<a, b>>)
  BY DEF WriteTask
<1>3. a \in Steps /\ b \in Steps
  <2>1. This.ref \in Projects \cup {None} /\ This.t \in Tasks /\ This.t \in Rows
    BY <1>1 DEF WriteTaskSteps, Rows
  <2>2. value[This.t] \in Values \cup {None}
    BY <1>1, <2>1 DEF TypeOK
  <2>3. 0 \in 0..MaxDepth
    BY RecordsAssumption
  <2>4. QED
    BY <2>1, <2>2, <2>3, StepMakers
<1>4. Leads(This, a) /\ Leads(This, b)
  <2>1. WriteLeads(This, a) /\ WriteLeads(This, b)
    BY <1>1 DEF WriteLeads
  <2>2. QED
    BY <2>1 DEF Leads
<1>5. b.do = "ripple"
  OBVIOUS
<1> HIDE DEF a, b
<1>6. <<b>> \in Seq(Steps) /\ Els(<<b>>) = {b} /\ <<a, b>> = <<a>> \o <<b>>
  BY <1>3, StepSeqs, ElsOf, Joined
<1>7. QED
  BY <1>2, <1>3, <1>4, <1>5, <1>6, PutMore DEF Immediate

LEMMA PutRule ==
  ASSUME TypeInv, RunRule \/ SkipRule
  PROVE  PutBy
<1>1. TypeOK /\ todo # <<>> /\ This \in FireSteps /\ This.do = "fire"
  BY HeadTail, StepKinds DEF TypeInv, RunRule, SkipRule, At, This
<1> DEFINE a == [This EXCEPT !.k = @ + 1]
           v == Spawned(Rules[This.k], This)
<1>2. a \in FireSteps /\ a.do = "fire" /\ a.t = This.t
  BY <1>1 DEF FireSteps
<1>3. a \in Steps
  BY <1>2 DEF Steps
<1>4. Leads(This, a)
  BY <1>1, <1>2 DEF FireLeads, Leads
<1>5. This.k \in Nat \ {0}
  BY <1>1 DEF FireSteps
<1>6. CASE SkipRule
  <2>1. Then(<<a>>)
    BY <1>6 DEF SkipRule
  <2> HIDE DEF a
  <2>2. QED
    BY <1>3, <1>4, <2>1, PutOne
<1>7. CASE RunRule
  <2>1. This.k <= Len(Rules) /\ Then(v \o <<a>>)
    BY <1>7 DEF RunRule
  <2>2. \/ v = <<>>
        \/ \E b \in InsertSteps : v = <<b>> /\ b.do = "insert" /\ b.ref = ref[This.t]
    BY <1>1, <1>5, <2>1, SpawnedType
  <2> HIDE DEF a, v
  <2>3. CASE v = <<>>
    <3>1. <<>> \o <<a>> = <<a>>
      BY Joined
    <3>2. QED
      BY <1>3, <1>4, <2>1, <2>3, <3>1, PutOne
  <2>4. CASE \E b \in InsertSteps : v = <<b>> /\ b.do = "insert" /\ b.ref = ref[This.t]
    <3>1. PICK b \in InsertSteps : v = <<b>> /\ b.do = "insert" /\ b.ref = ref[This.t]
      BY <2>4
    <3>2. b \in Steps /\ Leads(This, b)
      BY <1>1, <3>1 DEF Steps, FireLeads, Leads
    <3>3. <<a>> \in Seq(Steps) /\ Els(<<a>>) = {a} /\ a.do \notin Immediate
      BY <1>2, <1>3, StepSeqs, ElsOf DEF Immediate
    <3>4. QED
      BY <1>4, <2>1, <3>1, <3>2, <3>3, PutMore
  <2>5. QED
    BY <2>2, <2>3, <2>4
<1>8. QED
  BY <1>6, <1>7

LEMMA PutRemoval ==
  ASSUME TypeInv, RemoveRecord
  PROVE  PutBy /\ Removal(This.r) \in Seq(Steps)
<1>1. TypeOK /\ todo # <<>> /\ This.r \in Rows /\ This.do = "remove"
  BY HeadTail, StepKinds DEF TypeInv, RemoveRecord, At, This, RowSteps
<1> DEFINE r == This.r
           ripple == [do |-> "ripple", r |-> r, ref |-> IF r \in Tasks THEN ref[r] ELSE None]
           delete == [do |-> "delete", r |-> r]
           mark == [do |-> "mark", r |-> r, state |-> "trash"]
           unlink == [do |-> "unlink", p |-> r]
           loose == [do |-> "dissociate", p |-> r]
           file == [do |-> "delete file", t |-> r]
<1>2. PICK last \in {<<>>, <<ripple>>} :
        /\ last \in Seq(Steps)
        /\ ~design.soft /\ r \notin att => Removal(r) = <<delete>> \o last
        /\ ~design.soft /\ r \in att => r \in Tasks /\ Removal(r) = <<delete, file>> \o last
        /\ design.soft /\ r \in Tasks => Removal(r) = <<mark>> \o last
        /\ design.soft /\ r \in Projects => Removal(r) = <<unlink, loose, mark>> \o last
  BY <1>1, RemovalIs
<1>3. Then(Removal(r))
  BY DEF RemoveRecord
<1>4. /\ delete \in Steps /\ mark \in Steps /\ (r \in Tasks => file \in Steps)
      /\ (r \in Projects => unlink \in Steps /\ loose \in Steps)
  BY <1>1, StepMakers
<1>5. \A s \in {ripple, delete, mark, unlink, loose, file} : Leads(This, s)
  <2>1. /\ ripple.do = "ripple" /\ ripple.r = r /\ delete.do = "delete" /\ delete.r = r
        /\ unlink.do = "unlink" /\ unlink.p = r /\ loose.do = "dissociate" /\ loose.p = r
    OBVIOUS
  <2>2. mark = [do |-> "mark", r |-> r, state |-> "trash"] /\ file = [do |-> "delete file", t |-> r]
    OBVIOUS
  <2> HIDE DEF ripple, delete, mark, unlink, loose, file
  <2>3. \A s \in {ripple, delete, mark, unlink, loose, file} : RemoveLeads(This, s)
    BY <1>1, <2>1, <2>2 DEF RemoveLeads
  <2>4. QED
    BY <2>3 DEF Leads
<1>6. \A s \in {ripple, mark, unlink, loose, file} : s.do \notin Immediate
  <2>1. ripple.do = "ripple" /\ mark.do = "mark" /\ unlink.do = "unlink"
        /\ loose.do = "dissociate" /\ file.do = "delete file"
    OBVIOUS
  <2> HIDE DEF ripple, mark, unlink, loose, file
  <2>2. QED
    BY <2>1 DEF Immediate
<1>7. r \in Tasks \/ r \in Projects
  BY <1>1 DEF Rows
<1>8. Removal(This.r) = Removal(r)
  OBVIOUS
<1> HIDE DEF r, ripple, delete, mark, unlink, loose, file
<1>9. Els(last) \subseteq {ripple}
  BY <1>2, ElsOf
<1>10. \E a \in {delete, mark, unlink}, v \in Seq(Steps) :
         /\ a \in Steps /\ Removal(r) = <<a>> \o v
         /\ Els(v) \subseteq {ripple, mark, loose, file}
  <2>1. CASE ~design.soft /\ r \notin att
    BY <1>2, <1>4, <1>9, <2>1
  <2>2. CASE ~design.soft /\ r \in att
    <3>1. <<file>> \in Seq(Steps) /\ <<delete>> \in Seq(Steps) /\ Els(<<file>>) = {file}
          /\ <<delete, file>> = <<delete>> \o <<file>>
      BY <1>2, <1>4, <2>2, StepSeqs, ElsOf, Joined
    <3>2. <<delete, file>> \o last = <<delete>> \o (<<file>> \o last)
      <4>1. (<<delete>> \o <<file>>) \o last = <<delete>> \o (<<file>> \o last)
        BY <1>2, <3>1, ConcatAssociative
      <4>2. QED
        BY <3>1, <4>1
    <3>3. Els(<<file>> \o last) = Els(<<file>>) \cup Els(last) /\ <<file>> \o last \in Seq(Steps)
      BY <1>2, <3>1, ElsOf, StepSeqs
    <3>4. QED
      BY <1>2, <1>4, <1>9, <2>2, <3>1, <3>2, <3>3
  <2>3. CASE design.soft /\ r \in Tasks
    BY <1>2, <1>4, <1>9, <2>3
  <2>4. CASE design.soft /\ r \in Projects
    <3>1. <<unlink>> \in Seq(Steps) /\ <<loose, mark>> \in Seq(Steps)
          /\ Els(<<loose, mark>>) = {loose, mark}
      BY <1>4, <2>4, StepSeqs, ElsOf
    <3>2. <<unlink, loose, mark>> = <<unlink>> \o <<loose, mark>>
      <4>1. /\ <<unlink, loose>> \o <<mark>> = <<unlink, loose, mark>>
            /\ <<unlink>> \o <<loose>> = <<unlink, loose>> /\ <<loose>> \o <<mark>> = <<loose, mark>>
        BY Joined
      <4>2. <<loose>> \in Seq(Steps) /\ <<mark>> \in Seq(Steps)
        BY <1>4, <2>4, StepSeqs
      <4>3. (<<unlink>> \o <<loose>>) \o <<mark>> = <<unlink>> \o (<<loose>> \o <<mark>>)
        BY <3>1, <4>2, ConcatAssociative
      <4>4. QED
        BY <4>1, <4>3
    <3>3. <<unlink, loose, mark>> \o last = <<unlink>> \o (<<loose, mark>> \o last)
      BY <1>2, <3>1, <3>2, ConcatAssociative
    <3>4. Els(<<loose, mark>> \o last) = Els(<<loose, mark>>) \cup Els(last)
          /\ <<loose, mark>> \o last \in Seq(Steps)
      BY <1>2, <3>1, ElsOf, StepSeqs
    <3>5. QED
      BY <1>2, <1>4, <1>9, <2>4, <3>1, <3>3, <3>4
  <2>5. QED
    BY <1>7, <2>1, <2>2, <2>3, <2>4
<1>11. PICK a \in {delete, mark, unlink}, v \in Seq(Steps) :
         /\ a \in Steps /\ Removal(r) = <<a>> \o v
         /\ Els(v) \subseteq {ripple, mark, loose, file}
  BY <1>10
<1>12. Leads(This, a) /\ \A s \in Els(v) : Leads(This, s) /\ s.do \notin Immediate
  BY <1>5, <1>6, <1>11
<1>13. PutBy
  BY <1>3, <1>11, <1>12, PutMore
<1>14. <<a>> \in Seq(Steps) /\ Removal(r) \in Seq(Steps)
  BY <1>11, StepSeqs
<1>15. QED
  BY <1>8, <1>13, <1>14

LEMMA Puts ==
  ASSUME TypeInv, Transaction
  PROVE  todo # <<>> /\ (PutBy \/ DeleteRefused)
<1> USE DEF At
<1>1. TypeOK /\ todo \in Seq(Steps)
  BY DEF TypeInv
<1>2. todo # <<>>
  BY DEF Transaction, Insert, WriteTask, WriteProject, EditCell, RunRule, SkipRule, FireDone,
         Ripple, RefreshOne, RefreshDone, SetLinks, Unlink, ClearFk, DropChildren, Mark,
         RemoveRecord, Delete, DeleteRefused, DeleteFile, Detach, SaveFile, Attach, Repoint
<1>3. This \in Steps /\ Head(todo) = This
  BY <1>1, <1>2, HeadTail DEF This
<1>4. CASE Insert \/ WriteTask \/ RunRule \/ SkipRule \/ RemoveRecord
  BY <1>2, <1>4, PutInsert, PutWrite, PutRule, PutRemoval
<1>5. CASE WriteProject
  <2>1. This \in WriteProjectSteps /\ This.do = "write project"
    BY <1>3, <1>5, StepKinds DEF WriteProject
  <2> DEFINE a == [do |-> "ripple", r |-> This.p, ref |-> None]
  <2>2. Then(<<a>>)
    BY <1>5 DEF WriteProject
  <2>3. a \in Steps
    <3>1. This.p \in Rows /\ None \in Projects \cup {None}
      BY <2>1 DEF WriteProjectSteps, Rows
    <3>2. QED
      BY <3>1, StepMakers
  <2>4. Leads(This, a)
    BY <2>1 DEF FormulaLeads, Leads
  <2> HIDE DEF a
  <2>5. QED
    BY <1>2, <2>2, <2>3, <2>4, PutOne
<1>6. CASE EditCell
  <2>1. This \in CellSteps /\ This.do = "edit cell"
    BY <1>3, <1>6, StepKinds DEF EditCell
  <2> DEFINE a == [do |-> "write task", t |-> This.t, ref |-> ref[This.t], value |-> This.value]
  <2>2. Then(<<>>) \/ (row[This.t] = "live" /\ Then(<<a>>))
    BY <1>6 DEF EditCell
  <2>3. a \in Steps
    <3>1. /\ This.t \in Tasks /\ ref[This.t] \in Projects \cup {None}
          /\ This.value \in Values \cup {None}
      BY <1>1, <2>1 DEF CellSteps, TypeOK
    <3>2. QED
      BY <3>1, StepMakers
  <2>4. row[This.t] = "live" => Leads(This, a)
    BY <2>1 DEF CellLeads, Leads
  <2> HIDE DEF a
  <2>5. QED
    BY <1>2, <2>2, <2>3, <2>4, PutOne, PutNone
<1>7. CASE Ripple
  <2>1. This \in RippleSteps /\ This.do = "ripple"
    BY <1>3, <1>7, StepKinds DEF Ripple
  <2> DEFINE S == IF This.r \in Projects THEN Children(This.r) ELSE {This.ref} \ {None}
             a == [do |-> "refresh", rows |-> S]
  <2>2. Then(<<a>>)
    BY <1>7 DEF Ripple
  <2>3. S \in SUBSET Rows
    <3>1. This.ref \in Projects \cup {None}
      BY <2>1 DEF RippleSteps
    <3>2. QED
      BY <3>1 DEF Children, Rows
  <2>4. a \in Steps /\ a.do = "refresh"
    <3> HIDE DEF S
    <3>1. QED
      BY <2>3, StepMakers
  <2>5. Leads(This, a)
    <3> HIDE DEF S
    <3>1. QED
      BY <2>1, <2>4 DEF FormulaLeads, Leads
  <2> HIDE DEF a
  <2>6. QED
    BY <1>2, <2>2, <2>4, <2>5, PutOne
<1>8. CASE RefreshOne
  <2>1. This \in RefreshSteps /\ This.do = "refresh"
    BY <1>3, <1>8, StepKinds DEF RefreshOne
  <2>2. PICK r \in This.rows : Then(<<[This EXCEPT !.rows = @ \ {r}]>>)
    BY <1>8 DEF RefreshOne
  <2> DEFINE a == [This EXCEPT !.rows = @ \ {r}]
  <2>3. a \in RefreshSteps /\ a.do = "refresh"
    BY <2>1 DEF RefreshSteps
  <2>4. a \in Steps
    BY <2>3 DEF Steps
  <2>5. Leads(This, a)
    BY <2>1, <2>3 DEF FormulaLeads, Leads
  <2>6. Then(<<a>>)
    BY <2>2
  <2> HIDE DEF a
  <2>7. QED
    BY <1>2, <2>4, <2>5, <2>6, PutOne
<1>9. CASE DeleteFile
  <2>1. This \in FileSteps /\ This.do = "delete file"
    BY <1>3, <1>9, StepKinds DEF DeleteFile
  <2> DEFINE a == [do |-> "detach", t |-> This.t]
  <2>2. Then(<<a>>) /\ a \in Steps /\ Leads(This, a)
    BY <1>9, <2>1, StepMakers DEF DeleteFile, FileSteps, FileLeads, Leads
  <2> HIDE DEF a
  <2>3. QED
    BY <1>2, <2>2, PutOne
<1>10. CASE SaveFile
  <2>1. This \in FileSteps /\ This.do = "save"
    BY <1>3, <1>10, StepKinds DEF SaveFile
  <2> DEFINE a == [do |-> "attach", t |-> This.t]
  <2>2. Then(<<a>>) /\ a \in Steps /\ Leads(This, a)
    BY <1>10, <2>1, StepMakers DEF SaveFile, FileSteps, FileLeads, Leads
  <2> HIDE DEF a
  <2>3. QED
    BY <1>2, <2>2, PutOne
<1>11. CASE FireDone \/ RefreshDone \/ SetLinks \/ Unlink \/ ClearFk \/ DropChildren \/ Mark
            \/ Delete \/ Detach \/ Attach \/ Repoint
  <2>1. Then(<<>>)
    BY <1>11 DEF FireDone, RefreshDone, SetLinks, Unlink, ClearFk, DropChildren, Mark,
         Delete, Detach, Attach, Repoint
  <2>2. QED
    BY <1>2, <2>1, PutNone
<1>12. QED
  BY <1>2, <1>4, <1>5, <1>6, <1>7, <1>8, <1>9, <1>10, <1>11 DEF Transaction

LEMMA TodoTransaction ==
  ASSUME TypeInv, Transaction
  PROVE  todo' \in Seq(Steps)
<1>1. todo # <<>> /\ (PutBy \/ DeleteRefused) /\ todo \in Seq(Steps)
  BY Puts DEF TypeInv
<1>2. CASE PutBy
  BY <1>1, <1>2, ThenSteps DEF PutBy
<1>3. CASE DeleteRefused
  BY <1>1, <1>3, AfterFailureIs DEF DeleteRefused
<1>4. QED
  BY <1>1, <1>2, <1>3

-----------------------------------------------------------------------------
(* The steps that a request starts with. *)

\* What they are, apart from removals and one refresh.
Begins(s) ==
    \/ s.do = "insert" /\ s.ref \in RefChoices
    \/ s.do = "write task" /\ row[s.t] = "live" /\ s.ref \in RefChoices \cup {ref[s.t]}
    \/ s.do = "save" /\ row[s.t] = "live"
    \/ s.do = "set links" /\ (Exists(s.p) \/ row'[s.p] = "live")
    \/ s.do = "repoint" /\ Exists(s.s) /\ pair' = <<s.s, s.d>>
    \/ s.do = "mark" /\ s.state = "live"
    \/ s.do \in {"delete file", "write project", "edit cell", "unlink"}

LEMMA FilesBegin ==
  ASSUME TypeOK, NEW t \in Tasks, row[t] = "live", NEW files
  PROVE  \A s \in Els(Files(t, files)) : Begins(s)
<1> DEFINE file == [do |-> "delete file", t |-> t]
           save == [do |-> "save", t |-> t]
<1>1. Begins(file) /\ Begins(save)
  BY DEF Begins
<1>2. Files(t, files) \in {<<>>, <<file>>, <<save>>}
  BY DEF Files, Purge
<1> HIDE DEF file, save
<1>3. QED
  BY <1>1, <1>2, ElsOf

LEMMA MergingBegins ==
  ASSUME TypeOK, NEW s \in Projects, NEW d \in Projects, Exists(s), pair' = <<s, d>>
  PROVE  \E u \in Seq(Steps) :
           /\ \A x \in Els(u) : Begins(x)
           /\ Merging(s, d) = u \o <<[do |-> "remove", r |-> d]>>
<1> DEFINE point == [do |-> "repoint", s |-> s, d |-> d]
           links == [do |-> "set links", p |-> s, tags |-> TagsOf(s) \cup TagsOf(d)]
           unlink == [do |-> "unlink", p |-> d]
           fill == [do |-> "write project", p |-> s, note |-> note[d]]
           m == MoveLinks(s, d)
           f == Fills(s, d)
           u == <<point>> \o m \o f
<1>1. Begins(point) /\ Begins(links) /\ Begins(unlink) /\ Begins(fill)
  BY DEF Begins
<1>2. /\ point \in Steps /\ links \in Steps /\ unlink \in Steps /\ fill \in Steps
  <2>1. TagsOf(s) \cup TagsOf(d) \in SUBSET Tags /\ note[d] \in Notes \cup {None}
    BY DEF TypeOK, TagsOf
  <2>2. QED
    BY <2>1, StepMakers
<1>3. m \in {<<>>, <<links, unlink>>} /\ f \in {<<>>, <<fill>>}
  BY DEF MoveLinks, Fills
<1>4. Merging(s, d) = u \o <<[do |-> "remove", r |-> d]>>
  BY DEF Merging
<1> HIDE DEF point, links, unlink, fill
<1>5. /\ <<point>> \in Seq(Steps) /\ m \in Seq(Steps) /\ f \in Seq(Steps)
      /\ Els(<<point>>) = {point} /\ Els(m) \subseteq {links, unlink} /\ Els(f) \subseteq {fill}
  <2> HIDE DEF m, f
  <2>1. <<point>> \in Seq(Steps) /\ Els(<<point>>) = {point}
    BY <1>2, StepSeqs, ElsOf
  <2>2. m \in Seq(Steps) /\ Els(m) \subseteq {links, unlink}
    <3>1. CASE m = <<>>
      BY <3>1, StepSeqs, ElsOf
    <3>2. CASE m = <<links, unlink>>
      <4>1. <<links, unlink>> \in Seq(Steps)
        BY <1>2, StepSeqs
      <4>2. Els(<<links, unlink>>) = {links, unlink}
        BY ElsOf
      <4>3. QED
        BY <3>2, <4>1, <4>2
    <3>3. QED
      BY <1>3, <3>1, <3>2
  <2>3. f \in Seq(Steps) /\ Els(f) \subseteq {fill}
    BY <1>2, <1>3, StepSeqs, ElsOf
  <2>4. QED
    BY <2>1, <2>2, <2>3
<1> HIDE DEF m, f
<1>6. <<point>> \o m \in Seq(Steps) /\ Els(<<point>> \o m) = {point} \cup Els(m)
  BY <1>5, StepSeqs, ElsOf
<1>7. u \in Seq(Steps) /\ Els(u) = {point} \cup Els(m) \cup Els(f)
  BY <1>5, <1>6, StepSeqs, ElsOf
<1>8. QED
  BY <1>1, <1>4, <1>5, <1>7

\* Steps made one by one.
LEMMA Repeated ==
  ASSUME NEW n \in Nat, NEW a, a \in [1..n -> Steps]
  PROVE  a \in Seq(Steps) /\ Len(a) = n /\ Els(a) = {a[i] : i \in 1..n}
<1>1. a \in Seq(Steps) /\ Len(a) = n
  OBVIOUS
<1>2. QED
  BY <1>1 DEF Els

\* Rows that are asked to go, one removal for each.
Asks(u, S) ==
    /\ \A i \in 1..Len(u) : u[i].do = "remove" /\ u[i].r \in S
    /\ \A x \in S : \E i \in 1..Len(u) : u[i].r = x
LEMMA RemovalsListed ==
  ASSUME TypeOK, NEW S \in (SUBSET Tasks) \cup {{p} : p \in Projects} \cup {Projects},
         NEW u, u = [i \in 1..Cardinality(S) |-> [do |-> "remove", r |-> SetToSeq(S)[i]]]
  PROVE  /\ u \in Seq(Steps) /\ Len(u) = Cardinality(S)
         /\ Asks(u, S) /\ S \subseteq Rows
<1>1. S \subseteq Rows /\ IsFiniteSet(S)
  <2>1. CASE S \in SUBSET Tasks
    BY <2>1, RecordsAssumption, FS_Subset DEF Rows
  <2>2. CASE S \in {{p} : p \in Projects}
    BY <2>2, FS_Singleton DEF Rows
  <2>3. CASE S = Projects
    BY <2>3, RecordsAssumption DEF Rows
  <2>4. QED
    BY <2>1, <2>2, <2>3
<1> DEFINE n == Cardinality(S)
           f == SetToSeq(S)
<1>2. n \in Nat /\ f \in [1..n -> S] /\ \A x \in S : \E i \in 1..n : f[i] = x
  BY <1>1, Listed
<1>3. u = [i \in 1..n |-> [do |-> "remove", r |-> f[i]]]
  OBVIOUS
<1> HIDE DEF n, f
<1>4. \A i \in 1..n : f[i] \in S /\ f[i] \in Rows
  BY <1>1, <1>2
<1>5. \A i \in 1..n : [do |-> "remove", r |-> f[i]] \in Steps
  BY <1>4, StepMakers
<1>6. /\ u \in [1..n -> Steps]
      /\ \A i \in 1..n : u[i] = [do |-> "remove", r |-> f[i]]
  BY <1>3, <1>5
<1>7. \A i \in 1..n : u[i].do = "remove" /\ u[i].r = f[i]
  <2>1. \A x : [do |-> "remove", r |-> x].do = "remove" /\ [do |-> "remove", r |-> x].r = x
    OBVIOUS
  <2>2. QED
    BY <1>6, <2>1
<1>8. u \in Seq(Steps) /\ Len(u) = n
  BY <1>2, <1>6, Repeated
<1>9. QED
  BY <1>1, <1>2, <1>4, <1>7, <1>8 DEF n, Asks

\* A record in the trash that is destroyed: its row, then its file.
LEMMA Destroyed ==
  ASSUME TypeInv, DestroyRecord
  PROVE  \E r \in Rows :
           /\ row[r] = "trash" /\ asked' = {r} /\ pair' = <<>> /\ todo' \in Seq(Steps)
           /\ \/ r \notin att /\ todo' = <<[do |-> "delete", r |-> r]>>
              \/ r \in att /\ todo' = <<[do |-> "delete", r |-> r],
                                        [do |-> "delete file", t |-> r]>>
<1>1. PICK r \in Rows :
        /\ row[r] = "trash" /\ asked' = {r} /\ pair' = <<>>
        /\ Request(<<[do |-> "delete", r |-> r]>> \o Purge(r))
  BY DEF DestroyRecord
<1> DEFINE a == [do |-> "delete", r |-> r]
           b == [do |-> "delete file", t |-> r]
<1>2. todo' = <<a>> \o (IF r \in att THEN <<b>> ELSE <<>>)
  BY <1>1 DEF Request, Purge
<1>3. a \in Steps /\ (r \in att => b \in Steps)
  BY StepMakers DEF TypeInv, TypeOK
<1> HIDE DEF a, b
<1>4. <<a>> \o <<>> = <<a>> /\ <<a>> \o <<b>> = <<a, b>>
  BY Joined
<1>5. \/ r \notin att /\ todo' = <<a>>
      \/ r \in att /\ todo' = <<a, b>>
  BY <1>2, <1>4
<1>6. todo' \in Seq(Steps)
  BY <1>3, <1>5, StepSeqs
<1>7. QED
  BY <1>1, <1>5, <1>6 DEF a, b

LEMMA Starts ==
  ASSUME TypeInv, Start
  PROVE  /\ Idle /\ todo' \in Seq(Steps)
         /\ \/ \A s \in Els(todo') : Begins(s)
            \/ \E u \in Seq(Steps), r \in Rows :
                 /\ \A s \in Els(u) : Begins(s)
                 /\ todo' = u \o <<[do |-> "remove", r |-> r]>>
            \/ \A i \in 1..Len(todo') : todo'[i].do = "remove"
            \/ DestroyRecord /\ \E r \in Rows :
                 /\ row[r] = "trash" /\ asked' = {r} /\ pair' = <<>>
                 /\ \/ r \notin att /\ todo' = <<[do |-> "delete", r |-> r]>>
                    \/ r \in att /\ todo' = <<[do |-> "delete", r |-> r],
                                              [do |-> "delete file", t |-> r]>>
            \/ \E S : todo' = <<[do |-> "refresh", rows |-> S]>>
<1>1. TypeOK
  BY DEF TypeInv
<1>2. Idle
  BY DEF Start, CreateTask, CreateProject, EditTask, EditProject, BulkEdit, ApiCreate,
     ApiUpdate, ApiDelete, AssignToMe, DeleteRecords, RestoreRecord, DestroyRecord,
     MergeProjects, ImportTasks, Request
<1>3. /\ RefChoices \subseteq Projects \cup {None} /\ 0 \in 0..MaxDepth
      /\ FALSE \in BOOLEAN /\ \A t \in Tasks : t \in Rows /\ \A p \in Projects : p \in Rows
  BY RecordsAssumption DEF RefChoices, Rows
<1>4. \A t \in Tasks : ref[t] \in Projects \cup {None} /\ value[t] \in Values \cup {None}
  BY <1>1 DEF TypeOK
<1>5. CASE CreateTask
  <2>1. PICK p \in RefChoices, v \in Values \cup {None}, file \in BOOLEAN :
          Request(<<[do |-> "insert", ref |-> p, value |-> v, depth |-> 0, file |-> file]>>)
    BY <1>5 DEF CreateTask
  <2> DEFINE a == [do |-> "insert", ref |-> p, value |-> v, depth |-> 0, file |-> file]
  <2>2. todo' = <<a>> /\ Begins(a)
    BY <2>1 DEF Request, Begins
  <2>3. a \in Steps
    BY <1>3, StepMakers
  <2> HIDE DEF a
  <2>4. QED
    BY <1>2, <2>2, <2>3, ElsOf, StepSeqs
<1>6. CASE CreateProject
  <2>1. PICK p \in Projects, S \in SUBSET Tags :
          /\ row' = [row EXCEPT ![p] = "live"]
          /\ todo' = <<[do |-> "set links", p |-> p, tags |-> S]>>
    BY <1>6 DEF CreateProject
  <2> DEFINE a == [do |-> "set links", p |-> p, tags |-> S]
  <2>2. todo' = <<a>> /\ Begins(a)
    BY <1>1, <2>1 DEF Begins, TypeOK, Rows
  <2>3. a \in Steps
    BY StepMakers
  <2> HIDE DEF a
  <2>4. todo' \in Seq(Steps) /\ Els(<<a>>) = {a}
    BY <2>2, <2>3, ElsOf, StepSeqs
  <2>5. Els(todo') = {a}
    BY <2>2, <2>4
  <2>6. \A s \in Els(todo') : Begins(s)
    BY <2>2, <2>5
  <2>7. QED
    BY <1>2, <2>4, <2>6
<1>7. CASE EditTask
  <2>1. PICK t \in Tasks, p \in RefChoices, v \in Values \cup {None},
             files \in {"keep", "add", "remove"} :
          /\ row[t] = "live"
          /\ Request(<<[do |-> "write task", t |-> t, ref |-> p, value |-> v]>>
                     \o Files(t, files))
    BY <1>7 DEF EditTask
  <2> DEFINE a == [do |-> "write task", t |-> t, ref |-> p, value |-> v]
             f == Files(t, files)
  <2>2. todo' = <<a>> \o f /\ Begins(a)
    BY <2>1 DEF Request, Begins
  <2>3. a \in Steps
    BY <1>3, StepMakers
  <2>4. f \in Seq(Steps) /\ \A s \in Els(f) : Begins(s)
    BY <1>1, <2>1, FilesType, FilesBegin
  <2> HIDE DEF a, f
  <2>5. <<a>> \in Seq(Steps) /\ Els(<<a>>) = {a}
    BY <2>3, StepSeqs, ElsOf
  <2>6. todo' \in Seq(Steps) /\ Els(todo') = {a} \cup Els(f)
    BY <2>2, <2>4, <2>5, StepSeqs, ElsOf
  <2>7. QED
    BY <1>2, <2>2, <2>4, <2>6
<1>8. CASE EditProject
  <2>1. PICK p \in Projects, n \in Notes \cup {None}, S \in SUBSET Tags :
          /\ row[p] = "live"
          /\ Request(<<[do |-> "write project", p |-> p, note |-> n],
                       [do |-> "set links", p |-> p, tags |-> S]>>)
    BY <1>8 DEF EditProject
  <2> DEFINE a == [do |-> "write project", p |-> p, note |-> n]
             b == [do |-> "set links", p |-> p, tags |-> S]
  <2>2. todo' = <<a, b>> /\ Begins(a) /\ Begins(b)
    BY <2>1 DEF Request, Begins, Exists
  <2>3. a \in Steps /\ b \in Steps
    BY StepMakers
  <2> HIDE DEF a, b
  <2>4. todo' \in Seq(Steps) /\ Els(<<a, b>>) = {a, b}
    BY <2>2, <2>3, ElsOf, StepSeqs
  <2>5. Els(todo') = {a, b}
    BY <2>2, <2>4
  <2>6. \A s \in Els(todo') : Begins(s)
    BY <2>2, <2>5
  <2>7. QED
    BY <1>2, <2>4, <2>6
<1>9. CASE BulkEdit
  <2>1. PICK S \in SUBSET {t \in Tasks : Exists(t)}, v \in Values \cup {None} :
          Request([i \in 1..Cardinality(S) |->
                     [do |-> "edit cell", t |-> SetToSeq(S)[i], value |-> v]])
    BY <1>9 DEF BulkEdit
  <2>2. IsFiniteSet(S)
    <3>1. S \in SUBSET Tasks
      OBVIOUS
    <3>2. QED
      BY <3>1, RecordsAssumption, FS_Subset
  <2> DEFINE m == Cardinality(S)
             f == SetToSeq(S)
  <2>3. m \in Nat /\ f \in [1..m -> S]
    BY <2>2, Listed
  <2>4. todo' = [i \in 1..m |-> [do |-> "edit cell", t |-> f[i], value |-> v]]
    BY <2>1 DEF Request
  <2> HIDE DEF m, f
  <2>5. \A i \in 1..m : f[i] \in Tasks
    BY <2>3
  <2>6. \A i \in 1..m : [do |-> "edit cell", t |-> f[i], value |-> v] \in Steps
    BY <2>5, StepMakers
  <2>7. todo' \in [1..m -> Steps] /\ \A i \in 1..m : todo'[i].do = "edit cell"
    BY <2>4, <2>6
  <2>8. todo' \in Seq(Steps) /\ Els(todo') = {todo'[i] : i \in 1..m}
    BY <2>3, <2>7, Repeated
  <2>9. \A s \in Els(todo') : Begins(s)
    BY <2>7, <2>8 DEF Begins
  <2>10. QED
    BY <1>2, <2>8, <2>9
<1>10. CASE ApiCreate
  <2>1. PICK p \in RefChoices, v \in Values \cup {None}, n \in 1..2 :
          Request([i \in 1..n |-> [do |-> "insert", ref |-> p, value |-> v, depth |-> 0,
                                   file |-> FALSE]])
    BY <1>10 DEF ApiCreate
  <2> DEFINE a == [do |-> "insert", ref |-> p, value |-> v, depth |-> 0, file |-> FALSE]
  <2>2. todo' = [i \in 1..n |-> a] /\ Begins(a)
    BY <2>1 DEF Request, Begins
  <2>3. a \in Steps
    BY <1>3, StepMakers
  <2> HIDE DEF a
  <2>4. todo' \in [1..n -> Steps] /\ \A i \in 1..n : todo'[i] = a
    BY <2>2, <2>3
  <2>5. n \in Nat
    OBVIOUS
  <2>6. todo' \in Seq(Steps) /\ Els(todo') = {todo'[i] : i \in 1..n}
    BY <2>4, <2>5, Repeated
  <2>7. \A s \in Els(todo') : Begins(s)
    BY <2>2, <2>4, <2>6
  <2>8. QED
    BY <1>2, <2>6, <2>7
<1>11. CASE ApiUpdate \/ AssignToMe
  <2>1. PICK t \in Tasks, v \in Values \cup {None} :
          /\ row[t] = "live"
          /\ Request(<<[do |-> "write task", t |-> t, ref |-> ref[t], value |-> v]>>)
    BY <1>4, <1>11 DEF ApiUpdate, AssignToMe
  <2> DEFINE a == [do |-> "write task", t |-> t, ref |-> ref[t], value |-> v]
  <2>2. todo' = <<a>> /\ Begins(a)
    BY <2>1 DEF Request, Begins
  <2>3. a \in Steps
    BY <1>4, StepMakers
  <2> HIDE DEF a
  <2>4. QED
    BY <1>2, <2>2, <2>3, ElsOf, StepSeqs
<1>12. CASE ApiDelete \/ DeleteRecords
  <2>1. PICK S \in ((SUBSET Tasks) \cup {{p} : p \in Projects} \cup {Projects}) \ {{}} :
          todo' = [i \in 1..Cardinality(S) |-> [do |-> "remove", r |-> SetToSeq(S)[i]]]
    BY <1>12 DEF ApiDelete, DeleteRecords, Request
  <2>2. todo' \in Seq(Steps) /\ \A i \in 1..Len(todo') : todo'[i].do = "remove"
    BY <1>1, <2>1, RemovalsListed DEF Asks
  <2>3. QED
    BY <1>2, <2>2
<1>13. CASE RestoreRecord
  <2>1. PICK r \in Rows : Request(<<[do |-> "mark", r |-> r, state |-> "live"]>>)
    BY <1>13 DEF RestoreRecord
  <2> DEFINE a == [do |-> "mark", r |-> r, state |-> "live"]
  <2>2. todo' = <<a>> /\ Begins(a)
    BY <2>1 DEF Request, Begins
  <2>3. a \in Steps
    BY StepMakers
  <2> HIDE DEF a
  <2>4. QED
    BY <1>2, <2>2, <2>3, ElsOf, StepSeqs
<1>14. CASE DestroyRecord
  <2>1. PICK r \in Rows :
          /\ row[r] = "trash" /\ asked' = {r} /\ pair' = <<>> /\ todo' \in Seq(Steps)
          /\ \/ r \notin att /\ todo' = <<[do |-> "delete", r |-> r]>>
             \/ r \in att /\ todo' = <<[do |-> "delete", r |-> r],
                                       [do |-> "delete file", t |-> r]>>
    BY <1>14, Destroyed
  <2>2. QED
    BY <1>2, <1>14, <2>1
<1>15. CASE MergeProjects
  <2>1. PICK s \in Projects, d \in Projects :
          Exists(s) /\ todo' = Merging(s, d) /\ pair' = <<s, d>>
    BY <1>15 DEF MergeProjects, Request
  <2>2. PICK u \in Seq(Steps) : /\ \A x \in Els(u) : Begins(x)
                                /\ Merging(s, d) = u \o <<[do |-> "remove", r |-> d]>>
    BY <1>1, <2>1, MergingBegins
  <2>3. d \in Rows /\ [do |-> "remove", r |-> d] \in Steps
    BY <1>3, StepMakers DEF Rows
  <2>4. todo' \in Seq(Steps)
    BY <2>1, <2>2, <2>3, StepSeqs
  <2>5. QED
    BY <1>2, <2>1, <2>2, <2>3, <2>4
<1>16. CASE ImportTasks
  <2>1. PICK t \in Tasks :
          todo' = <<[do |-> "refresh", rows |-> {x \in Tasks : Exists(x)} \cup {t}]>>
    BY <1>16 DEF ImportTasks
  <2> DEFINE S == {x \in Tasks : Exists(x)} \cup {t}
  <2>2. S \in SUBSET Rows
    BY DEF Rows
  <2>3. todo' = <<[do |-> "refresh", rows |-> S]>>
    BY <2>1
  <2> HIDE DEF S
  <2>4. todo' \in Seq(Steps)
    BY <2>2, <2>3, StepMakers, StepSeqs
  <2>5. QED
    BY <1>2, <2>3, <2>4
<1>17. QED
  BY <1>5, <1>6, <1>7, <1>8, <1>9, <1>10, <1>11, <1>12, <1>13, <1>14, <1>15, <1>16 DEF Start

\* The steps of a request, one by one.
LEMMA StartSteps ==
  ASSUME TypeInv, Start, NEW s \in Els(todo')
  PROVE  /\ s \in Steps
         /\ \/ Begins(s)
            \/ s.do \in {"remove", "refresh"}
            \/ DestroyRecord /\ s.do \in {"delete", "delete file"}
<1>1. s \in Steps
  <2>1. todo' \in Seq(Steps)
    BY Starts
  <2>2. \A i \in 1..Len(todo') : todo'[i] \in Steps
    BY <2>1
  <2>3. QED
    BY <2>2 DEF Els
<1>2. CASE \E u \in Seq(Steps), r \in Rows :
             /\ \A x \in Els(u) : Begins(x)
             /\ todo' = u \o <<[do |-> "remove", r |-> r]>>
  <2>1. PICK u \in Seq(Steps), r \in Rows :
             /\ \A x \in Els(u) : Begins(x)
             /\ todo' = u \o <<[do |-> "remove", r |-> r]>>
    BY <1>2
  <2> DEFINE a == [do |-> "remove", r |-> r]
  <2>2. a \in Steps /\ a.do = "remove" /\ todo' = u \o <<a>>
    BY <2>1, StepMakers
  <2> HIDE DEF a
  <2>3. <<a>> \in Seq(Steps) /\ Els(<<a>>) = {a}
    BY <2>2, StepSeqs, ElsOf
  <2>4. Els(u \o <<a>>) = Els(u) \cup Els(<<a>>)
    BY <2>3, ElsOf
  <2>5. s = a \/ Begins(s)
    BY <2>1, <2>2, <2>3, <2>4
  <2>6. QED
    BY <1>1, <2>2, <2>5
<1>3. CASE \A i \in 1..Len(todo') : todo'[i].do = "remove"
  BY <1>1, <1>3 DEF Els
<1>4. CASE DestroyRecord /\ \E r \in Rows :
             \/ todo' = <<[do |-> "delete", r |-> r]>>
             \/ todo' = <<[do |-> "delete", r |-> r], [do |-> "delete file", t |-> r]>>
  <2>1. PICK r \in Rows :
             \/ todo' = <<[do |-> "delete", r |-> r]>>
             \/ todo' = <<[do |-> "delete", r |-> r], [do |-> "delete file", t |-> r]>>
    BY <1>4
  <2> DEFINE a == [do |-> "delete", r |-> r]
             b == [do |-> "delete file", t |-> r]
  <2>2. a.do = "delete" /\ b.do = "delete file" /\ (todo' = <<a>> \/ todo' = <<a, b>>)
    BY <2>1
  <2> HIDE DEF a, b
  <2>3. Els(<<a>>) = {a} /\ Els(<<a, b>>) = {a, b}
    BY ElsOf
  <2>4. s = a \/ s = b
    BY <2>2, <2>3
  <2>5. QED
    BY <1>1, <1>4, <2>2, <2>4
<1>5. CASE \E S : todo' = <<[do |-> "refresh", rows |-> S]>>
  <2>1. PICK S : todo' = <<[do |-> "refresh", rows |-> S]>>
    BY <1>5
  <2> DEFINE a == [do |-> "refresh", rows |-> S]
  <2>2. a.do = "refresh" /\ todo' = <<a>>
    BY <2>1
  <2> HIDE DEF a
  <2>3. Els(<<a>>) = {a}
    BY ElsOf
  <2>4. QED
    BY <1>1, <2>2, <2>3
<1>6. QED
  BY <1>1, <1>2, <1>3, <1>4, <1>5, Starts

-----------------------------------------------------------------------------
(* The columns. *)

LEMMA ColumnsTransaction ==
  ASSUME TypeInv, Transaction
  PROVE  /\ TypeOK' /\ made' \in 0..MaxDepth /\ crashed' = crashed
         /\ pair' \in {<<>>} \cup (Projects \X Projects) /\ requests' = requests
<1>1. /\ TypeOK /\ todo \in Seq(Steps) /\ made \in 0..MaxDepth
      /\ pair \in {<<>>} \cup (Projects \X Projects)
  BY DEF TypeInv
<1>2. todo # <<>>
  BY Puts
<1>3. This \in Steps
  BY <1>1, <1>2, HeadTail
<1>4. CASE Insert
  <2>1. This \in InsertSteps
    BY <1>3, <1>4, StepKinds DEF Insert, At, This
  <2>2. PICK t \in Tasks : /\ row' = [row EXCEPT ![t] = "live"]
                           /\ ref' = [ref EXCEPT ![t] = This.ref]
                           /\ value' = [value EXCEPT ![t] = This.value]
                           /\ shown' = [shown EXCEPT ![t] = Lookup(This.ref)]
    BY <1>4 DEF Insert
  <2>3. /\ This.ref \in Projects \cup {None} /\ This.value \in Values \cup {None}
        /\ This.depth \in 0..MaxDepth
    BY <2>1 DEF InsertSteps
  <2>4. Lookup(This.ref) \in Notes \cup {None}
    BY <1>1, <2>3, Looked
  <2>5. row' \in [Rows -> {"unused", "live", "trash", "gone"}]
    BY <1>1, <2>2 DEF TypeOK
  <2>6. /\ ref' \in [Tasks -> Projects \cup {None}] /\ value' \in [Tasks -> Values \cup {None}]
        /\ shown' \in [Tasks -> Notes \cup {None}]
    BY <1>1, <2>2, <2>3, <2>4 DEF TypeOK
  <2>7. made' \in 0..MaxDepth
    BY <1>1, <1>4, <2>3 DEF Insert
  <2>8. QED
    BY <1>1, <1>4, <2>5, <2>6, <2>7 DEF TypeOK, Insert
<1>5. CASE WriteTask
  <2>1. This \in WriteTaskSteps
    BY <1>3, <1>5, StepKinds DEF WriteTask, At, This
  <2>2. /\ This.t \in Tasks /\ This.ref \in Projects \cup {None}
        /\ This.value \in Values \cup {None}
    BY <2>1 DEF WriteTaskSteps
  <2>3. Lookup(This.ref) \in Notes \cup {None}
    BY <1>1, <2>2, Looked
  <2>4. /\ ref' = [ref EXCEPT ![This.t] = This.ref]
        /\ value' = [value EXCEPT ![This.t] = This.value]
        /\ shown' = [shown EXCEPT ![This.t] = Lookup(This.ref)]
        /\ stale' = (stale \ {This.t})
             \cup (IF ref[This.t] \in Projects \ {This.ref} THEN {ref[This.t]} ELSE {})
    BY <1>5 DEF WriteTask
  <2>5. /\ ref' \in [Tasks -> Projects \cup {None}] /\ value' \in [Tasks -> Values \cup {None}]
        /\ shown' \in [Tasks -> Notes \cup {None}]
    BY <1>1, <2>2, <2>3, <2>4 DEF TypeOK
  <2>6. stale' \subseteq Rows
    BY <1>1, <2>4 DEF TypeOK, Rows
  <2>7. QED
    BY <1>1, <1>5, <2>5, <2>6 DEF TypeOK, WriteTask, past
<1>6. CASE WriteProject
  <2>1. This \in WriteProjectSteps
    BY <1>3, <1>6, StepKinds DEF WriteProject, At, This
  <2>2. This.p \in Projects /\ This.note \in Notes \cup {None}
    BY <2>1 DEF WriteProjectSteps
  <2>3. Rollup(This.p) \in 0..Cardinality(Tasks)
    BY RollupType
  <2>4. /\ note' = [note EXCEPT ![This.p] = This.note]
        /\ total' = [total EXCEPT ![This.p] = Rollup(This.p)]
        /\ stale' = stale \ {This.p}
    BY <1>6 DEF WriteProject
  <2>5. /\ note' \in [Projects -> Notes \cup {None}]
        /\ total' \in [Projects -> 0..Cardinality(Tasks)] /\ stale' \subseteq Rows
    BY <1>1, <2>2, <2>3, <2>4 DEF TypeOK
  <2>6. QED
    BY <1>1, <1>6, <2>5 DEF TypeOK, WriteProject, past
<1>7. CASE RefreshOne
  <2>1. PICK r \in This.rows : IF Exists(r) THEN Refresh(r) ELSE UNCHANGED <<total, shown, stale>>
    BY <1>7 DEF RefreshOne
  <2>2. This \in RefreshSteps
    BY <1>3, <1>7, StepKinds DEF RefreshOne, At, This
  <2>3. r \in Rows /\ (r \notin Projects => r \in Tasks)
    BY <2>1, <2>2 DEF RefreshSteps, Rows
  <2>4. Rollup(r) \in 0..Cardinality(Tasks)
    BY RollupType
  <2>5. r \in Tasks => Lookup(ref[r]) \in Notes \cup {None}
    BY <1>1, Looked DEF TypeOK
  <2>6. /\ shown' \in [Tasks -> Notes \cup {None}]
        /\ total' \in [Projects -> 0..Cardinality(Tasks)] /\ stale' \subseteq Rows
    <3>1. CASE ~Exists(r)
      BY <1>1, <2>1, <3>1 DEF TypeOK
    <3>2. CASE Exists(r) /\ r \in Projects
      BY <1>1, <2>1, <2>4, <3>2 DEF TypeOK, Refresh
    <3>3. CASE Exists(r) /\ r \notin Projects
      BY <1>1, <2>1, <2>3, <2>5, <3>3, SMTT(30) DEF TypeOK, Refresh
    <3>4. QED
      BY <3>1, <3>2, <3>3
  <2>7. QED
    BY <1>1, <1>7, <2>6 DEF TypeOK, RefreshOne, past
<1>8. CASE RunRule
  <2>1. This \in FireSteps
    BY <1>3, <1>8, StepKinds DEF RunRule, At, This
  <2>2. This.k \in Nat \ {0} /\ This.k <= Len(Rules) /\ This.t \in Tasks
    BY <1>8, <2>1 DEF FireSteps, RunRule
  <2>3. Rules[This.k].set \in Values \cup {None, "keep"}
    BY <2>2, RuleType
  <2>4. value' = IF Rules[This.k].set = "keep" THEN value
                 ELSE [value EXCEPT ![This.t] = Rules[This.k].set]
    BY <1>8 DEF RunRule
  <2>5. value' \in [Tasks -> Values \cup {None}]
    BY <1>1, <2>2, <2>3, <2>4 DEF TypeOK
  <2>6. QED
    BY <1>1, <1>8, <2>5 DEF TypeOK, RunRule, past
<1>9. CASE SetLinks
  <2>1. This \in LinkSteps
    BY <1>3, <1>9, StepKinds DEF SetLinks, At, This
  <2>2. This.p \in Projects /\ This.tags \subseteq Tags
    BY <2>1 DEF LinkSteps
  <2>3. link' \subseteq Projects \X Tags
    <3>1. link' = {l \in link : l[1] # This.p} \cup {<<This.p, g>> : g \in This.tags}
      BY <1>9 DEF SetLinks
    <3>2. {<<This.p, g>> : g \in This.tags} \subseteq Projects \X Tags
      BY <2>2
    <3>3. link \subseteq Projects \X Tags
      BY <1>1 DEF TypeOK
    <3>4. QED
      BY <3>1, <3>2, <3>3
  <2>4. QED
    BY <1>1, <1>9, <2>3 DEF TypeOK, SetLinks, past
<1>10. CASE Unlink
  <2>1. link' \subseteq Projects \X Tags
    BY <1>1, <1>10 DEF TypeOK, Unlink
  <2>2. QED
    BY <1>1, <1>10, <2>1 DEF TypeOK, Unlink, past
<1>11. CASE ClearFk \/ DropChildren
  <2>1. This \in LooseSteps
    BY <1>3, <1>11, StepKinds DEF ClearFk, DropChildren, At, This
  <2>2. This.p \in Rows /\ Children(This.p) \subseteq Rows
    BY <2>1 DEF LooseSteps, Rows, Children
  <2>3. stale' \subseteq Rows
    BY <1>1, <1>11, <2>2 DEF TypeOK, ClearFk, DropChildren
  <2>4. /\ ref' \in [Tasks -> Projects \cup {None}]
        /\ row' \in [Rows -> {"unused", "live", "trash", "gone"}]
    BY <1>1, <1>11 DEF TypeOK, ClearFk, DropChildren
  <2>5. QED
    BY <1>1, <1>11, <2>3, <2>4 DEF TypeOK, ClearFk, DropChildren, past
<1>12. CASE Mark
  <2>1. This \in MarkSteps
    BY <1>3, <1>12, StepKinds DEF Mark, At, This
  <2>2. This.state \in {"live", "trash"}
    BY <2>1 DEF MarkSteps
  <2>3. row' \in [Rows -> {"unused", "live", "trash", "gone"}]
    BY <1>1, <1>12, <2>2 DEF TypeOK, Mark
  <2>4. QED
    BY <1>1, <1>12, <2>3 DEF TypeOK, Mark, past
<1>13. CASE Delete
  <2> DEFINE r == This.r
             hit == IF r \in Projects THEN Children(r) ELSE {}
             lost == IF design.onDelete = "CASCADE" THEN hit ELSE {}
  <2>1. /\ row' = [x \in Rows |-> IF x \in lost \cup {r} THEN "gone" ELSE row[x]]
        /\ ref' = [t \in Tasks |-> IF t \in hit \ lost THEN None ELSE ref[t]]
        /\ link' = {l \in link : l[1] # r}
        /\ stale' = stale \cup hit \cup (IF r \in Tasks /\ ref[r] # None THEN {ref[r]} ELSE {})
    BY <1>13 DEF Delete
  <2>2. hit \subseteq Rows
    BY DEF Children, Rows
  <2> HIDE DEF r, hit, lost
  <2>3. row' \in [Rows -> {"unused", "live", "trash", "gone"}]
    BY <1>1, <2>1 DEF TypeOK
  <2>4. ref' \in [Tasks -> Projects \cup {None}]
    BY <1>1, <2>1 DEF TypeOK
  <2>5. link' \subseteq Projects \X Tags
    BY <1>1, <2>1 DEF TypeOK
  <2>6. stale' \subseteq Rows
    BY <1>1, <2>1, <2>2 DEF TypeOK, Rows
  <2>7. QED
    BY <1>1, <1>13, <2>3, <2>4, <2>5, <2>6 DEF TypeOK, Delete, past
<1>14. CASE DeleteRefused
  BY <1>1, <1>14 DEF TypeOK, DeleteRefused, data
<1>15. CASE DeleteFile \/ Detach \/ SaveFile \/ Attach
  <2>1. This \in FileSteps
    BY <1>3, <1>15, StepKinds DEF DeleteFile, Detach, SaveFile, Attach, At, This
  <2>2. This.t \in Tasks
    BY <2>1 DEF FileSteps
  <2>3. att' \subseteq Tasks /\ disk' \subseteq Tasks
    BY <1>1, <1>15, <2>2 DEF TypeOK, DeleteFile, Detach, SaveFile, Attach
  <2>4. QED
    BY <1>1, <1>15, <2>3 DEF TypeOK, DeleteFile, Detach, SaveFile, Attach, past
<1>16. CASE Repoint
  <2>1. This \in RepointSteps
    BY <1>3, <1>16, StepKinds DEF Repoint, At, This
  <2>2. This.s \in Projects /\ This.s \in Rows /\ Children(This.d) \subseteq Rows
    BY <2>1 DEF RepointSteps, Rows, Children
  <2>3. ref' \in [Tasks -> Projects \cup {None}] /\ stale' \subseteq Rows
    BY <1>1, <1>16, <2>2 DEF TypeOK, Repoint
  <2>4. QED
    BY <1>1, <1>16, <2>3 DEF TypeOK, Repoint, past
<1>17. CASE EditCell \/ SkipRule \/ FireDone \/ Ripple \/ RefreshDone \/ RemoveRecord
  BY <1>1, <1>17 DEF TypeOK, EditCell, SkipRule, FireDone, Ripple, RefreshDone, RemoveRecord,
     data, past
<1>18. QED
  BY <1>4, <1>5, <1>6, <1>7, <1>8, <1>9, <1>10, <1>11, <1>12, <1>13, <1>14, <1>15, <1>16,
     <1>17 DEF Transaction

LEMMA ColumnsStart ==
  ASSUME TypeInv, Start
  PROVE  /\ TypeOK' /\ made' \in 0..MaxDepth /\ crashed' = crashed
         /\ pair' \in {<<>>} \cup (Projects \X Projects) /\ requests' \in Nat
<1>1. TypeOK /\ requests \in Nat
  BY DEF TypeInv
<1>2. requests' = requests + 1 /\ made' = 0 /\ crashed' = crashed
  BY DEF Start, CreateTask, CreateProject, EditTask, EditProject, BulkEdit, ApiCreate,
     ApiUpdate, ApiDelete, AssignToMe, DeleteRecords, RestoreRecord, DestroyRecord,
     MergeProjects, ImportTasks, Request
<1>3. requests' \in Nat /\ made' \in 0..MaxDepth
  BY <1>1, <1>2, RecordsAssumption
<1>4. pair' \in {<<>>} \cup (Projects \X Projects)
  <2>1. CASE MergeProjects
    <3>1. PICK s \in Projects, d \in Projects : pair' = <<s, d>>
      BY <2>1 DEF MergeProjects
    <3>2. QED
      BY <3>1
  <2>2. CASE ~MergeProjects
    BY <2>2 DEF Start, CreateTask, CreateProject, EditTask, EditProject, BulkEdit, ApiCreate,
       ApiUpdate, ApiDelete, AssignToMe, DeleteRecords, RestoreRecord, DestroyRecord,
       ImportTasks
  <2>3. QED
    BY <2>1, <2>2
<1>5. CASE CreateProject
  <2>1. PICK p \in Projects, n \in Notes \cup {None} :
          /\ row' = [row EXCEPT ![p] = "live"]
          /\ note' = [note EXCEPT ![p] = n]
          /\ total' = [total EXCEPT ![p] = 0]
          /\ asked' = {}
          /\ UNCHANGED <<design, ref, value, shown, link, att, disk, stale, crashed>>
    BY <1>5 DEF CreateProject
  <2>2. 0 \in 0..Cardinality(Tasks)
    BY RecordsAssumption, FS_CardinalityType
  <2>3. /\ row' \in [Rows -> {"unused", "live", "trash", "gone"}]
        /\ note' \in [Projects -> Notes \cup {None}]
    BY <1>1, <2>1 DEF TypeOK
  <2>4. total' \in [Projects -> 0..Cardinality(Tasks)]
    BY <1>1, <2>1, <2>2 DEF TypeOK
  <2>5. TypeOK'
    BY <1>1, <2>1, <2>3, <2>4 DEF TypeOK
  <2>6. QED
    BY <1>2, <1>3, <1>4, <2>5
<1>6. CASE ImportTasks
  <2>1. PICK t \in Tasks, p \in RefChoices, v \in Values \cup {None} :
          /\ row' = [row EXCEPT ![t] = "live"]
          /\ ref' = [ref EXCEPT ![t] = p]
          /\ value' = [value EXCEPT ![t] = v]
          /\ stale' = stale \cup ({p} \ {None})
          /\ asked' = {}
          /\ UNCHANGED <<design, shown, note, total, link, att, disk, crashed>>
    BY <1>6 DEF ImportTasks
  <2>2. p \in Projects \cup {None}
    BY DEF RefChoices
  <2>3. /\ row' \in [Rows -> {"unused", "live", "trash", "gone"}]
        /\ ref' \in [Tasks -> Projects \cup {None}]
        /\ value' \in [Tasks -> Values \cup {None}]
        /\ stale' \subseteq Rows
    BY <1>1, <2>1, <2>2 DEF TypeOK, Rows
  <2>4. TypeOK'
    BY <1>1, <2>1, <2>3 DEF TypeOK
  <2>5. QED
    BY <1>2, <1>3, <1>4, <2>4
<1>7. CASE ~CreateProject /\ ~ImportTasks
  <2>1. UNCHANGED <<design, data, stale>>
    BY <1>7 DEF Start, CreateTask, EditTask, EditProject, BulkEdit, ApiCreate,
       ApiUpdate, ApiDelete, AssignToMe, DeleteRecords, RestoreRecord, DestroyRecord,
       MergeProjects, Request
  <2>2. asked' \subseteq Rows
    <3>1. CASE ApiDelete \/ DeleteRecords
      <4>1. PICK S \in ((SUBSET Tasks) \cup {{p} : p \in Projects} \cup {Projects}) \ {{}} :
              asked' = S
        BY <3>1 DEF ApiDelete, DeleteRecords
      <4>2. QED
        BY <4>1 DEF Rows
    <3>2. CASE DestroyRecord
      BY <3>2 DEF DestroyRecord
    <3>3. CASE ~ApiDelete /\ ~DeleteRecords /\ ~DestroyRecord
      <4>1. asked' = {}
        BY <1>7, <3>3 DEF Start, CreateTask, EditTask, EditProject, BulkEdit, ApiCreate,
           ApiUpdate, AssignToMe, RestoreRecord, MergeProjects
      <4>2. QED
        BY <4>1
    <3>4. QED
      BY <3>1, <3>2, <3>3
  <2>3. TypeOK'
    BY <1>1, <2>1, <2>2 DEF TypeOK, data
  <2>4. QED
    BY <1>2, <1>3, <1>4, <2>3
<1>8. QED
  BY <1>5, <1>6, <1>7

LEMMA TypeNext == TypeInv /\ [Next]_vars => TypeInv'
<1> SUFFICES ASSUME TypeInv, [Next]_vars PROVE TypeInv'
  OBVIOUS
<1>1. CASE Transaction
  <2>1. todo' \in Seq(Steps)
    BY <1>1, TodoTransaction
  <2>2. /\ TypeOK' /\ made' \in 0..MaxDepth /\ crashed' = crashed
        /\ pair' \in {<<>>} \cup (Projects \X Projects) /\ requests' = requests
    BY <1>1, ColumnsTransaction
  <2>3. QED
    BY <2>1, <2>2 DEF TypeInv
<1>2. CASE Start
  <2>1. todo' \in Seq(Steps)
    BY <1>2, Starts
  <2>2. /\ TypeOK' /\ made' \in 0..MaxDepth /\ crashed' = crashed
        /\ pair' \in {<<>>} \cup (Projects \X Projects) /\ requests' \in Nat
    BY <1>2, ColumnsStart
  <2>3. QED
    BY <2>1, <2>2 DEF TypeInv
<1>3. CASE Crash
  <2>1. todo' \in Seq(Steps) /\ crashed' \in BOOLEAN
    BY <1>3, StepSeqs DEF Crash
  <2>2. QED
    BY <1>3, <2>1 DEF Crash, TypeInv, TypeOK, data, past
<1>4. CASE Rest \/ UNCHANGED vars
  <2>1. UNCHANGED vars
    BY <1>4 DEF Rest
  <2>2. QED
    BY <2>1 DEF vars, TypeInv, TypeOK
<1>5. QED
  BY <1>1, <1>2, <1>3, <1>4 DEF Next

\* The columns and the steps of a request are well formed after every
\* transaction, and no chain of tasks created by triggers is longer than the
\* cap, for any rules, tables and number of requests.
THEOREM TypeCorrect == Spec => []TypeInv
<1>1. QED
  BY TypeInit, TypeNext, PTL DEF Spec

-----------------------------------------------------------------------------
(* The order of the queue: what still has to be done at once is first, nothing *)
(* that needs a row follows a step that ends rows, and removals come last.     *)

Behind(a, b) ==
    /\ a.do \in Ending => b.do \notin Referring
    /\ a.do = "remove" => b.do = "remove"
    /\ b.do \notin Immediate

Queued(u) == \A i, j \in 1..Len(u) : i < j => Behind(u[i], u[j])

LEMMA QueueThen ==
  ASSUME todo \in Seq(Steps), todo # <<>>, Queued(todo), NEW steps \in Seq(Steps), Then(steps),
         \A s \in Els(steps) : s.do # "remove",
         \/ \A s \in Els(steps) : s.do \notin Ending
         \/ This.do \in Ending /\ \A s \in Els(steps) : s.do \notin Referring,
         \A i \in 1..Len(steps) : i > 1 => steps[i].do \notin Immediate
  PROVE  Queued(todo')
<1> DEFINE n == Len(steps)
           L == Len(todo)
           u == todo'
<1>1. /\ u \in Seq(Steps) /\ Len(u) = n + L - 1
      /\ \A i \in 1..n : u[i] = steps[i]
      /\ \A i \in 1..Len(u) : i > n => u[i] = todo[i - n + 1]
  BY ThenSteps
<1>2. n \in Nat /\ L \in Nat \ {0} /\ This = todo[1]
  BY HeadTail
<1>3. \A i \in 1..n : /\ u[i].do # "remove"
                      /\ u[i].do \in Ending => This.do \in Ending
                      /\ u[i].do \in Ending => \A j \in 1..n : u[j].do \notin Referring
                      /\ i > 1 => u[i].do \notin Immediate
  <2>1. \A i \in 1..n : steps[i] \in Els(steps)
    BY DEF Els
  <2>2. QED
    BY <1>1, <2>1
<1> SUFFICES ASSUME NEW i \in 1..Len(u), NEW j \in 1..Len(u), i < j
             PROVE  Behind(u[i], u[j])
  BY DEF Queued
<1> HIDE DEF u, n, L
<1>4. CASE j <= n
  <2>1. i \in 1..n /\ j \in 1..n /\ j > 1
    BY <1>1, <1>2, <1>4
  <2>2. QED
    BY <1>3, <2>1 DEF Behind
<1>5. CASE j > n /\ i <= n
  <2>1. i \in 1..n /\ j - n + 1 \in 1..L /\ 1 \in 1..L /\ 1 < j - n + 1
    BY <1>1, <1>2, <1>5
  <2>2. Behind(todo[1], todo[j - n + 1])
    BY <2>1 DEF Queued, L
  <2>3. u[j] = todo[j - n + 1]
    BY <1>1, <1>5
  <2>4. QED
    BY <1>2, <1>3, <2>1, <2>2, <2>3 DEF Behind
<1>6. CASE i > n
  <2>1. j - n + 1 \in 1..L /\ i - n + 1 \in 1..L /\ i - n + 1 < j - n + 1 /\ j > n
    BY <1>1, <1>2, <1>6
  <2>2. Behind(todo[i - n + 1], todo[j - n + 1])
    BY <2>1 DEF Queued, L
  <2>3. u[j] = todo[j - n + 1] /\ u[i] = todo[i - n + 1]
    BY <1>1, <1>6, <2>1
  <2>4. QED
    BY <2>2, <2>3
<1>7. QED
  BY <1>2, <1>4, <1>5, <1>6

\* A sequence without steps that end rows or are to be done at once.
Calm(u) == \A i \in 1..Len(u) : u[i].do \notin Ending /\ u[i].do \notin Immediate

LEMMA CalmQueued ==
  ASSUME NEW u, Calm(u)
  PROVE  Queued(u)
<1>1. "remove" \in Ending
  BY DEF Ending
<1>2. QED
  BY <1>1 DEF Calm, Queued, Behind

\* One removal may follow.
LEMMA CalmThen ==
  ASSUME NEW u \in Seq(Steps), Calm(u), NEW r \in Rows
  PROVE  Queued(u \o <<[do |-> "remove", r |-> r]>>)
<1> DEFINE a == [do |-> "remove", r |-> r]
           w == u \o <<a>>
<1>1. a \in Steps /\ a.do = "remove"
  BY StepMakers
<1> HIDE DEF a
<1>2. <<a>> \in Seq(Steps) /\ Len(<<a>>) = 1 /\ <<a>>[1] = a
  BY <1>1
<1>3. /\ Len(u) \in Nat /\ Len(w) = Len(u) + 1 /\ w[Len(u) + 1] = a
      /\ \A i \in 1..Len(u) : w[i] = u[i]
  BY <1>2
<1> HIDE DEF w
<1>4. ASSUME NEW i \in 1..Len(w), NEW j \in 1..Len(w), i < j
      PROVE  Behind(w[i], w[j])
  <2>1. i \in 1..Len(u) /\ (j \in 1..Len(u) \/ j = Len(u) + 1)
    BY <1>3, <1>4
  <2>2. w[i].do \notin Ending /\ w[i].do # "remove"
    BY <1>3, <2>1 DEF Calm, Ending
  <2>3. w[j].do \notin Immediate
    BY <1>1, <1>3, <2>1 DEF Calm, Immediate
  <2>4. QED
    BY <2>2, <2>3 DEF Behind
<1>5. QED
  BY <1>4 DEF Queued, w, a

LEMMA QueueStart ==
  ASSUME TypeInv, Start
  PROVE  Queued(todo')
<1>1. \A s : Begins(s) => s.do \notin Ending /\ s.do \notin Immediate
  BY DEF Begins, Ending, Immediate
<1>2. CASE \A s \in Els(todo') : Begins(s)
  <2>1. Calm(todo')
    BY <1>1, <1>2 DEF Calm, Els
  <2>2. QED
    BY <2>1, CalmQueued
<1>3. CASE \E u \in Seq(Steps), r \in Rows :
             /\ \A s \in Els(u) : Begins(s)
             /\ todo' = u \o <<[do |-> "remove", r |-> r]>>
  <2>1. PICK u \in Seq(Steps), r \in Rows :
             /\ \A s \in Els(u) : Begins(s)
             /\ todo' = u \o <<[do |-> "remove", r |-> r]>>
    BY <1>3
  <2>2. Calm(u)
    BY <1>1, <2>1 DEF Calm, Els
  <2>3. QED
    BY <2>1, <2>2, CalmThen
<1>4. CASE \A i \in 1..Len(todo') : todo'[i].do = "remove"
  BY <1>4 DEF Queued, Behind, Referring, Immediate
<1>5. CASE \E r \in Rows :
              \/ todo' = <<[do |-> "delete", r |-> r]>>
              \/ todo' = <<[do |-> "delete", r |-> r], [do |-> "delete file", t |-> r]>>
  <2>1. PICK r \in Rows :
              \/ todo' = <<[do |-> "delete", r |-> r]>>
              \/ todo' = <<[do |-> "delete", r |-> r], [do |-> "delete file", t |-> r]>>
    BY <1>5
  <2> DEFINE a == [do |-> "delete", r |-> r]
             b == [do |-> "delete file", t |-> r]
  <2>2. a.do = "delete" /\ b.do = "delete file"
    OBVIOUS
  <2>3. todo' = <<a>> \/ todo' = <<a, b>>
    BY <2>1
  <2> HIDE DEF a, b
  <2>4. Behind(a, b)
    BY <2>2 DEF Behind, Ending, Referring, Immediate
  <2>5. \A i, j \in 1..Len(todo') : i < j => todo'[i] = a /\ todo'[j] = b
    BY <2>3
  <2>6. QED
    BY <2>4, <2>5 DEF Queued
<1>6. CASE \E S : todo' = <<[do |-> "refresh", rows |-> S]>>
  <2>1. \A i, j \in 1..Len(todo') : ~ (i < j)
    BY <1>6
  <2>2. QED
    BY <2>1 DEF Queued
<1>7. QED
  BY <1>2, <1>3, <1>4, <1>5, <1>6, Starts

\* The first position where something holds.
LEMMA LeastPosition ==
  ASSUME NEW S, S \subseteq Nat, S # {}
  PROVE  \E m \in S : \A i \in S : m <= i
<1>1. IsWellFoundedOn(OpToRel(<, Nat), Nat)
  BY NatLessThanWellFounded
<1>2. PICK m \in S : \A y \in Nat : <<y, m>> \in OpToRel(<, Nat) => y \notin S
  BY <1>1, WFMin
<1>3. \A i \in S : ~ (i < m)
  BY <1>2 DEF OpToRel
<1>4. QED
  BY <1>3

\* A removal that is refused leaves the removals that follow it, and no other
\* step.
LEMMA RefusedLeaves ==
  ASSUME todo \in Seq(Steps), Queued(todo)
  PROVE  Els(AfterFailure) = {s \in Els(todo) : s.do = "remove"}
<1> DEFINE R == {i \in DOMAIN todo : todo[i].do = "remove"}
           L == Len(todo)
           n == Len(AfterFailure)
<1>1. L \in Nat /\ DOMAIN todo = 1..L
  OBVIOUS
<1>2. /\ n = Cardinality(R) /\ n \in 0..L
      /\ \A i \in 1..n : L - n + i \in 1..L /\ AfterFailure[i] = todo[L - n + i]
  BY AfterFailureIs
<1>3. R \subseteq 1..L /\ \A i \in 1..L : i \in R <=> todo[i].do = "remove"
  BY <1>1
<1>4. CASE R = {}
  <2>1. n = 0
    BY <1>2, <1>4, FS_EmptySet
  <2>2. Els(AfterFailure) = {}
    BY <2>1 DEF Els
  <2>3. \A s \in Els(todo) : s.do # "remove"
    BY <1>3, <1>4 DEF Els
  <2>4. QED
    BY <2>2, <2>3
<1>5. CASE R # {}
  <2>1. R \subseteq Nat
    BY <1>1, <1>3
  <2>2. PICK m \in R : \A i \in R : m <= i
    <3> HIDE DEF R
    <3>1. QED
      BY <1>5, <2>1, LeastPosition
  <2>3. m \in 1..L /\ todo[m].do = "remove"
    BY <1>3, <2>2
  <2>4. \A i \in m..L : todo[i].do = "remove"
    <3>1. SUFFICES ASSUME NEW i \in m..L PROVE todo[i].do = "remove"
      OBVIOUS
    <3>2. i \in 1..L /\ (i = m \/ m < i)
      BY <1>1, <2>3
    <3>3. m < i => Behind(todo[m], todo[i])
      BY <2>3, <3>2 DEF Queued
    <3>4. QED
      BY <2>3, <3>2, <3>3 DEF Behind
  <2>5. R = m..L
    <3>1. R \subseteq m..L
      BY <1>1, <1>3, <2>2, <2>3
    <3>2. m..L \subseteq R
      BY <1>1, <1>3, <2>3, <2>4
    <3>3. QED
      BY <3>1, <3>2
  <2>6. n = L - m + 1
    <3>1. m \in Int /\ L \in Int /\ m <= L
      BY <1>1, <2>3
    <3>2. Cardinality(m..L) = L - m + 1
      BY <3>1, FS_Interval
    <3>3. QED
      BY <1>2, <2>5, <3>2
  <2> HIDE DEF R, L, n
  <2>7. \A i \in 1..n : AfterFailure[i] = todo[m + i - 1] /\ m + i - 1 \in m..L
    <3>1. SUFFICES ASSUME NEW i \in 1..n
                   PROVE  AfterFailure[i] = todo[m + i - 1] /\ m + i - 1 \in m..L
      OBVIOUS
    <3>2. L - n + i = m + i - 1 /\ m + i - 1 \in m..L
      BY <1>1, <2>3, <2>6
    <3>3. QED
      BY <1>2, <3>2
  <2>8. \A i \in m..L : i - m + 1 \in 1..n /\ AfterFailure[i - m + 1] = todo[i]
    <3>1. SUFFICES ASSUME NEW i \in m..L
                   PROVE  i - m + 1 \in 1..n /\ AfterFailure[i - m + 1] = todo[i]
      OBVIOUS
    <3>2. i - m + 1 \in 1..n /\ m + (i - m + 1) - 1 = i
      BY <1>1, <2>3, <2>6
    <3>3. QED
      BY <2>7, <3>2
  <2>9. Els(AfterFailure) = {todo[i] : i \in m..L}
    <3>1. Els(AfterFailure) \subseteq {todo[i] : i \in m..L}
      BY <2>7 DEF Els, n
    <3>2. {todo[i] : i \in m..L} \subseteq Els(AfterFailure)
      BY <2>8 DEF Els, n
    <3>3. QED
      BY <3>1, <3>2
  <2>10. {s \in Els(todo) : s.do = "remove"} = {todo[i] : i \in m..L}
    <3>1. \A i \in 1..L : todo[i].do = "remove" => i \in m..L
      BY <1>3, <2>5
    <3>2. \A i \in m..L : i \in 1..L
      BY <1>1, <2>3
    <3>3. QED
      BY <2>4, <3>1, <3>2 DEF Els, L
  <2>11. QED
    BY <2>9, <2>10
<1>6. QED
  BY <1>4, <1>5

LEMMA QueueRefused ==
  ASSUME todo \in Seq(Steps), Queued(todo), DeleteRefused
  PROVE  Queued(todo') /\ Els(todo') = {s \in Els(todo) : s.do = "remove"}
<1>1. todo' = AfterFailure
  BY DEF DeleteRefused
<1>2. \A s \in Els(AfterFailure) : s.do = "remove"
  BY RefusedLeaves
<1>3. \A i \in 1..Len(AfterFailure) : AfterFailure[i].do = "remove"
  BY <1>2 DEF Els
<1>4. Queued(AfterFailure)
  BY <1>3 DEF Queued, Behind, Referring, Immediate
<1>5. QED
  BY <1>1, <1>4, RefusedLeaves

LEMMA QueueNext == TypeInv /\ Queued(todo) /\ [Next]_vars => Queued(todo)'
<1> SUFFICES ASSUME TypeInv, Queued(todo), [Next]_vars PROVE Queued(todo')
  BY DEF Queued
<1>1. todo \in Seq(Steps)
  BY DEF TypeInv
<1>2. CASE Transaction
  <2>1. todo # <<>> /\ (PutBy \/ DeleteRefused)
    BY <1>2, Puts
  <2>2. CASE PutBy
    <3>1. PICK steps \in Seq(Steps) :
            /\ Then(steps)
            /\ \A s \in Els(steps) : Leads(This, s)
            /\ \A i \in 1..Len(steps) : i > 1 => steps[i].do \notin Immediate
      BY <2>2 DEF PutBy
    <3>2. \A s \in Els(steps) : /\ s.do # "remove"
                                /\ This.do # "remove" => s.do \notin Ending
                                /\ This.do = "remove" => s.do \notin Referring
      BY <3>1, LeadsTo
    <3>3. This.do = "remove" => This.do \in Ending
      BY DEF Ending
    <3>4. QED
      BY <1>1, <2>1, <3>1, <3>2, <3>3, QueueThen
  <2>3. CASE DeleteRefused
    BY <1>1, <2>3, QueueRefused
  <2>4. QED
    BY <2>1, <2>2, <2>3
<1>3. CASE Start
  BY <1>3, QueueStart
<1>4. CASE Crash
  <2>1. todo' = <<>> /\ \A i \in 1..Len(<<>>) : FALSE
    BY <1>4 DEF Crash
  <2>2. QED
    BY <2>1 DEF Queued
<1>5. CASE Rest \/ UNCHANGED vars
  <2>1. todo' = todo
    BY <1>5 DEF Rest, vars
  <2>2. QED
    BY <2>1
<1>6. QED
  BY <1>2, <1>3, <1>4, <1>5 DEF Next

-----------------------------------------------------------------------------
(* References. *)

\* The rows a step needs are there.
Sound(s) ==
    /\ s.do \in {"insert", "write task"} => s.ref = None \/ Exists(s.ref)
    /\ s.do \in {"write task", "fire", "save", "attach"} => Exists(s.t)
    /\ s.do = "set links" => Exists(s.p)
    /\ s.do = "repoint" => Exists(s.s)

RefsInv ==
    /\ TypeInv
    /\ Queued(todo)
    /\ NoDanglingReference
    /\ \A s \in Els(todo) : Sound(s)

LEMMA NotReferring ==
  ASSUME NEW s, s.do \notin Referring
  PROVE  Sound(s) /\ Sound(s)'
BY DEF Sound, Referring

\* A task that is there points at a project that is there, or at none.
LEMMA RefSound ==
  ASSUME TypeOK, NoDanglingReference, NEW t \in Tasks, Exists(t)
  PROVE  ref[t] \in Projects \cup {None} /\ (ref[t] = None \/ Exists(ref[t]))
BY DEF TypeOK, NoDanglingReference

\* Only the steps that end rows do.
LEMMA ExistsKept ==
  ASSUME TypeInv, Transaction, This.do \notin Ending, NEW r, Exists(r), r \in Rows
  PROVE  Exists(r)'
<1>1. /\ todo # <<>> /\ This \in Steps /\ Head(todo) = This
      /\ row \in [Rows -> {"unused", "live", "trash", "gone"}]
  BY Puts, HeadTail DEF TypeInv, TypeOK, This
<1>2. CASE Insert
  <2>1. PICK t \in Tasks : row' = [row EXCEPT ![t] = "live"]
    BY <1>2 DEF Insert
  <2>2. QED
    BY <1>1, <2>1 DEF Exists
<1>3. CASE Mark
  <2>1. This \in MarkSteps
    BY <1>1, <1>3, StepKinds DEF Mark, At
  <2>2. This.state \in {"live", "trash"}
    BY <2>1 DEF MarkSteps
  <2>3. row' = IF Exists(This.r) THEN [row EXCEPT ![This.r] = This.state] ELSE row
    BY <1>3 DEF Mark
  <2>4. QED
    BY <1>1, <2>2, <2>3 DEF Exists
<1>4. CASE DropChildren \/ Delete
  BY <1>1, <1>4 DEF DropChildren, Delete, At, Ending
<1>5. CASE ~Insert /\ ~Mark /\ ~DropChildren /\ ~Delete
  <2>1. row' = row
    BY <1>5 DEF Transaction, WriteTask, WriteProject, EditCell, RunRule, SkipRule, FireDone,
         Ripple, RefreshOne, RefreshDone, SetLinks, Unlink, ClearFk, RemoveRecord,
         DeleteRefused, DeleteFile, Detach, SaveFile, Attach, Repoint, data
  <2>2. QED
    BY <2>1 DEF Exists
<1>6. QED
  BY <1>2, <1>3, <1>4, <1>5

LEMMA LeadsSound ==
  ASSUME TypeInv, Transaction, NoDanglingReference, Sound(This), NEW s, Leads(This, s)
  PROVE  Sound(s)'
<1> DEFINE a == This
<1>1. TypeOK /\ todo # <<>> /\ a \in Steps /\ Head(todo) = a
  BY Puts, HeadTail DEF TypeInv, This
<1>2. row \in [Rows -> {"unused", "live", "trash", "gone"}] /\ Tasks \subseteq Rows
      /\ Projects \subseteq Rows /\ None \notin Projects
  BY <1>1, RecordsAssumption DEF TypeOK, Rows
<1>3. a.do \notin Ending => \A r \in Rows : Exists(r) => Exists(r)'
  BY ExistsKept
<1>4. CASE InsertLeads(a, s)
  <2>1. PICK t \in Tasks :
          /\ row' = [row EXCEPT ![t] = "live"]
          /\ \/ s = [do |-> "fire", event |-> "create", t |-> t, old |-> None, k |-> 1,
                     depth |-> a.depth]
             \/ s = [do |-> "ripple", r |-> t, ref |-> a.ref]
             \/ s = [do |-> "save", t |-> t]
    BY <1>4 DEF InsertLeads
  <2>2. Exists(t)'
    BY <1>2, <2>1 DEF Exists
  <2>3. CASE s = [do |-> "fire", event |-> "create", t |-> t, old |-> None, k |-> 1,
                  depth |-> a.depth]
    <3>1. s.do = "fire" /\ s.t = t
      BY <2>3
    <3>2. QED
      BY <2>2, <3>1 DEF Sound
  <2>4. CASE s = [do |-> "ripple", r |-> t, ref |-> a.ref]
    <3>1. s.do = "ripple"
      BY <2>4
    <3>2. QED
      BY <3>1 DEF Sound
  <2>5. CASE s = [do |-> "save", t |-> t]
    <3>1. s.do = "save" /\ s.t = t
      BY <2>5
    <3>2. QED
      BY <2>2, <3>1 DEF Sound
  <2>6. QED
    BY <2>1, <2>3, <2>4, <2>5
<1>5. CASE WriteLeads(a, s)
  <2>1. a.do = "write task" /\ a \in WriteTaskSteps /\ a.do \notin Ending
    BY <1>1, <1>5, StepKinds DEF WriteLeads, Ending
  <2>2. a.t \in Rows /\ Exists(a.t)
    BY <1>2, <2>1 DEF WriteTaskSteps, Sound
  <2>3. \A r \in Rows : Exists(r) => row'[r] \in {"live", "trash"}
    BY <1>3, <2>1 DEF Exists
  <2>4. row'[a.t] \in {"live", "trash"}
    BY <2>2, <2>3
  <2>5. CASE s = [do |-> "fire", event |-> "update", t |-> a.t, old |-> value[a.t], k |-> 1,
                  depth |-> 0]
    <3>1. s.do = "fire" /\ s.t = a.t
      BY <2>5
    <3>2. QED
      BY <2>4, <3>1 DEF Sound, Exists
  <2>6. CASE s = [do |-> "ripple", r |-> a.t, ref |-> a.ref]
    <3>1. s.do = "ripple"
      BY <2>6
    <3>2. QED
      BY <3>1 DEF Sound
  <2>7. QED
    BY <1>5, <2>5, <2>6 DEF WriteLeads
<1>6. CASE CellLeads(a, s)
  <2>1. a.do = "edit cell" /\ a \in CellSteps /\ a.do \notin Ending
    BY <1>1, <1>6, StepKinds DEF CellLeads, Ending
  <2>2. a.t \in Tasks /\ a.t \in Rows /\ Exists(a.t)
    BY <1>2, <1>6, <2>1 DEF CellSteps, CellLeads, Exists
  <2>3. ref[a.t] \in Projects \cup {None} /\ (ref[a.t] = None \/ Exists(ref[a.t]))
    BY <1>1, <2>2, RefSound
  <2>4. \A r \in Rows : Exists(r) => row'[r] \in {"live", "trash"}
    BY <1>3, <2>1 DEF Exists
  <2>5. row'[a.t] \in {"live", "trash"} /\ (ref[a.t] = None \/ row'[ref[a.t]] \in {"live", "trash"})
    BY <1>2, <2>2, <2>3, <2>4
  <2>6. s.do = "write task" /\ s.t = a.t /\ s.ref = ref[a.t]
    BY <1>6 DEF CellLeads
  <2>7. QED
    BY <2>5, <2>6 DEF Sound, Exists
<1>7. CASE FireLeads(a, s)
  <2>1. a.do = "fire" /\ a \in FireSteps /\ a.do \notin Ending
    BY <1>1, <1>7, StepKinds DEF FireLeads, Ending
  <2>2. a.t \in Tasks /\ a.t \in Rows /\ Exists(a.t)
    BY <1>2, <2>1 DEF FireSteps, Sound
  <2>3. ref[a.t] \in Projects \cup {None} /\ (ref[a.t] = None \/ Exists(ref[a.t]))
    BY <1>1, <2>2, RefSound
  <2>4. \A r \in Rows : Exists(r) => row'[r] \in {"live", "trash"}
    BY <1>3, <2>1 DEF Exists
  <2>5. row'[a.t] \in {"live", "trash"} /\ (ref[a.t] = None \/ row'[ref[a.t]] \in {"live", "trash"})
    BY <1>2, <2>2, <2>3, <2>4
  <2>6. (s.do = "fire" /\ s.t = a.t) \/ (s.do = "insert" /\ s.ref = ref[a.t])
    BY <1>7 DEF FireLeads
  <2>7. QED
    BY <2>5, <2>6 DEF Sound, Exists
<1>8. CASE FormulaLeads(a, s) \/ RemoveLeads(a, s)
  <2>1. s.do \notin Referring
    BY <1>8, LeadsKinds DEF Referring
  <2>2. QED
    BY <2>1, NotReferring
<1>9. CASE FileLeads(a, s)
  <2>1. CASE s.do = "attach"
    <3>1. a.do = "save" /\ s.t = a.t
      <4>1. CASE s = [do |-> "detach", t |-> a.t]
        <5>1. s.do = "detach"
          BY <4>1
        <5>2. QED
          BY <2>1, <5>1
      <4>2. CASE a.do = "save" /\ s = [do |-> "attach", t |-> a.t]
        BY <4>2
      <4>3. QED
        BY <1>9, <4>1, <4>2 DEF FileLeads
    <3>2. a \in FileSteps /\ a.do \notin Ending
      BY <1>1, <3>1, StepKinds DEF Ending
    <3>3. a.t \in Rows /\ Exists(a.t)
      BY <1>2, <3>1, <3>2 DEF FileSteps, Sound
    <3>4. \A r \in Rows : Exists(r) => row'[r] \in {"live", "trash"}
      BY <1>3, <3>2 DEF Exists
    <3>5. row'[s.t] \in {"live", "trash"}
      BY <3>1, <3>3, <3>4
    <3>6. QED
      BY <2>1, <3>5 DEF Sound, Exists
  <2>2. CASE s.do # "attach"
    <3>1. s.do \notin Referring
      BY <1>9, <2>2, LeadsKinds DEF Referring
    <3>2. QED
      BY <3>1, NotReferring
  <2>3. QED
    BY <2>1, <2>2
<1>10. QED
  BY <1>4, <1>5, <1>6, <1>7, <1>8, <1>9 DEF Leads

\* A step in the queue stays sound when rows stay.
LEMMA SoundKept ==
  ASSUME NEW s \in Steps, Sound(s), None \notin Projects,
         \A r \in Rows : Exists(r) => row'[r] \in {"live", "trash"}
  PROVE  Sound(s)'
<1>1. CASE s.do = "insert"
  <2>1. s \in InsertSteps
    BY <1>1, StepKinds
  <2>2. s.ref = None \/ s.ref \in Rows
    BY <2>1 DEF InsertSteps, Rows
  <2>3. s.ref = None \/ row'[s.ref] \in {"live", "trash"}
    BY <1>1, <2>2 DEF Sound
  <2>4. QED
    BY <1>1, <2>3 DEF Sound, Exists
<1>2. CASE s.do = "write task"
  <2>1. s \in WriteTaskSteps
    BY <1>2, StepKinds
  <2>2. (s.ref = None \/ s.ref \in Rows) /\ s.t \in Rows
    BY <2>1 DEF WriteTaskSteps, Rows
  <2>3. (s.ref = None \/ row'[s.ref] \in {"live", "trash"}) /\ row'[s.t] \in {"live", "trash"}
    BY <1>2, <2>2 DEF Sound
  <2>4. QED
    BY <1>2, <2>3 DEF Sound, Exists
<1>3. CASE s.do \in {"fire", "save", "attach"}
  <2>1. s \in FireSteps \/ s \in FileSteps
    BY <1>3, StepKinds
  <2>2. s.t \in Rows
    BY <2>1 DEF FireSteps, FileSteps, Rows
  <2>3. row'[s.t] \in {"live", "trash"}
    BY <1>3, <2>2 DEF Sound
  <2>4. QED
    BY <1>3, <2>3 DEF Sound, Exists
<1>4. CASE s.do = "set links"
  <2>1. s \in LinkSteps
    BY <1>4, StepKinds
  <2>2. s.p \in Rows
    BY <2>1 DEF LinkSteps, Rows
  <2>3. row'[s.p] \in {"live", "trash"}
    BY <1>4, <2>2 DEF Sound
  <2>4. QED
    BY <1>4, <2>3 DEF Sound, Exists
<1>5. CASE s.do = "repoint"
  <2>1. s \in RepointSteps
    BY <1>5, StepKinds
  <2>2. s.s \in Rows
    BY <2>1 DEF RepointSteps, Rows
  <2>3. row'[s.s] \in {"live", "trash"}
    BY <1>5, <2>2 DEF Sound
  <2>4. QED
    BY <1>5, <2>3 DEF Sound, Exists
<1>6. CASE s.do \notin Referring
  BY <1>6, NotReferring
<1>7. QED
  BY <1>1, <1>2, <1>3, <1>4, <1>5, <1>6 DEF Referring

\* What follows the step under way, in the order of the queue.
LEMMA Followers ==
  ASSUME todo \in Seq(Steps), todo # <<>>, Queued(todo), NEW s \in Els(Tail(todo))
  PROVE  Behind(This, s) /\ s \in Els(todo) /\ s \in Steps
<1>1. PICK i \in 2..Len(todo) : s = todo[i]
  BY ElsTodo
<1>2. Len(todo) \in Nat \ {0} /\ This = todo[1]
  BY HeadTail
<1>3. 1 \in 1..Len(todo) /\ i \in 1..Len(todo) /\ 1 < i
  BY <1>2
<1>4. QED
  BY <1>1, <1>2, <1>3, ElsTodo DEF Queued

LEMMA SoundTransaction ==
  ASSUME RefsInv, Transaction, NEW s \in Els(todo')
  PROVE  Sound(s)'
<1>1. /\ TypeInv /\ TypeOK /\ todo \in Seq(Steps) /\ Queued(todo) /\ NoDanglingReference
      /\ \A x \in Els(todo) : Sound(x)
  BY DEF RefsInv, TypeInv
<1>2. todo # <<>> /\ (PutBy \/ DeleteRefused)
  BY <1>1, Puts
<1>3. Els(todo) = {This} \cup Els(Tail(todo)) /\ Els(todo) \subseteq Steps
  BY <1>1, <1>2, ElsTodo
<1>4. CASE PutBy
  <2>1. PICK steps \in Seq(Steps) : Then(steps) /\ \A x \in Els(steps) : Leads(This, x)
    BY <1>4 DEF PutBy
  <2>2. Tail(todo) \in Seq(Steps)
    BY <1>1, <1>2, HeadTail
  <2>3. Els(steps \o Tail(todo)) = Els(steps) \cup Els(Tail(todo))
    BY <2>2, ElsOf
  <2>4. s \in Els(steps) \/ s \in Els(Tail(todo))
    BY <2>1, <2>3 DEF Then
  <2>5. CASE s \in Els(steps)
    <3>1. Sound(This) /\ Leads(This, s)
      BY <1>1, <1>3, <2>1, <2>5
    <3>2. QED
      BY <1>1, <3>1, LeadsSound
  <2>6. CASE s \in Els(Tail(todo))
    <3>1. Behind(This, s) /\ s \in Steps /\ Sound(s)
      BY <1>1, <1>2, <2>6, Followers
    <3>2. CASE This.do \in Ending
      BY <3>1, <3>2, NotReferring DEF Behind
    <3>3. CASE This.do \notin Ending
      <4>1. \A r \in Rows : Exists(r) => Exists(r)'
        BY <1>1, <3>3, ExistsKept
      <4>2. \A r \in Rows : Exists(r) => row'[r] \in {"live", "trash"}
        BY <4>1 DEF Exists
      <4>3. QED
        BY <3>1, <4>2, SoundKept, RecordsAssumption
    <3>4. QED
      BY <3>2, <3>3
  <2>7. QED
    BY <2>4, <2>5, <2>6
<1>5. CASE DeleteRefused
  <2>1. s.do \notin Referring
    BY <1>1, <1>5, QueueRefused DEF Referring
  <2>2. QED
    BY <2>1, NotReferring
<1>6. QED
  BY <1>2, <1>4, <1>5

LEMMA ReferencesTransaction ==
  ASSUME RefsInv, Transaction
  PROVE  NoDanglingReference'
<1>1. /\ TypeInv /\ TypeOK /\ todo \in Seq(Steps) /\ NoDanglingReference
      /\ \A x \in Els(todo) : Sound(x)
  BY DEF RefsInv, TypeInv
<1>2. todo # <<>>
  BY <1>1, Puts
<1>3. /\ This \in Steps /\ Head(todo) = This /\ Sound(This)
      /\ row \in [Rows -> {"unused", "live", "trash", "gone"}]
      /\ ref \in [Tasks -> Projects \cup {None}]
      /\ link \subseteq Projects \X Tags
  BY <1>1, <1>2, HeadTail, ElsTodo DEF This, TypeOK
<1>4. /\ \A t \in Tasks : t \in Rows /\ t \notin Projects
      /\ \A p \in Projects : p \in Rows /\ p \notin Tasks /\ p # None
      /\ \A l \in link : l[1] \in Projects
  BY <1>3, RecordsAssumption DEF Rows
<1>5. /\ \A t \in Tasks : Exists(t) /\ ref[t] # None => Exists(ref[t])
      /\ \A l \in link : Exists(l[1])
  BY <1>1 DEF NoDanglingReference
<1>6. ASSUME \A t \in Tasks : row'[t] \in {"live", "trash"} /\ ref'[t] # None =>
                  row'[ref'[t]] \in {"live", "trash"},
             \A l \in link' : row'[l[1]] \in {"live", "trash"}
      PROVE  NoDanglingReference'
  BY <1>6 DEF NoDanglingReference, Exists
<1>7. CASE Insert
  <2>1. This.do = "insert" /\ This.do \notin Ending
    BY <1>3, <1>7 DEF Insert, At, Ending
  <2>2. PICK t \in Tasks : /\ row' = [row EXCEPT ![t] = "live"]
                           /\ ref' = [ref EXCEPT ![t] = This.ref]
                           /\ link' = link
    BY <1>7 DEF Insert
  <2>3. This.ref = None \/ Exists(This.ref)
    BY <1>3, <2>1 DEF Sound
  <2>4. This.ref \in Projects \cup {None}
    BY <1>3, <2>1, StepKinds DEF InsertSteps
  <2>5. \A p \in Projects : row'[p] = row[p]
    BY <1>3, <1>4, <2>2
  <2>6. \A x \in Tasks : /\ x = t => ref'[x] = This.ref
                         /\ x # t => ref'[x] = ref[x] /\ row'[x] = row[x]
    BY <1>3, <1>4, <2>2
  <2>7. ASSUME NEW x \in Tasks, row'[x] \in {"live", "trash"}, ref'[x] # None
        PROVE  row'[ref'[x]] \in {"live", "trash"}
    <3>1. ref'[x] \in Projects /\ Exists(ref'[x])
      BY <1>3, <1>5, <2>3, <2>4, <2>6, <2>7 DEF Exists
    <3>2. QED
      BY <2>5, <3>1 DEF Exists
  <2>8. \A l \in link' : row'[l[1]] \in {"live", "trash"}
    BY <1>4, <1>5, <2>2, <2>5 DEF Exists
  <2>9. QED
    BY <1>6, <2>7, <2>8
<1>8. CASE WriteTask
  <2>1. This.do = "write task"
    BY <1>3, <1>8 DEF WriteTask, At
  <2>2. ref' = [ref EXCEPT ![This.t] = This.ref] /\ row' = row /\ link' = link
    BY <1>8 DEF WriteTask
  <2>3. (This.ref = None \/ Exists(This.ref)) /\ This.t \in Tasks
    BY <1>3, <2>1, StepKinds DEF Sound, WriteTaskSteps
  <2>4. QED
    BY <1>3, <1>5, <1>6, <2>2, <2>3 DEF Exists
<1>9. CASE SetLinks
  <2>1. This.do = "set links" /\ row' = row /\ ref' = ref
    BY <1>3, <1>9 DEF SetLinks, At
  <2>2. Exists(This.p)
    BY <1>3, <2>1 DEF Sound
  <2>3. link' = {l \in link : l[1] # This.p} \cup {<<This.p, g>> : g \in This.tags}
    BY <1>9 DEF SetLinks
  <2>4. \A l \in link' : Exists(l[1])
    BY <1>5, <2>2, <2>3
  <2>5. QED
    BY <1>5, <1>6, <2>1, <2>4 DEF Exists
<1>10. CASE Unlink
  BY <1>5, <1>6, <1>10 DEF Unlink, Exists
<1>11. CASE ClearFk
  <2>1. /\ ref' = [t \in Tasks |-> IF t \in Children(This.p) THEN None ELSE ref[t]]
        /\ row' = row /\ link' = link
    BY <1>11 DEF ClearFk
  <2>2. QED
    BY <1>5, <1>6, <2>1 DEF Exists
<1>12. CASE DropChildren
  <2>1. /\ row' = [r \in Rows |-> IF r \in Children(This.p) THEN "gone" ELSE row[r]]
        /\ ref' = ref /\ link' = link
    BY <1>12 DEF DropChildren
  <2>2. \A p \in Projects : row'[p] = row[p]
    BY <1>4, <2>1 DEF Children
  <2>3. \A t \in Tasks : row'[t] \in {"live", "trash"} => row[t] \in {"live", "trash"}
    BY <1>4, <2>1
  <2>4. QED
    BY <1>3, <1>4, <1>5, <1>6, <2>1, <2>2, <2>3 DEF Exists
<1>13. CASE Mark
  <2>1. This \in MarkSteps
    BY <1>3, <1>13, StepKinds DEF Mark, At
  <2>2. This.state \in {"live", "trash"}
    BY <2>1 DEF MarkSteps
  <2>3. /\ row' = IF Exists(This.r) THEN [row EXCEPT ![This.r] = This.state] ELSE row
        /\ ref' = ref /\ link' = link
    BY <1>13 DEF Mark
  <2>4. \A r \in Rows : row'[r] \in {"live", "trash"} <=> row[r] \in {"live", "trash"}
    BY <1>3, <2>2, <2>3 DEF Exists
  <2>5. QED
    BY <1>3, <1>4, <1>5, <1>6, <2>3, <2>4 DEF Exists
<1>14. CASE Delete
  <2> DEFINE r == This.r
             hit == IF r \in Projects THEN Children(r) ELSE {}
             lost == IF design.onDelete = "CASCADE" THEN hit ELSE {}
  <2>1. /\ row' = [x \in Rows |-> IF x \in lost \cup {r} THEN "gone" ELSE row[x]]
        /\ ref' = [t \in Tasks |-> IF t \in hit \ lost THEN None ELSE ref[t]]
        /\ link' = {l \in link : l[1] # r}
    BY <1>14 DEF Delete
  <2>2. lost \subseteq hit /\ hit \subseteq Tasks
    BY DEF Children
  <2>3. \A t \in Tasks : Exists(t) /\ ref[t] = r /\ ref[t] # None => t \in hit
    BY <1>3 DEF Children
  <2> HIDE DEF r, hit, lost
  <2>4. \A p \in Projects : p # r => row'[p] = row[p]
    BY <1>4, <2>1, <2>2
  <2>5. \A t \in Tasks : row'[t] \in {"live", "trash"} => t \notin lost /\ Exists(t)
    BY <1>4, <2>1 DEF Exists
  <2>6. ASSUME NEW t \in Tasks, row'[t] \in {"live", "trash"}, ref'[t] # None
        PROVE  row'[ref'[t]] \in {"live", "trash"}
    <3>1. t \notin lost /\ Exists(t)
      BY <2>5, <2>6
    <3>2. t \notin hit /\ ref'[t] = ref[t]
      BY <2>1, <2>6, <3>1
    <3>3. ref[t] \in Projects /\ ref[t] # r /\ Exists(ref[t])
      BY <1>3, <1>5, <2>3, <2>6, <3>1, <3>2
    <3>4. QED
      BY <2>4, <3>2, <3>3 DEF Exists
  <2>7. \A l \in link' : row'[l[1]] \in {"live", "trash"}
    BY <1>4, <1>5, <2>1, <2>4 DEF Exists
  <2>8. QED
    BY <1>6, <2>6, <2>7
<1>15. CASE Repoint
  <2>1. This.do = "repoint" /\ row' = row /\ link' = link
    BY <1>3, <1>15 DEF Repoint, At
  <2>2. Exists(This.s)
    BY <1>3, <2>1 DEF Sound
  <2>3. ref' = [t \in Tasks |-> IF t \in Children(This.d) THEN This.s ELSE ref[t]]
    BY <1>15 DEF Repoint
  <2>4. QED
    BY <1>5, <1>6, <2>1, <2>2, <2>3 DEF Exists
<1>16. CASE /\ ~Insert /\ ~WriteTask /\ ~SetLinks /\ ~Unlink /\ ~ClearFk /\ ~DropChildren
            /\ ~Mark /\ ~Delete /\ ~Repoint
  <2>1. row' = row /\ ref' = ref /\ link' = link
    BY <1>16 DEF Transaction, WriteProject, EditCell, RunRule, SkipRule, FireDone,
       Ripple, RefreshOne, RefreshDone, RemoveRecord, DeleteRefused, DeleteFile, Detach,
       SaveFile, Attach, data
  <2>2. QED
    BY <1>5, <1>6, <2>1 DEF Exists
<1>17. QED
  BY <1>7, <1>8, <1>9, <1>10, <1>11, <1>12, <1>13, <1>14, <1>15, <1>16

\* A request leaves the rows alone, but for a new one.
LEMMA StartKeeps ==
  ASSUME TypeInv, Start
  PROVE  /\ design' = design /\ link' = link /\ att' = att /\ disk' = disk
         /\ \/ row' = row /\ ref' = ref /\ value' = value
            \/ \E p \in Projects : /\ row[p] = "unused" /\ row' = [row EXCEPT ![p] = "live"]
                                   /\ ref' = ref /\ value' = value
            \/ \E t \in Tasks, p \in RefChoices :
                 /\ row[t] = "unused" /\ row' = [row EXCEPT ![t] = "live"]
                 /\ ref' = [ref EXCEPT ![t] = p]
                 /\ \A s \in Els(todo') : s.do = "refresh"
<1>1. CASE CreateProject
  BY <1>1 DEF CreateProject
<1>2. CASE ImportTasks
  <2>1. PICK t \in Tasks, p \in RefChoices :
          /\ row[t] = "unused" /\ row' = [row EXCEPT ![t] = "live"]
          /\ ref' = [ref EXCEPT ![t] = p]
          /\ todo' = <<[do |-> "refresh", rows |-> {x \in Tasks : Exists(x)} \cup {t}]>>
    BY <1>2 DEF ImportTasks
  <2> DEFINE a == [do |-> "refresh", rows |-> {x \in Tasks : Exists(x)} \cup {t}]
  <2>2. a.do = "refresh" /\ todo' = <<a>>
    BY <2>1
  <2> HIDE DEF a
  <2>3. Els(<<a>>) = {a}
    BY ElsOf
  <2>4. \A s \in Els(todo') : s.do = "refresh"
    BY <2>2, <2>3
  <2>5. QED
    BY <1>2, <2>1, <2>4 DEF ImportTasks
<1>3. CASE ~CreateProject /\ ~ImportTasks
  BY <1>3 DEF Start, CreateTask, EditTask, EditProject, BulkEdit, ApiCreate,
     ApiUpdate, ApiDelete, AssignToMe, DeleteRecords, RestoreRecord, DestroyRecord,
     MergeProjects, Request, data
<1>4. QED
  BY <1>1, <1>2, <1>3

LEMMA RowsKeptStart ==
  ASSUME TypeInv, Start, NEW r \in Rows, Exists(r)
  PROVE  row'[r] = row[r]
<1>1. row \in [Rows -> {"unused", "live", "trash", "gone"}] /\ row[r] # "unused"
  BY DEF TypeInv, TypeOK, Exists
<1>2. row' = row \/ \E x \in Rows : row[x] = "unused" /\ row' = [row EXCEPT ![x] = "live"]
  BY StartKeeps DEF Rows
<1>3. QED
  BY <1>1, <1>2

LEMMA SoundStart ==
  ASSUME RefsInv, Start, NEW s \in Els(todo')
  PROVE  Sound(s)'
<1>1. TypeInv /\ TypeOK /\ NoDanglingReference
  BY DEF RefsInv, TypeInv
<1>2. todo' \in Seq(Steps) /\ Els(todo') \subseteq Steps
  <2>1. todo' \in Seq(Steps)
    BY <1>1, Starts
  <2>2. \A i \in 1..Len(todo') : todo'[i] \in Steps
    BY <2>1
  <2>3. QED
    BY <2>1, <2>2 DEF Els
<1>3. \A r \in Rows : Exists(r) => row'[r] \in {"live", "trash"}
  BY <1>1, RowsKeptStart DEF Exists
<1>4. s \in Steps /\ None \notin Projects /\ Projects \subseteq Rows /\ Tasks \subseteq Rows
  BY <1>2, RecordsAssumption DEF Rows
<1>5. CASE Begins(s)
  <2>1. CASE s.do = "insert"
    <3>1. s.ref \in Projects \cup {None} /\ (s.ref = None \/ Exists(s.ref))
      BY <1>5, <2>1 DEF Begins, RefChoices
    <3>2. s.ref = None \/ row'[s.ref] \in {"live", "trash"}
      BY <1>3, <1>4, <3>1
    <3>3. QED
      BY <2>1, <3>2 DEF Sound, Exists
  <2>2. CASE s.do = "write task"
    <3>1. s.t \in Tasks
      BY <1>4, <2>2, StepKinds DEF WriteTaskSteps
    <3>2. row[s.t] = "live" /\ s.ref \in RefChoices \cup {ref[s.t]}
      BY <1>5, <2>2 DEF Begins
    <3>3. s.ref \in Projects \cup {None} /\ (s.ref = None \/ Exists(s.ref)) /\ Exists(s.t)
      BY <1>1, <3>1, <3>2, RefSound DEF RefChoices, Exists
    <3>4. (s.ref = None \/ row'[s.ref] \in {"live", "trash"}) /\ row'[s.t] \in {"live", "trash"}
      BY <1>3, <1>4, <3>1, <3>3
    <3>5. QED
      BY <2>2, <3>4 DEF Sound, Exists
  <2>3. CASE s.do = "save"
    <3>1. s.t \in Tasks /\ row[s.t] = "live"
      BY <1>4, <1>5, <2>3, StepKinds DEF FileSteps, Begins
    <3>2. row'[s.t] \in {"live", "trash"}
      BY <1>3, <1>4, <3>1 DEF Exists
    <3>3. QED
      BY <2>3, <3>2 DEF Sound, Exists
  <2>4. CASE s.do = "set links"
    <3>1. s.p \in Projects /\ (Exists(s.p) \/ row'[s.p] = "live")
      BY <1>4, <1>5, <2>4, StepKinds DEF LinkSteps, Begins
    <3>2. row'[s.p] \in {"live", "trash"}
      BY <1>3, <1>4, <3>1
    <3>3. QED
      BY <2>4, <3>2 DEF Sound, Exists
  <2>5. CASE s.do = "repoint"
    <3>1. s.s \in Projects /\ Exists(s.s)
      BY <1>4, <1>5, <2>5, StepKinds DEF RepointSteps, Begins
    <3>2. row'[s.s] \in {"live", "trash"}
      BY <1>3, <1>4, <3>1
    <3>3. QED
      BY <2>5, <3>2 DEF Sound, Exists
  <2>6. CASE s.do \notin Referring
    BY <2>6, NotReferring
  <2>7. QED
    BY <1>5, <2>1, <2>2, <2>3, <2>4, <2>5, <2>6 DEF Begins, Referring
<1>6. CASE ~Begins(s)
  <2>1. s.do \notin Referring
    BY <1>1, <1>6, StartSteps DEF Referring
  <2>2. QED
    BY <2>1, NotReferring
<1>7. QED
  BY <1>5, <1>6

LEMMA ReferencesStart ==
  ASSUME RefsInv, Start
  PROVE  NoDanglingReference'
<1>1. TypeInv /\ TypeOK /\ NoDanglingReference
  BY DEF RefsInv, TypeInv
<1>2. \A r \in Rows : Exists(r) => row'[r] \in {"live", "trash"}
  BY <1>1, RowsKeptStart DEF Exists
<1>3. /\ \A t \in Tasks : t \in Rows /\ t \notin Projects
      /\ \A p \in Projects : p \in Rows /\ p \notin Tasks /\ p # None
      /\ \A l \in link : l[1] \in Projects
  BY <1>1, RecordsAssumption DEF Rows, TypeOK
<1>4. /\ \A t \in Tasks : Exists(t) /\ ref[t] # None => Exists(ref[t])
      /\ \A l \in link : Exists(l[1])
      /\ row \in [Rows -> {"unused", "live", "trash", "gone"}]
      /\ ref \in [Tasks -> Projects \cup {None}]
  BY <1>1 DEF NoDanglingReference, TypeOK
<1>5. \A l \in link' : row'[l[1]] \in {"live", "trash"}
  BY <1>1, <1>2, <1>3, <1>4, StartKeeps
<1>6. ASSUME NEW t \in Tasks, row'[t] \in {"live", "trash"}, ref'[t] # None
      PROVE  row'[ref'[t]] \in {"live", "trash"}
  <2>1. CASE ref'[t] = ref[t] /\ Exists(t)
    <3>1. ref[t] \in Projects /\ Exists(ref[t])
      BY <1>4, <1>6, <2>1
    <3>2. QED
      BY <1>2, <1>3, <2>1, <3>1
  <2>2. CASE ref'[t] \in RefChoices
    <3>1. ref'[t] \in Projects /\ Exists(ref'[t])
      BY <1>6, <2>2 DEF RefChoices
    <3>2. QED
      BY <1>2, <1>3, <3>1
  <2>3. (ref'[t] = ref[t] /\ Exists(t)) \/ ref'[t] \in RefChoices
    <3>1. CASE row' = row /\ ref' = ref
      BY <1>6, <3>1 DEF Exists
    <3>2. CASE \E p \in Projects : row' = [row EXCEPT ![p] = "live"] /\ ref' = ref
      <4>1. row'[t] = row[t]
        BY <1>3, <1>4, <3>2
      <4>2. QED
        BY <1>6, <3>2, <4>1 DEF Exists
    <3>3. CASE \E x \in Tasks, p \in RefChoices : /\ row' = [row EXCEPT ![x] = "live"]
                                                  /\ ref' = [ref EXCEPT ![x] = p]
      <4>1. PICK x \in Tasks, p \in RefChoices : /\ row' = [row EXCEPT ![x] = "live"]
                                                 /\ ref' = [ref EXCEPT ![x] = p]
        BY <3>3
      <4>2. t = x => ref'[t] = p
        BY <1>4, <4>1
      <4>3. t # x => ref'[t] = ref[t] /\ row'[t] = row[t]
        BY <1>3, <1>4, <4>1
      <4>4. QED
        BY <1>6, <4>1, <4>2, <4>3 DEF Exists
    <3>4. QED
      BY <1>1, <3>1, <3>2, <3>3, StartKeeps
  <2>4. QED
    BY <2>1, <2>2, <2>3
<1>7. QED
  BY <1>5, <1>6 DEF NoDanglingReference, Exists

LEMMA RefsInit == Init => RefsInv
<1> SUFFICES ASSUME Init PROVE RefsInv
  OBVIOUS
<1>1. TypeInv /\ todo = <<>>
  BY TypeInit DEF Init
<1>2. PICK old \in {{}, Projects}, first \in SUBSET Tasks, p \in Projects, v \in Values :
        /\ IF old = {} THEN first = {} ELSE Cardinality(first) = 1
        /\ row = [r \in Rows |-> IF r \in old \cup first THEN "live" ELSE "unused"]
        /\ ref = [t \in Tasks |-> IF t \in first THEN p ELSE None]
        /\ value = [t \in Tasks |-> IF t \in first THEN v ELSE None]
        /\ note \in [Projects -> IF old = {} THEN {None} ELSE Notes \cup {None}]
        /\ shown = [t \in Tasks |-> IF t \in first THEN note[p] ELSE None]
        /\ total = [q \in Projects |-> IF first # {} /\ q = p THEN 1 ELSE 0]
        /\ link \in {{}, (old \cap {p}) \X Tags}
        /\ att = first /\ disk = first
  BY DEF Init
<1>3. first # {} => old = Projects
  BY <1>2
<1>4. Projects \subseteq Rows
  BY DEF Rows
<1>5. \A t \in Tasks : Exists(t) /\ ref[t] # None => Exists(ref[t])
  BY <1>2, <1>3, <1>4 DEF Exists
<1>6. \A l \in link : Exists(l[1])
  <2>1. \A l \in link : l[1] \in old
    BY <1>2
  <2>2. QED
    BY <1>2, <1>4, <2>1 DEF Exists
<1>7. Els(todo) = {} /\ Queued(todo)
  <2>1. Len(<<>>) = 0
    OBVIOUS
  <2>2. QED
    BY <1>1, <2>1, ElsOf DEF Queued
<1>8. QED
  BY <1>1, <1>5, <1>6, <1>7 DEF RefsInv, NoDanglingReference

LEMMA RefsNext == RefsInv /\ [Next]_vars => RefsInv'
<1> SUFFICES ASSUME RefsInv, [Next]_vars PROVE RefsInv'
  OBVIOUS
<1>1. TypeInv' /\ Queued(todo)'
  BY TypeNext, QueueNext DEF RefsInv
<1>2. NoDanglingReference' /\ \A s \in Els(todo') : Sound(s)'
  <2>1. CASE Transaction
    BY <2>1, ReferencesTransaction, SoundTransaction
  <2>2. CASE Start
    BY <2>2, ReferencesStart, SoundStart
  <2>3. CASE Crash
    <3>1. NoDanglingReference'
      BY <2>3 DEF Crash, RefsInv, NoDanglingReference, data, Exists
    <3>2. Els(todo') = {}
      BY <2>3, ElsOf DEF Crash
    <3>3. QED
      BY <3>1, <3>2
  <2>4. CASE Rest \/ UNCHANGED vars
    <3>1. UNCHANGED <<row, ref, link, todo>>
      BY <2>4 DEF Rest, vars
    <3>2. QED
      BY <3>1 DEF RefsInv, NoDanglingReference, Exists, Sound
  <2>5. QED
    BY <2>1, <2>2, <2>3, <2>4 DEF Next
<1>3. Els(todo)' = Els(todo')
  BY DEF Els
<1>4. QED
  BY <1>1, <1>2, <1>3 DEF RefsInv

\* A row that is there points at rows that are there, through every sequence of
\* removals, merges, imports and triggers, with any tables, rules and crashes.
THEOREM RowsSoundHolds == Spec => []RowsSound
<1>1. RefsInv => RowsSound
  <2> SUFFICES ASSUME RefsInv PROVE RowsSound
    OBVIOUS
  <2>1. TypeOK /\ NoDanglingReference /\ made \in 0..MaxDepth
    BY DEF RefsInv, TypeInv
  <2>2. made <= MaxDepth
    BY <2>1, RecordsAssumption
  <2>3. QED
    BY <2>1, <2>2 DEF RowsSound, ChainEnds
<1>2. QED
  BY <1>1, RefsInit, RefsNext, PTL DEF Spec

-----------------------------------------------------------------------------
(* What a transaction leaves to do, and what comes first.                     *)

\* The step under way says which transaction it is.
LEMMA Doing ==
  ASSUME Transaction
  PROVE  /\ todo # <<>>
         /\ Insert <=> This.do = "insert"
         /\ WriteTask <=> This.do = "write task"
         /\ WriteProject <=> This.do = "write project"
         /\ EditCell <=> This.do = "edit cell"
         /\ Ripple <=> This.do = "ripple"
         /\ RefreshOne \/ RefreshDone <=> This.do = "refresh"
         /\ RunRule \/ SkipRule \/ FireDone <=> This.do = "fire"
         /\ Mark <=> This.do = "mark"
         /\ Unlink <=> This.do = "unlink"
         /\ SetLinks <=> This.do = "set links"
         /\ ClearFk \/ DropChildren <=> This.do = "dissociate"
         /\ RemoveRecord <=> This.do = "remove"
         /\ Delete \/ DeleteRefused <=> This.do = "delete"
         /\ DeleteFile <=> This.do = "delete file"
         /\ Detach <=> This.do = "detach"
         /\ SaveFile <=> This.do = "save"
         /\ Attach <=> This.do = "attach"
         /\ Repoint <=> This.do = "repoint"
<1>1. /\ Insert => todo # <<>> /\ This.do = "insert"
      /\ WriteTask => todo # <<>> /\ This.do = "write task"
      /\ WriteProject => todo # <<>> /\ This.do = "write project"
      /\ EditCell => todo # <<>> /\ This.do = "edit cell"
      /\ RunRule \/ SkipRule \/ FireDone => todo # <<>> /\ This.do = "fire"
      /\ Ripple => todo # <<>> /\ This.do = "ripple"
      /\ RefreshOne \/ RefreshDone => todo # <<>> /\ This.do = "refresh"
  BY DEF Insert, WriteTask, WriteProject, EditCell, RunRule, SkipRule, FireDone, Ripple,
     RefreshOne, RefreshDone, At, This
<1>2. /\ Mark => todo # <<>> /\ This.do = "mark"
      /\ Unlink => todo # <<>> /\ This.do = "unlink"
      /\ SetLinks => todo # <<>> /\ This.do = "set links"
      /\ ClearFk \/ DropChildren => todo # <<>> /\ This.do = "dissociate"
      /\ RemoveRecord => todo # <<>> /\ This.do = "remove"
      /\ Delete \/ DeleteRefused => todo # <<>> /\ This.do = "delete"
  BY DEF Mark, Unlink, SetLinks, ClearFk, DropChildren, RemoveRecord, Delete, DeleteRefused,
     At, This
<1>3. /\ DeleteFile => todo # <<>> /\ This.do = "delete file"
      /\ Detach => todo # <<>> /\ This.do = "detach"
      /\ SaveFile => todo # <<>> /\ This.do = "save"
      /\ Attach => todo # <<>> /\ This.do = "attach"
      /\ Repoint => todo # <<>> /\ This.do = "repoint"
  BY DEF DeleteFile, Detach, SaveFile, Attach, Repoint, At, This
<1>4. QED
  BY <1>1, <1>2, <1>3 DEF Transaction

LEMMA AtThis ==
  ASSUME NEW d
  PROVE  /\ At(d) <=> todo # <<>> /\ This.do = d
         /\ At(d)' <=> todo' # <<>> /\ This'.do = d
BY DEF At, This

LEMMA ElsThen ==
  ASSUME todo \in Seq(Steps), todo # <<>>, NEW steps \in Seq(Steps), Then(steps)
  PROVE  Els(todo') = Els(steps) \cup Els(Tail(todo))
<1>1. Tail(todo) \in Seq(Steps)
  BY HeadTail
<1>2. Els(steps \o Tail(todo)) = Els(steps) \cup Els(Tail(todo))
  BY <1>1, ElsOf
<1>3. QED
  BY <1>2 DEF Then

\* What comes first next is one of the steps left to do.
LEMMA NextThis ==
  ASSUME todo' \in Seq(Steps), todo' # <<>>
  PROVE  This' = todo'[1] /\ This' \in Els(todo') /\ This' \in Steps
<1>1. Len(todo') \in Nat \ {0} /\ todo'[1] \in Steps /\ Head(todo') = todo'[1]
  OBVIOUS
<1>2. 1 \in 1..Len(todo')
  BY <1>1
<1>3. QED
  BY <1>1, <1>2 DEF Els, This

LEMMA NextHead ==
  ASSUME TypeInv, Queued(todo), Transaction, todo' # <<>>
  PROVE  /\ This' = todo'[1] /\ This' \in Els(todo') /\ This' \in Steps
         /\ \/ Leads(This, This')
            \/ This' \in Els(Tail(todo)) /\ This'.do \notin Immediate
            \/ DeleteRefused /\ This'.do = "remove"
<1>1. todo \in Seq(Steps) /\ todo # <<>> /\ (PutBy \/ DeleteRefused)
  BY Puts DEF TypeInv
<1>2. This' = todo'[1] /\ This' \in Els(todo') /\ This' \in Steps
  BY TodoTransaction, NextThis
<1>3. CASE PutBy
  <2>1. PICK steps \in Seq(Steps) : Then(steps) /\ \A s \in Els(steps) : Leads(This, s)
    BY <1>3 DEF PutBy
  <2>2. Els(todo') = Els(steps) \cup Els(Tail(todo))
    BY <1>1, <2>1, ElsThen
  <2>3. CASE This' \in Els(steps)
    BY <1>2, <2>1, <2>3
  <2>4. CASE This' \in Els(Tail(todo))
    <3>1. Behind(This, This')
      BY <1>1, <2>4, Followers
    <3>2. QED
      BY <1>2, <2>4, <3>1 DEF Behind
  <2>5. QED
    BY <1>2, <2>2, <2>3, <2>4
<1>4. CASE DeleteRefused
  BY <1>1, <1>2, <1>4, QueueRefused
<1>5. QED
  BY <1>1, <1>3, <1>4

\* What has to be done at once was put there by the step before it.
LEMMA ImmediateHead ==
  ASSUME TypeInv, Queued(todo), Transaction, todo' # <<>>, This'.do \in Immediate
  PROVE  /\ Leads(This, This')
         /\ This'.do = "delete" => RemoveRecord /\ This'.r = This.r
         /\ This'.do = "detach" => DeleteFile /\ This'.t = This.t
         /\ This'.do = "attach" => SaveFile /\ This'.t = This.t
<1>1. Leads(This, This')
  BY NextHead DEF Immediate
<1>2. This'.do = "delete" => This.do = "remove" /\ This'.r = This.r
  <2>1. SUFFICES ASSUME This'.do = "delete" PROVE This.do = "remove" /\ This'.r = This.r
    OBVIOUS
  <2>2. RemoveLeads(This, This')
    BY <1>1, <2>1, LeadsKinds DEF Leads
  <2>3. \A x : /\ [do |-> "mark", r |-> x, state |-> "trash"].do = "mark"
               /\ [do |-> "delete file", t |-> x].do = "delete file"
    OBVIOUS
  <2>4. QED
    BY <2>1, <2>2, <2>3 DEF RemoveLeads
<1>3. ASSUME This'.do \in {"detach", "attach"}
      PROVE  /\ This'.do = "detach" => This.do = "delete file" /\ This'.t = This.t
             /\ This'.do = "attach" => This.do = "save" /\ This'.t = This.t
  <2>1. FileLeads(This, This')
    BY <1>1, <1>3, LeadsKinds DEF Leads
  <2>2. \A x : /\ [do |-> "detach", t |-> x].do = "detach"
               /\ [do |-> "detach", t |-> x].t = x
               /\ [do |-> "attach", t |-> x].do = "attach"
               /\ [do |-> "attach", t |-> x].t = x
    OBVIOUS
  <2>3. QED
    BY <2>1, <2>2 DEF FileLeads
<1>4. QED
  BY <1>1, <1>2, <1>3, Doing

\* What a sequence that is led by some steps begins with.
LEMMA Led ==
  ASSUME NEW v \in Seq(Steps), NEW a \in Steps, NEW b \in Steps, NEW c \in Steps
  PROVE  /\ <<a>> \o v \in Seq(Steps) /\ <<a>> \o v # <<>> /\ Len(<<a>> \o v) = 1 + Len(v)
         /\ (<<a>> \o v)[1] = a
         /\ <<a, b>> \o v \in Seq(Steps) /\ <<a, b>> \o v # <<>>
         /\ Len(<<a, b>> \o v) = 2 + Len(v)
         /\ (<<a, b>> \o v)[1] = a /\ (<<a, b>> \o v)[2] = b
         /\ <<a, b, c>> \o v \in Seq(Steps) /\ <<a, b, c>> \o v # <<>>
         /\ Len(<<a, b, c>> \o v) = 3 + Len(v)
         /\ (<<a, b, c>> \o v)[1] = a /\ (<<a, b, c>> \o v)[2] = b /\ (<<a, b, c>> \o v)[3] = c
<1>1. ASSUME NEW u \in Seq(Steps), Len(u) \in Nat \ {0}
      PROVE  /\ u \o v \in Seq(Steps) /\ u \o v # <<>> /\ Len(u \o v) = Len(u) + Len(v)
             /\ \A i \in 1..Len(u) : (u \o v)[i] = u[i]
  <2>1. u \o v \in Seq(Steps) /\ Len(u \o v) = Len(u) + Len(v) /\ Len(v) \in Nat
    OBVIOUS
  <2>2. Len(u \o v) # 0
    BY <1>1, <2>1
  <2>3. QED
    BY <2>1, <2>2
<1>2. <<a>> \in Seq(Steps) /\ Len(<<a>>) = 1 /\ <<a>>[1] = a
  OBVIOUS
<1>3. <<a, b>> \in Seq(Steps) /\ Len(<<a, b>>) = 2 /\ <<a, b>>[1] = a /\ <<a, b>>[2] = b
  OBVIOUS
<1>4. /\ <<a, b, c>> \in Seq(Steps) /\ Len(<<a, b, c>>) = 3
      /\ <<a, b, c>>[1] = a /\ <<a, b, c>>[2] = b /\ <<a, b, c>>[3] = c
  OBVIOUS
<1>5. 1 \in 1..1 /\ 1 \in 1..2 /\ 2 \in 1..2 /\ 1 \in 1..3 /\ 2 \in 1..3 /\ 3 \in 1..3
  OBVIOUS
<1>6. /\ <<a>> \o v \in Seq(Steps) /\ <<a>> \o v # <<>> /\ Len(<<a>> \o v) = 1 + Len(v)
      /\ (<<a>> \o v)[1] = a
  BY <1>1, <1>2, <1>5
<1>7. /\ <<a, b>> \o v \in Seq(Steps) /\ <<a, b>> \o v # <<>>
      /\ Len(<<a, b>> \o v) = 2 + Len(v)
      /\ (<<a, b>> \o v)[1] = a /\ (<<a, b>> \o v)[2] = b
  BY <1>1, <1>3, <1>5
<1>8. /\ <<a, b, c>> \o v \in Seq(Steps) /\ <<a, b, c>> \o v # <<>>
      /\ Len(<<a, b, c>> \o v) = 3 + Len(v)
      /\ (<<a, b, c>> \o v)[1] = a /\ (<<a, b, c>> \o v)[2] = b /\ (<<a, b, c>> \o v)[3] = c
  BY <1>1, <1>4, <1>5
<1>9. QED
  BY <1>6, <1>7, <1>8

LEMMA After ==
  ASSUME NEW u \in Seq(Steps), NEW v \in Seq(Steps)
  PROVE  \A k \in 1..Len(v) : (u \o v)[Len(u) + k] = v[k]
OBVIOUS

\* A step put first is the next one.
LEMMA HeadThen ==
  ASSUME todo \in Seq(Steps), todo # <<>>, NEW u \in Seq(Steps), u # <<>>, Then(u)
  PROVE  /\ todo' # <<>> /\ This' = u[1] /\ Len(todo') >= Len(u)
         /\ \A i \in 1..Len(u) : todo'[i] = u[i]
<1>1. /\ todo' \in Seq(Steps)
      /\ Len(todo') = Len(u) + Len(todo) - 1
      /\ \A i \in 1..Len(u) : todo'[i] = u[i]
  BY ThenSteps
<1>2. Len(u) \in Nat \ {0} /\ Len(todo) \in Nat \ {0}
  BY HeadTail
<1>3. Len(todo') >= Len(u) /\ 1 \in 1..Len(u)
  BY <1>1, <1>2
<1>4. todo' # <<>>
  BY <1>2, <1>3
<1>5. QED
  BY <1>1, <1>3, <1>4, NextThis

\* A row that is gone stays gone.
LEMMA GoneStays ==
  ASSUME TypeInv, Transaction \/ Start, NEW r \in Rows, row[r] = "gone"
  PROVE  row'[r] = "gone"
<1>1. row \in [Rows -> {"unused", "live", "trash", "gone"}]
  BY DEF TypeInv, TypeOK
<1>2. CASE Start
  BY <1>1, <1>2, StartKeeps DEF Rows
<1>3. CASE Insert \/ Mark \/ DropChildren \/ Delete
  BY <1>1, <1>3 DEF Insert, Mark, DropChildren, Delete, Exists, Rows
<1>4. CASE Transaction /\ ~Insert /\ ~Mark /\ ~DropChildren /\ ~Delete
  BY <1>4 DEF Transaction, WriteTask, WriteProject, EditCell, RunRule, SkipRule, FireDone,
     Ripple, RefreshOne, RefreshDone, SetLinks, Unlink, ClearFk, RemoveRecord, DeleteRefused,
     DeleteFile, Detach, SaveFile, Attach, Repoint, data
<1>5. QED
  BY <1>2, <1>3, <1>4

-----------------------------------------------------------------------------
(* Files. *)

\* The files on disk are the attachment rows, but for the one between its two
\* transactions.
FilesPaired ==
    ~crashed =>
        /\ ~At("detach") /\ ~At("attach") => att = disk
        /\ At("detach") => disk = att \ {This.t}
        /\ At("attach") => disk = att \cup {This.t}

\* An attachment has its record, or is about to go after it.
FilesOwned ==
    ~crashed /\ ~design.required /\ design.onDelete # "CASCADE" =>
        \A t \in att : Exists(t)
                       \/ ((At("delete file") \/ At("detach")) /\ This.t = t)

\* The file of a record that is being deleted goes next.
FileNext ==
    At("delete") /\ This.r \in att =>
        Len(todo) > 1 /\ todo[2] = [do |-> "delete file", t |-> This.r]

\* A file that has still to go belongs to a record that is gone, or goes next.
GoneFirst ==
    \A s \in Els(todo) :
        s.do = "delete file" /\ s.t \in asked =>
            row[s.t] = "gone" \/ (At("delete") /\ This.r = s.t)

FilesInv == RefsInv /\ FilesPaired /\ FilesOwned /\ FileNext /\ GoneFirst

LEMMA FilesColumns ==
  ASSUME TypeInv, Transaction
  PROVE  /\ crashed' = crashed /\ design' = design /\ asked' = asked
         /\ This.do \notin {"delete file", "detach", "save", "attach"} =>
              att' = att /\ disk' = disk
<1>1. crashed' = crashed
  BY ColumnsTransaction
<1>2. design' = design /\ asked' = asked
  BY DEF Transaction, Insert, WriteTask, WriteProject, EditCell, RunRule, SkipRule, FireDone,
     Ripple, RefreshOne, RefreshDone, SetLinks, Unlink, ClearFk, DropChildren, Mark,
     RemoveRecord, Delete, DeleteRefused, DeleteFile, Detach, SaveFile, Attach, Repoint,
     data, past
<1>3. ASSUME This.do \notin {"delete file", "detach", "save", "attach"}
      PROVE  att' = att /\ disk' = disk
  <2>1. ~DeleteFile /\ ~Detach /\ ~SaveFile /\ ~Attach
    BY <1>3, Doing
  <2>2. QED
    BY <2>1 DEF Transaction, Insert, WriteTask, WriteProject, EditCell, RunRule, SkipRule,
       FireDone, Ripple, RefreshOne, RefreshDone, SetLinks, Unlink, ClearFk, DropChildren,
       Mark, RemoveRecord, Delete, DeleteRefused, Repoint, data
<1>4. QED
  BY <1>1, <1>2, <1>3

LEMMA PairedTransaction ==
  ASSUME FilesInv, Transaction
  PROVE  FilesPaired'
<1>1. TypeInv /\ TypeOK /\ Queued(todo) /\ todo \in Seq(Steps) /\ FilesPaired
  BY DEF FilesInv, RefsInv, TypeInv
<1>2. todo # <<>> /\ This \in Steps
  BY <1>1, Puts, HeadTail
<1>3. crashed' = crashed /\ att \subseteq Tasks /\ disk \subseteq Tasks
  BY <1>1, FilesColumns DEF TypeOK
<1>4. SUFFICES ASSUME ~crashed
               PROVE  /\ ~At("detach")' /\ ~At("attach")' => att' = disk'
                      /\ At("detach")' => disk' = att' \ {This'.t}
                      /\ At("attach")' => disk' = att' \cup {This'.t}
  BY <1>3 DEF FilesPaired
<1>5. /\ This.do \notin {"detach", "attach"} => att = disk
      /\ This.do = "detach" => disk = att \ {This.t}
      /\ This.do = "attach" => disk = att \cup {This.t}
  BY <1>1, <1>2, <1>4, AtThis DEF FilesPaired
<1>6. /\ At("detach")' => DeleteFile /\ This'.t = This.t
      /\ At("attach")' => SaveFile /\ This'.t = This.t
  BY <1>1, AtThis, ImmediateHead DEF Immediate
<1>7. CASE DeleteFile
  <2>1. This \in FileSteps /\ This.do = "delete file"
    BY <1>2, <1>7, Doing, StepKinds
  <2> DEFINE a == [do |-> "detach", t |-> This.t]
  <2>2. a \in Steps /\ a.do = "detach" /\ a.t = This.t /\ Then(<<a>>)
    BY <1>7, <2>1, StepMakers DEF FileSteps, DeleteFile
  <2> HIDE DEF a
  <2>3. <<a>> \in Seq(Steps) /\ <<a>> # <<>> /\ <<a>>[1] = a
    BY <2>2
  <2>4. todo' # <<>> /\ This' = a
    BY <1>1, <1>2, <2>2, <2>3, HeadThen
  <2>5. At("detach")' /\ ~At("attach")'
    BY <2>2, <2>4, AtThis
  <2>6. disk' = disk \ {This.t} /\ att' = att
    BY <1>7 DEF DeleteFile
  <2>7. QED
    BY <1>5, <2>1, <2>2, <2>4, <2>5, <2>6
<1>8. CASE SaveFile
  <2>1. This \in FileSteps /\ This.do = "save"
    BY <1>2, <1>8, Doing, StepKinds
  <2> DEFINE a == [do |-> "attach", t |-> This.t]
  <2>2. a \in Steps /\ a.do = "attach" /\ a.t = This.t /\ Then(<<a>>)
    BY <1>8, <2>1, StepMakers DEF FileSteps, SaveFile
  <2> HIDE DEF a
  <2>3. <<a>> \in Seq(Steps) /\ <<a>> # <<>> /\ <<a>>[1] = a
    BY <2>2
  <2>4. todo' # <<>> /\ This' = a
    BY <1>1, <1>2, <2>2, <2>3, HeadThen
  <2>5. At("attach")' /\ ~At("detach")'
    BY <2>2, <2>4, AtThis
  <2>6. disk' = disk \cup {This.t} /\ att' = att
    BY <1>8 DEF SaveFile
  <2>7. QED
    BY <1>5, <2>1, <2>2, <2>4, <2>5, <2>6
<1>9. CASE ~DeleteFile /\ ~SaveFile
  <2>1. ~At("detach")' /\ ~At("attach")'
    BY <1>6, <1>9
  <2>2. att' = disk'
    <3>1. CASE Detach
      BY <1>3, <1>5, <3>1, Doing DEF Detach
    <3>2. CASE Attach
      BY <1>3, <1>5, <3>2, Doing DEF Attach
    <3>3. CASE ~Detach /\ ~Attach
      <4>1. This.do \notin {"delete file", "detach", "save", "attach"}
        BY <1>9, <3>3, Doing
      <4>2. QED
        BY <1>1, <1>5, <4>1, FilesColumns
    <3>4. QED
      BY <3>1, <3>2, <3>3
  <2>3. QED
    BY <2>1, <2>2
<1>10. QED
  BY <1>7, <1>8, <1>9

LEMMA FileNextTransaction ==
  ASSUME FilesInv, Transaction
  PROVE  FileNext'
<1>1. TypeInv /\ TypeOK /\ Queued(todo) /\ todo \in Seq(Steps)
  BY DEF FilesInv, RefsInv, TypeInv
<1>2. todo # <<>> /\ This \in Steps
  BY <1>1, Puts, HeadTail
<1>3. SUFFICES ASSUME At("delete")', This'.r \in att'
               PROVE  Len(todo') > 1 /\ todo'[2] = [do |-> "delete file", t |-> This'.r]
  BY DEF FileNext
<1>4. todo' # <<>> /\ This'.do = "delete"
  BY <1>3, AtThis
<1>5. RemoveRecord /\ This'.r = This.r
  BY <1>1, <1>4, ImmediateHead DEF Immediate
<1> DEFINE r == This.r
<1>6. This.do = "remove" /\ r \in Rows
  BY <1>2, <1>5, Doing, StepKinds DEF RowSteps
<1>7. att' = att /\ Then(Removal(r))
  BY <1>5 DEF RemoveRecord, data
<1>8. r \in att
  BY <1>3, <1>5, <1>7
<1>9. PICK last \in {<<>>, <<[do |-> "ripple", r |-> r,
                            ref |-> IF r \in Tasks THEN ref[r] ELSE None]>>} :
        /\ last \in Seq(Steps)
        /\ ~design.soft /\ r \in att =>
             /\ r \in Tasks
             /\ Removal(r) = <<[do |-> "delete", r |-> r],
                               [do |-> "delete file", t |-> r]>> \o last
        /\ design.soft /\ r \in Tasks =>
             Removal(r) = <<[do |-> "mark", r |-> r, state |-> "trash"]>> \o last
        /\ design.soft /\ r \in Projects =>
             Removal(r) = <<[do |-> "unlink", p |-> r], [do |-> "dissociate", p |-> r],
                            [do |-> "mark", r |-> r, state |-> "trash"]>> \o last
  BY <1>1, <1>6, RemovalIs
<1>10. r \in Tasks
  BY <1>1, <1>8 DEF TypeOK
<1> DEFINE a == [do |-> "delete", r |-> r]
           b == [do |-> "delete file", t |-> r]
           m == [do |-> "mark", r |-> r, state |-> "trash"]
<1>11. a \in Steps /\ b \in Steps /\ m \in Steps /\ m.do = "mark"
  BY <1>6, <1>10, StepMakers
<1> HIDE DEF a, b, m, r
<1>12. ~design.soft
  <2>1. SUFFICES ASSUME design.soft PROVE FALSE
    BY <1>1 DEF TypeOK, Designs
  <2>2. Removal(r) = <<m>> \o last
    BY <1>9, <1>10, <2>1 DEF m
  <2>3. <<m>> \o last \in Seq(Steps) /\ <<m>> \o last # <<>> /\ (<<m>> \o last)[1] = m
    BY <1>9, <1>11, Led
  <2>4. This' = m
    BY <1>1, <1>2, <1>7, <2>2, <2>3, HeadThen
  <2>5. QED
    BY <1>4, <1>11, <2>4
<1>13. Removal(r) = <<a, b>> \o last
  BY <1>8, <1>9, <1>12 DEF a, b
<1> DEFINE u == <<a, b>> \o last
<1>14. u \in Seq(Steps) /\ u # <<>> /\ u[2] = b /\ Len(u) >= 2
  <2>1. Len(u) = 2 + Len(last) /\ Len(last) \in Nat
    <3>1. last \in Seq(Steps)
      BY <1>9
    <3>2. Len(u) = 2 + Len(last)
      BY <3>1, Led
    <3>3. QED
      BY <3>1, <3>2
  <2>2. last \in Seq(Steps) /\ a \in Steps /\ b \in Steps
    BY <1>9, <1>11
  <2>3. u \in Seq(Steps) /\ u # <<>> /\ u[2] = b
    BY <2>2, Led
  <2>4. Len(u) >= 2
    BY <2>1
  <2>5. QED
    BY <2>3, <2>4
<1> HIDE DEF u
<1>15. Then(u)
  BY <1>7, <1>13 DEF u
<1>16. Len(todo') >= Len(u) /\ todo'[2] = u[2]
  BY <1>1, <1>2, <1>14, <1>15, HeadThen
<1>17. Len(todo') > 1
  <2>1. Len(todo') \in Nat /\ Len(u) \in Nat
    BY <1>1, <1>14, TodoTransaction
  <2>2. QED
    BY <1>14, <1>16, <2>1
<1>18. QED
  BY <1>5, <1>14, <1>16, <1>17 DEF b, r

LEMMA OwnedTransaction ==
  ASSUME FilesInv, Transaction
  PROVE  FilesOwned'
<1>1. /\ TypeInv /\ TypeOK /\ Queued(todo) /\ todo \in Seq(Steps)
      /\ FilesOwned /\ FileNext /\ \A x \in Els(todo) : Sound(x)
  BY DEF FilesInv, RefsInv, TypeInv
<1>2. todo # <<>> /\ This \in Steps /\ Sound(This)
  BY <1>1, Puts, HeadTail, ElsTodo
<1>3. crashed' = crashed /\ design' = design /\ att \subseteq Tasks /\ Tasks \subseteq Rows
  BY <1>1, FilesColumns DEF TypeOK, Rows
<1>4. SUFFICES ASSUME ~crashed, ~design.required, design.onDelete # "CASCADE", NEW t \in att'
               PROVE  Exists(t)' \/ ((At("delete file")' \/ At("detach")') /\ This'.t = t)
  BY <1>3 DEF FilesOwned
<1>5. \A x \in att : Exists(x) \/ (This.do \in {"delete file", "detach"} /\ This.t = x)
  BY <1>1, <1>2, <1>4, AtThis DEF FilesOwned
<1>6. row' = row => (Exists(t) => Exists(t)')
  BY DEF Exists
<1>7. CASE DeleteFile
  <2>1. This \in FileSteps /\ This.do = "delete file"
    BY <1>2, <1>7, Doing, StepKinds
  <2> DEFINE a == [do |-> "detach", t |-> This.t]
  <2>2. a \in Steps /\ a.do = "detach" /\ a.t = This.t /\ Then(<<a>>)
    BY <1>7, <2>1, StepMakers DEF FileSteps, DeleteFile
  <2> HIDE DEF a
  <2>3. <<a>> \in Seq(Steps) /\ <<a>> # <<>> /\ <<a>>[1] = a
    BY <2>2
  <2>4. todo' # <<>> /\ This' = a
    BY <1>1, <1>2, <2>2, <2>3, HeadThen
  <2>5. At("detach")'
    BY <2>2, <2>4, AtThis
  <2>6. row' = row /\ att' = att
    BY <1>7 DEF DeleteFile
  <2>7. QED
    BY <1>4, <1>5, <1>6, <2>2, <2>4, <2>5, <2>6
<1>8. CASE Detach
  <2>1. row' = row /\ att' = att \ {This.t}
    BY <1>8 DEF Detach
  <2>2. QED
    BY <1>4, <1>5, <1>6, <2>1
<1>9. CASE Attach
  <2>1. This.do = "attach" /\ row' = row /\ att' = att \cup {This.t}
    BY <1>9, Doing DEF Attach
  <2>2. Exists(This.t)
    BY <1>2, <2>1 DEF Sound
  <2>3. QED
    BY <1>4, <1>5, <1>6, <2>1, <2>2
<1>10. CASE Delete
  <2>1. This.do = "delete" /\ att' = att
    BY <1>10, Doing DEF Delete
  <2>2. Exists(t) /\ t \in Rows
    BY <1>3, <1>4, <1>5, <2>1
  <2>3. CASE t # This.r
    <3>1. row' = [x \in Rows |-> IF x = This.r THEN "gone" ELSE row[x]]
      BY <1>4, <1>10 DEF Delete
    <3>2. QED
      BY <2>2, <2>3, <3>1 DEF Exists
  <2>4. CASE t = This.r
    <3>1. At("delete") /\ This.r \in att
      BY <1>2, <1>4, <2>1, <2>4, AtThis
    <3>2. Len(todo) > 1 /\ todo[2] = [do |-> "delete file", t |-> t]
      BY <1>1, <2>4, <3>1 DEF FileNext
    <3>3. Then(<<>>) /\ <<>> \in Seq(Steps) /\ Len(<<>>) = 0
      BY <1>10, StepSeqs DEF Delete
    <3>4. /\ todo' \in Seq(Steps) /\ Len(todo') = 0 + Len(todo) - 1
          /\ \A i \in 1..Len(todo') : i > 0 => todo'[i] = todo[i - 0 + 1]
      BY <1>1, <1>2, <3>3, ThenSteps
    <3>5. Len(todo) \in Nat /\ 1 \in 1..Len(todo')
      <4>1. Len(todo) \in Nat
        BY <1>1
      <4>2. Len(todo) > 1
        BY <3>2
      <4>3. Len(todo') = Len(todo) - 1
        <5>1. Len(todo') = 0 + Len(todo) - 1
          BY <3>4
        <5>2. QED
          BY <4>1, <5>1
      <4>4. QED
        BY <4>1, <4>2, <4>3
    <3>6. todo'[1] = todo[2] /\ todo' # <<>>
      BY <3>4, <3>5
    <3>7. This' = [do |-> "delete file", t |-> t]
      BY <3>2, <3>4, <3>6, NextThis
    <3>8. This'.do = "delete file" /\ This'.t = t
      BY <3>7
    <3>9. QED
      BY <3>6, <3>8, AtThis
  <2>5. QED
    BY <2>3, <2>4
<1>11. CASE ~DeleteFile /\ ~Detach /\ ~Attach /\ ~Delete
  <2>1. att' = att
    <3>1. CASE SaveFile
      BY <3>1 DEF SaveFile
    <3>2. CASE ~SaveFile
      <4>1. This.do \notin {"delete file", "detach", "save", "attach"}
        BY <1>11, <3>2, Doing
      <4>2. QED
        BY <1>1, <4>1, FilesColumns
    <3>3. QED
      BY <3>1, <3>2
  <2>2. Exists(t) /\ t \in Rows
    <3>1. This.do \notin {"delete file", "detach"}
      BY <1>11, Doing
    <3>2. QED
      BY <1>3, <1>4, <1>5, <2>1, <3>1
  <2>3. CASE This.do \notin Ending
    BY <1>1, <2>2, <2>3, ExistsKept
  <2>4. CASE This.do \in Ending
    <3>1. RemoveRecord \/ ClearFk \/ DropChildren \/ DeleteRefused
      BY <1>11, <2>4, Doing DEF Ending
    <3>2. row' = row
      BY <1>4, <3>1 DEF RemoveRecord, ClearFk, DropChildren, DeleteRefused, data
    <3>3. QED
      BY <1>6, <2>2, <3>2
  <2>5. QED
    BY <2>3, <2>4
<1>12. QED
  BY <1>7, <1>8, <1>9, <1>10, <1>11

MarkOf(r) == [do |-> "mark", r |-> r, state |-> "trash"]
DeleteOf(r) == [do |-> "delete", r |-> r]
FileOf(r) == [do |-> "delete file", t |-> r]
UnlinkOf(p) == [do |-> "unlink", p |-> p]
LooseOf(p) == [do |-> "dissociate", p |-> p]
RippleOf(r) == [do |-> "ripple", r |-> r, ref |-> IF r \in Tasks THEN ref[r] ELSE None]

LEMMA PartsOf ==
  ASSUME NEW r
  PROVE  /\ MarkOf(r).do = "mark" /\ MarkOf(r).r = r /\ MarkOf(r).state = "trash"
         /\ DeleteOf(r).do = "delete" /\ DeleteOf(r).r = r
         /\ FileOf(r).do = "delete file" /\ FileOf(r).t = r
         /\ UnlinkOf(r).do = "unlink" /\ UnlinkOf(r).p = r
         /\ LooseOf(r).do = "dissociate" /\ LooseOf(r).p = r
         /\ RippleOf(r).do = "ripple"
BY DEF MarkOf, DeleteOf, FileOf, UnlinkOf, LooseOf, RippleOf

\* A removal by its parts: a hard one is the row and then its file, a soft one
\* leaves the files alone and dissociates a project before it marks it.
LEMMA RemovalParts ==
  ASSUME TypeOK, NEW r \in Rows
  PROVE  \E last \in {<<>>, <<RippleOf(r)>>} :
           /\ last \in Seq(Steps)
           /\ ~design.soft => /\ DeleteOf(r) \in Steps
                              /\ r \in att => FileOf(r) \in Steps
                              /\ \/ Removal(r) = <<DeleteOf(r)>> \o last
                                 \/ r \in att /\ Removal(r) = <<DeleteOf(r), FileOf(r)>> \o last
           /\ design.soft /\ r \in Tasks => /\ MarkOf(r) \in Steps
                                            /\ Removal(r) = <<MarkOf(r)>> \o last
           /\ design.soft /\ r \in Projects =>
                /\ UnlinkOf(r) \in Steps /\ LooseOf(r) \in Steps /\ MarkOf(r) \in Steps
                /\ Removal(r) = <<UnlinkOf(r), LooseOf(r), MarkOf(r)>> \o last
<1>1. /\ DeleteOf(r) \in Steps /\ MarkOf(r) \in Steps /\ (r \in Tasks => FileOf(r) \in Steps)
      /\ (r \in Projects => UnlinkOf(r) \in Steps /\ LooseOf(r) \in Steps)
  BY StepMakers DEF MarkOf, DeleteOf, FileOf, UnlinkOf, LooseOf
<1>2. PICK last \in {<<>>, <<RippleOf(r)>>} :
        /\ last \in Seq(Steps)
        /\ ~design.soft /\ r \notin att => Removal(r) = <<DeleteOf(r)>> \o last
        /\ ~design.soft /\ r \in att =>
             r \in Tasks /\ Removal(r) = <<DeleteOf(r), FileOf(r)>> \o last
        /\ design.soft /\ r \in Tasks => Removal(r) = <<MarkOf(r)>> \o last
        /\ design.soft /\ r \in Projects =>
             Removal(r) = <<UnlinkOf(r), LooseOf(r), MarkOf(r)>> \o last
  BY RemovalIs DEF MarkOf, DeleteOf, FileOf, UnlinkOf, LooseOf, RippleOf
<1>3. r \in att => r \in Tasks
  BY DEF TypeOK
<1>4. QED
  BY <1>1, <1>2, <1>3

LEMMA RemovalSteps ==
  ASSUME TypeOK, NEW r \in Rows
  PROVE  /\ ~design.soft => Removal(r) # <<>> /\ Removal(r)[1] = DeleteOf(r)
         /\ ~design.soft => /\ DeleteOf(r) \in Els(Removal(r))
                            /\ Els(Removal(r)) \subseteq {DeleteOf(r), FileOf(r), RippleOf(r)}
         /\ design.soft =>
              /\ MarkOf(r) \in Els(Removal(r))
              /\ Els(Removal(r)) \subseteq {MarkOf(r), UnlinkOf(r), LooseOf(r), RippleOf(r)}
<1> DEFINE a == DeleteOf(r)
           b == FileOf(r)
           m == MarkOf(r)
           n == UnlinkOf(r)
           d == LooseOf(r)
           e == RippleOf(r)
           R == Removal(r)
<1>1. PICK last \in {<<>>, <<e>>} :
           /\ last \in Seq(Steps)
           /\ ~design.soft => /\ a \in Steps
                              /\ r \in att => b \in Steps
                              /\ \/ R = <<a>> \o last
                                 \/ r \in att /\ R = <<a, b>> \o last
           /\ design.soft /\ r \in Tasks => m \in Steps /\ R = <<m>> \o last
           /\ design.soft /\ r \in Projects =>
                n \in Steps /\ d \in Steps /\ m \in Steps /\ R = <<n, d, m>> \o last
  BY RemovalParts
<1> HIDE DEF a, b, m, n, d, e, R
<1>2. Els(last) \subseteq {e} /\ last \in Seq(Steps)
  BY <1>1, ElsOf
<1>3. ASSUME NEW x \in Steps
      PROVE  /\ Els(<<x>> \o last) = {x} \cup Els(last)
             /\ <<x>> \o last # <<>> /\ (<<x>> \o last)[1] = x
  <2>1. <<x>> \in Seq(Steps) /\ Els(<<x>>) = {x}
    BY StepSeqs, ElsOf
  <2>2. Els(<<x>> \o last) = Els(<<x>>) \cup Els(last)
    BY <1>2, <2>1, ElsOf
  <2>3. QED
    BY <1>2, <2>1, <2>2, Led
<1>4. ASSUME NEW x \in Steps, NEW y \in Steps
      PROVE  /\ Els(<<x, y>> \o last) = {x, y} \cup Els(last)
             /\ <<x, y>> \o last # <<>> /\ (<<x, y>> \o last)[1] = x
  <2>1. <<x, y>> \in Seq(Steps) /\ Els(<<x, y>>) = {x, y}
    BY StepSeqs, ElsOf
  <2>2. Els(<<x, y>> \o last) = Els(<<x, y>>) \cup Els(last)
    BY <1>2, <2>1, ElsOf
  <2>3. QED
    BY <1>2, <2>1, <2>2, Led
<1>5. ASSUME NEW x \in Steps, NEW y \in Steps, NEW z \in Steps
      PROVE  Els(<<x, y, z>> \o last) = {x, y, z} \cup Els(last)
  <2>1. /\ <<x, y>> \in Seq(Steps) /\ <<z>> \in Seq(Steps)
        /\ Els(<<x, y>>) = {x, y} /\ Els(<<z>>) = {z}
    BY StepSeqs, ElsOf
  <2>2. /\ Els(<<x, y>> \o <<z>>) = Els(<<x, y>>) \cup Els(<<z>>)
        /\ <<x, y>> \o <<z>> \in Seq(Steps) /\ <<x, y>> \o <<z>> = <<x, y, z>>
    <3>1. Els(<<x, y>> \o <<z>>) = Els(<<x, y>>) \cup Els(<<z>>)
      BY <2>1, ElsOf
    <3>2. <<x, y>> \o <<z>> \in Seq(Steps)
      BY <2>1, StepSeqs
    <3>3. <<x, y>> \o <<z>> = <<x, y, z>>
      BY Joined
    <3>4. QED
      BY <3>1, <3>2, <3>3
  <2>3. Els(<<x, y, z>> \o last) = Els(<<x, y, z>>) \cup Els(last)
    BY <1>2, <2>2, ElsOf
  <2>4. QED
    BY <2>1, <2>2, <2>3
<1>6. CASE ~design.soft
  <2>1. CASE R = <<a>> \o last
    BY <1>1, <1>2, <1>3, <1>6, <2>1 DEF R, a, b, e
  <2>2. CASE r \in att /\ R = <<a, b>> \o last
    <3>1. a \in Steps /\ b \in Steps
      BY <1>1, <1>6, <2>2
    <3>2. Els(R) = {a, b} \cup Els(last) /\ R # <<>> /\ R[1] = a
      BY <1>4, <2>2, <3>1
    <3>3. QED
      BY <1>2, <1>6, <3>2 DEF R, a, b, e
  <2>3. QED
    BY <1>1, <1>6, <2>1, <2>2
<1>7. CASE design.soft
  <2>1. CASE r \in Tasks
    <3>1. m \in Steps /\ R = <<m>> \o last
      BY <1>1, <1>7, <2>1
    <3>2. Els(R) = {m} \cup Els(last)
      BY <1>3, <3>1
    <3>3. QED
      BY <1>2, <1>7, <3>2 DEF R, m, e
  <2>2. CASE r \in Projects
    <3>1. n \in Steps /\ d \in Steps /\ m \in Steps /\ R = <<n, d, m>> \o last
      BY <1>1, <1>7, <2>2
    <3>2. Els(R) = {n, d, m} \cup Els(last)
      BY <1>5, <3>1
    <3>3. QED
      BY <1>2, <1>7, <3>2 DEF R, m, n, d, e
  <2>3. QED
    BY <2>1, <2>2 DEF Rows
<1>8. QED
  BY <1>6, <1>7 DEF TypeOK, Designs

LEMMA GoneTransaction ==
  ASSUME FilesInv, Transaction
  PROVE  GoneFirst'
<1>1. TypeInv /\ TypeOK /\ Queued(todo) /\ todo \in Seq(Steps) /\ GoneFirst
  BY DEF FilesInv, RefsInv, TypeInv
<1>2. todo # <<>> /\ This \in Steps /\ (PutBy \/ DeleteRefused)
  BY <1>1, Puts, HeadTail
<1>3. asked' = asked /\ design' = design
  BY <1>1, FilesColumns
<1>4. SUFFICES ASSUME NEW s \in Els(todo'), s.do = "delete file", s.t \in asked
               PROVE  row'[s.t] = "gone" \/ (At("delete")' /\ This'.r = s.t)
  <2>1. Els(todo)' = Els(todo')
    BY DEF Els
  <2>2. QED
    BY <1>3, <1>4, <2>1 DEF GoneFirst
<1>5. PutBy
  <2>1. ~DeleteRefused
    BY <1>1, <1>4, QueueRefused
  <2>2. QED
    BY <1>2, <2>1
<1>6. PICK steps \in Seq(Steps) : Then(steps) /\ \A x \in Els(steps) : Leads(This, x)
  BY <1>5 DEF PutBy
<1>7. s \in Els(steps) \/ s \in Els(Tail(todo))
  BY <1>1, <1>2, <1>6, ElsThen
<1>8. CASE s \in Els(steps)
  <2>1. RemoveLeads(This, s)
    BY <1>4, <1>6, <1>8, LeadsKinds DEF Leads
  <2>2. This.do = "remove"
    BY <2>1 DEF RemoveLeads
  <2> DEFINE r == This.r
  <2>3. s.t = r
    <3>1. [do |-> "delete file", t |-> r].t = r
      OBVIOUS
    <3>2. [do |-> "mark", r |-> r, state |-> "trash"].do # "delete file"
      OBVIOUS
    <3>3. QED
      BY <1>4, <2>1, <3>1, <3>2 DEF RemoveLeads
  <2>4. RemoveRecord /\ r \in Rows
    BY <1>2, <2>2, Doing, StepKinds DEF RowSteps
  <2>5. Then(Removal(r))
    BY <2>4 DEF RemoveRecord
  <2>6. Removal(r) \in Seq(Steps)
    BY <1>1, <2>4, PutRemoval
  <2>7. s \in Els(Removal(r)) \/ s \in Els(Tail(todo))
    BY <1>1, <1>2, <2>5, <2>6, ElsThen
  <2>8. CASE s \in Els(Removal(r))
    <3> DEFINE a == [do |-> "delete", r |-> r]
    <3>1. ~design.soft
      <4>1. \A x \in {MarkOf(r), UnlinkOf(r), LooseOf(r), RippleOf(r)} : x.do # "delete file"
        <5>1. /\ MarkOf(r).do = "mark" /\ UnlinkOf(r).do = "unlink"
              /\ LooseOf(r).do = "dissociate" /\ RippleOf(r).do = "ripple"
          BY PartsOf
        <5> HIDE DEF r
        <5>2. QED
          BY <5>1
      <4>2. r \in Rows
        BY <2>4
      <4> HIDE DEF r
      <4>3. design.soft =>
              Els(Removal(r)) \subseteq {MarkOf(r), UnlinkOf(r), LooseOf(r), RippleOf(r)}
        BY <1>1, <4>2, RemovalSteps
      <4>4. SUFFICES ASSUME design.soft PROVE FALSE
        BY DEF TypeOK, Designs
      <4>5. s \in {MarkOf(r), UnlinkOf(r), LooseOf(r), RippleOf(r)}
        BY <2>8, <4>3, <4>4
      <4>6. QED
        BY <1>4, <4>1, <4>5
    <3>2. Removal(r) # <<>> /\ Removal(r)[1] = a
      BY <1>1, <2>4, <3>1, RemovalSteps DEF DeleteOf
    <3>3. todo' # <<>> /\ This' = a
      BY <1>1, <1>2, <2>5, <2>6, <3>2, HeadThen
    <3>4. This'.do = "delete" /\ This'.r = r
      BY <3>3
    <3>5. QED
      BY <2>3, <3>3, <3>4, AtThis
  <2>9. CASE s \in Els(Tail(todo))
    <3>1. Behind(This, s)
      BY <1>1, <1>2, <2>9, Followers
    <3>2. QED
      BY <1>4, <2>2, <3>1 DEF Behind
  <2>10. QED
    BY <2>7, <2>8, <2>9
<1>9. CASE s \in Els(Tail(todo))
  <2>1. s \in Els(todo) /\ s \in Steps
    BY <1>1, <1>2, <1>9, Followers
  <2>2. s.t \in Rows
    BY <1>4, <2>1, StepKinds DEF FileSteps, Rows
  <2>3. row[s.t] = "gone" \/ (At("delete") /\ This.r = s.t)
    BY <1>1, <1>4, <2>1 DEF GoneFirst
  <2>4. CASE row[s.t] = "gone"
    BY <1>1, <2>2, <2>4, GoneStays
  <2>5. CASE At("delete") /\ This.r = s.t
    <3>1. Delete
      <4>1. This.do = "delete"
        BY <2>5, AtThis
      <4>2. ~DeleteRefused
        BY <1>1, <1>4, QueueRefused
      <4>3. QED
        BY <4>1, <4>2, Doing
    <3>2. row'[This.r] = "gone"
      BY <2>2, <2>5, <3>1 DEF Delete
    <3>3. QED
      BY <2>5, <3>2
  <2>6. QED
    BY <2>3, <2>4, <2>5
<1>10. QED
  BY <1>7, <1>8, <1>9

\* Rows that are asked to go: each has its removal, or one is destroyed.
LEMMA StartAsked ==
  ASSUME TypeInv, Start
  PROVE  \/ asked' = {}
         \/ DestroyRecord
         \/ /\ pair' = <<>>
            /\ \A s \in Els(todo') : s.do = "remove" /\ s.r \in asked'
            /\ \A r \in asked' : \E s \in Els(todo') : s.do = "remove" /\ s.r = r
<1>1. CASE ApiDelete \/ DeleteRecords
  <2>1. PICK S \in ((SUBSET Tasks) \cup {{p} : p \in Projects} \cup {Projects}) \ {{}} :
          /\ todo' = [i \in 1..Cardinality(S) |-> [do |-> "remove", r |-> SetToSeq(S)[i]]]
          /\ asked' = S /\ pair' = <<>>
    BY <1>1 DEF ApiDelete, DeleteRecords, Request
  <2>2. /\ \A i \in 1..Len(todo') : todo'[i].do = "remove" /\ todo'[i].r \in S
        /\ \A x \in S : \E i \in 1..Len(todo') : todo'[i].r = x
    <3> DEFINE u == [i \in 1..Cardinality(S) |-> [do |-> "remove", r |-> SetToSeq(S)[i]]]
    <3>1. TypeOK /\ S \in (SUBSET Tasks) \cup {{p} : p \in Projects} \cup {Projects}
      BY DEF TypeInv
    <3>2. todo' = u /\ u = [i \in 1..Cardinality(S) |-> [do |-> "remove", r |-> SetToSeq(S)[i]]]
      BY <2>1
    <3> HIDE DEF u
    <3>3. Asks(u, S)
      BY <3>1, <3>2, RemovalsListed
    <3>4. QED
      BY <3>2, <3>3 DEF Asks
  <2>3. \A s \in Els(todo') : s.do = "remove" /\ s.r \in S
    BY <2>2 DEF Els
  <2>4. \A x \in S : \E s \in Els(todo') : s.do = "remove" /\ s.r = x
    BY <2>2 DEF Els
  <2>5. QED
    BY <2>1, <2>3, <2>4
<1>2. CASE ~ApiDelete /\ ~DeleteRecords
  BY <1>2 DEF Start, CreateTask, CreateProject, EditTask, EditProject, BulkEdit, ApiCreate,
     ApiUpdate, AssignToMe, RestoreRecord, MergeProjects, ImportTasks
<1>3. QED
  BY <1>1, <1>2

LEMMA FilesStart ==
  ASSUME FilesInv, Start
  PROVE  FilesPaired' /\ FilesOwned' /\ FileNext' /\ GoneFirst'
<1>1. TypeInv /\ TypeOK /\ FilesPaired /\ FilesOwned
  BY DEF FilesInv, RefsInv, TypeInv
<1>2. todo = <<>> /\ todo' \in Seq(Steps)
  BY <1>1, Starts DEF Idle
<1>3. design' = design /\ att' = att /\ disk' = disk /\ crashed' = crashed
  BY <1>1, StartKeeps, ColumnsStart
<1>4. ~At("detach") /\ ~At("attach") /\ ~At("delete file") /\ ~At("delete")
  BY <1>2 DEF At
<1>5. \A s \in Els(todo') : s.do \notin {"detach", "attach"}
  BY <1>1, StartSteps DEF Begins
<1>6. ~At("detach")' /\ ~At("attach")'
  BY <1>2, <1>5, NextThis, AtThis
<1>7. FilesPaired'
  BY <1>1, <1>3, <1>4, <1>6 DEF FilesPaired
<1>8. FilesOwned'
  <2>1. \A t \in att : t \in Rows /\ (Exists(t) => Exists(t)')
    BY <1>1, RowsKeptStart DEF TypeOK, Rows, Exists
  <2>2. SUFFICES ASSUME ~crashed, ~design.required, design.onDelete # "CASCADE", NEW t \in att
                 PROVE  Exists(t)'
    BY <1>3 DEF FilesOwned
  <2>3. QED
    BY <1>1, <1>4, <2>1, <2>2 DEF FilesOwned
<1>9. CASE DestroyRecord
  <2>1. PICK r \in Rows :
           /\ row[r] = "trash" /\ asked' = {r}
           /\ \/ r \notin att /\ todo' = <<[do |-> "delete", r |-> r]>>
              \/ r \in att /\ todo' = <<[do |-> "delete", r |-> r],
                                        [do |-> "delete file", t |-> r]>>
    BY <1>1, <1>9, Destroyed
  <2> DEFINE a == [do |-> "delete", r |-> r]
             b == [do |-> "delete file", t |-> r]
  <2>2. a.do = "delete" /\ a.r = r /\ b.do = "delete file"
    OBVIOUS
  <2>3. \/ r \notin att /\ todo' = <<a>>
        \/ r \in att /\ todo' = <<a, b>>
    BY <2>1
  <2> HIDE DEF a, b
  <2>4. todo' # <<>> /\ todo'[1] = a
    BY <2>3
  <2>5. At("delete")' /\ This'.r = r
    BY <1>2, <2>2, <2>4, NextThis, AtThis
  <2>6. GoneFirst'
    <3>1. Els(todo)' = Els(todo')
      BY DEF Els
    <3>2. QED
      BY <2>1, <2>5, <3>1 DEF GoneFirst
  <2>7. r \in att => Len(todo') > 1 /\ todo'[2] = b
    BY <2>3
  <2>8. FileNext'
    BY <1>3, <2>5, <2>7 DEF FileNext, b
  <2>9. QED
    BY <1>7, <1>8, <2>6, <2>8
<1>10. CASE ~DestroyRecord
  <2>1. \A s \in Els(todo') : s.do # "delete"
    BY <1>1, <1>10, StartSteps DEF Begins
  <2>2. ~At("delete")'
    BY <1>2, <2>1, NextThis, AtThis
  <2>3. \A s \in Els(todo') : ~ (s.do = "delete file" /\ s.t \in asked')
    BY <1>1, <1>10, StartAsked
  <2>4. GoneFirst'
    <3>1. Els(todo)' = Els(todo')
      BY DEF Els
    <3>2. QED
      BY <2>3, <3>1 DEF GoneFirst
  <2>5. FileNext'
    BY <2>2 DEF FileNext
  <2>6. QED
    BY <1>7, <1>8, <2>4, <2>5
<1>11. QED
  BY <1>9, <1>10

LEMMA FilesInit == Init => FilesInv
<1> SUFFICES ASSUME Init PROVE FilesInv
  OBVIOUS
<1>1. RefsInv /\ todo = <<>> /\ asked = {}
  BY RefsInit DEF Init
<1>2. PICK old \in {{}, Projects}, first \in SUBSET Tasks :
        /\ row = [r \in Rows |-> IF r \in old \cup first THEN "live" ELSE "unused"]
        /\ att = first /\ disk = first
  BY DEF Init
<1>3. \A t \in att : Exists(t)
  BY <1>2 DEF Exists, Rows
<1>4. ~At("detach") /\ ~At("attach") /\ ~At("delete file") /\ ~At("delete")
  BY <1>1 DEF At
<1>5. QED
  BY <1>1, <1>2, <1>3, <1>4 DEF FilesInv, FilesPaired, FilesOwned, FileNext, GoneFirst

LEMMA FilesNext == FilesInv /\ [Next]_vars => FilesInv'
<1> SUFFICES ASSUME FilesInv, [Next]_vars PROVE FilesInv'
  OBVIOUS
<1>1. RefsInv'
  BY RefsNext DEF FilesInv
<1>2. FilesPaired' /\ FilesOwned' /\ FileNext' /\ GoneFirst'
  <2>1. CASE Transaction
    BY <2>1, PairedTransaction, OwnedTransaction, FileNextTransaction, GoneTransaction
  <2>2. CASE Start
    BY <2>2, FilesStart
  <2>3. CASE Crash
    <3>1. todo' = <<>> /\ crashed' = TRUE
      BY <2>3 DEF Crash
    <3>2. ~At("delete")' /\ Els(todo)' = {}
      <4>1. Els(todo)' = Els(todo')
        BY DEF Els
      <4>2. QED
        BY <3>1, <4>1, ElsOf DEF At
    <3>3. QED
      BY <3>1, <3>2 DEF FilesPaired, FilesOwned, FileNext, GoneFirst
  <2>4. CASE Rest \/ UNCHANGED vars
    <3>1. UNCHANGED vars
      BY <2>4 DEF Rest
    <3>2. /\ todo' = todo /\ row' = row /\ att' = att /\ disk' = disk /\ asked' = asked
          /\ crashed' = crashed /\ design' = design
      BY <3>1 DEF vars
    <3>3. FilesPaired' /\ FileNext'
      BY <3>2 DEF FilesInv, FilesPaired, FileNext, At, This
    <3>4. FilesOwned'
      BY <3>2 DEF FilesInv, FilesOwned, At, This, Exists
    <3>5. GoneFirst'
      BY <3>2 DEF FilesInv, GoneFirst, At, This, Els
    <3>6. QED
      BY <3>3, <3>4, <3>5
  <2>5. QED
    BY <2>1, <2>2, <2>3, <2>4 DEF Next
<1>3. QED
  BY <1>1, <1>2 DEF FilesInv

\* A file leaves the disk only as the transaction under way.
LEMMA FileLast ==
  ASSUME FilesInv, [Next]_vars, NEW t \in asked \cap disk, t \notin disk'
  PROVE  row[t] = "gone"
<1>1. TypeInv /\ TypeOK /\ todo \in Seq(Steps) /\ GoneFirst
  BY DEF FilesInv, RefsInv, TypeInv
<1>2. CASE Transaction
  <2>1. todo # <<>>
    BY <1>2, Doing
  <2>2. CASE DeleteFile
    <3>1. This.t = t /\ This.do = "delete file" /\ This \in Els(todo)
      BY <1>1, <1>2, <2>1, <2>2, Doing, ElsTodo DEF DeleteFile
    <3>2. ~At("delete")
      BY <3>1 DEF At, This
    <3>3. QED
      BY <1>1, <3>1, <3>2 DEF GoneFirst
  <2>3. CASE Detach \/ SaveFile \/ Attach
    BY <2>3 DEF Detach, SaveFile, Attach
  <2>4. CASE ~DeleteFile /\ ~Detach /\ ~SaveFile /\ ~Attach
    <3>1. This.do \notin {"delete file", "detach", "save", "attach"}
      BY <1>2, <2>4, Doing
    <3>2. QED
      BY <1>1, <1>2, <3>1, FilesColumns
  <2>5. QED
    BY <2>2, <2>3, <2>4
<1>3. CASE Start
  BY <1>1, <1>3, StartKeeps
<1>4. CASE Crash \/ Rest \/ UNCHANGED vars
  BY <1>4 DEF Crash, Rest, vars, data
<1>5. QED
  BY <1>2, <1>3, <1>4 DEF Next

\* Files follow their records, and go after them: whatever requests come and
\* wherever they die, no record that is being deleted is left with an attachment
\* that cannot be opened.
THEOREM FilesKeptHolds == Spec => FilesKept
<1>1. FilesInv => FilesFollowRows
  <2> SUFFICES ASSUME FilesInv, Idle, ~crashed
               PROVE  /\ att = disk
                      /\ ~design.required /\ design.onDelete # "CASCADE" =>
                           \A t \in att : Exists(t)
    BY DEF FilesFollowRows
  <2>1. ~At("detach") /\ ~At("attach") /\ ~At("delete file")
    BY DEF Idle, At
  <2>2. QED
    BY <2>1 DEF FilesInv, FilesPaired, FilesOwned
<1>2. FilesInv /\ [Next]_vars => RecordGoesFirst
  BY FileLast DEF RecordGoesFirst
<1>3. QED
  BY <1>1, <1>2, FilesInit, FilesNext, PTL DEF Spec, FilesKept

-----------------------------------------------------------------------------
(* Removals. *)

TrashMark(s) == s.do = "mark" /\ s.state = "trash" /\ s.r \in Projects

\* A project that waits for its mark has been dissociated, or is being.
DetachInv ==
    \A i \in 1..Len(todo) : TrashMark(todo[i]) =>
        LET p == todo[i].r IN
        \/ i = 3 /\ todo[1] = UnlinkOf(p) /\ todo[2] = LooseOf(p)
        \/ i = 2 /\ todo[1] = LooseOf(p) /\ TagsOf(p) = {}
        \/ i = 1 /\ TagsOf(p) = {} /\ Children(p) = {}

LEMMA RemovalMarks ==
  ASSUME TypeOK, NEW r \in Rows, Removal(r) \in Seq(Steps), NEW i \in 1..Len(Removal(r)),
         TrashMark(Removal(r)[i])
  PROVE  /\ i = 3 /\ Removal(r)[3].r = r
         /\ Removal(r)[1] = UnlinkOf(r) /\ Removal(r)[2] = LooseOf(r)
<1> DEFINE R == Removal(r)
           n == UnlinkOf(r)
           d == LooseOf(r)
           m == MarkOf(r)
           e == RippleOf(r)
<1>1. R[i] \in Els(R)
  BY DEF Els
<1>2. /\ n.do = "unlink" /\ d.do = "dissociate" /\ e.do = "ripple"
      /\ m.do = "mark" /\ m.r = r
  BY PartsOf
<1>3. design.soft /\ R[i] = m
  <2>1. DeleteOf(r).do = "delete" /\ FileOf(r).do = "delete file"
    BY PartsOf
  <2>2. ~design.soft => R[i] \in {DeleteOf(r), FileOf(r), e}
    BY <1>1, RemovalSteps
  <2>3. design.soft => R[i] \in {m, n, d, e}
    BY <1>1, RemovalSteps
  <2>4. R[i].do = "mark"
    BY DEF TrashMark
  <2> HIDE DEF R, n, d, m, e
  <2>5. design.soft
    <3>1. R[i] # DeleteOf(r) /\ R[i] # FileOf(r) /\ R[i] # e
      BY <1>2, <2>1, <2>4
    <3>2. QED
      BY <2>2, <3>1 DEF TypeOK, Designs
  <2>6. R[i] = m
    <3>1. R[i] # n /\ R[i] # d /\ R[i] # e
      BY <1>2, <2>4
    <3>2. QED
      BY <2>3, <2>5, <3>1
  <2>7. QED
    BY <2>5, <2>6
<1>4. r \in Projects
  BY <1>2, <1>3 DEF TrashMark
<1>5. PICK last \in {<<>>, <<e>>} :
        /\ last \in Seq(Steps) /\ n \in Steps /\ d \in Steps /\ m \in Steps
        /\ R = <<n, d, m>> \o last
  BY <1>3, <1>4, RemovalParts
<1> HIDE DEF R, n, d, m, e
<1>6. /\ Len(<<n, d, m>> \o last) = 3 + Len(last)
      /\ (<<n, d, m>> \o last)[1] = n /\ (<<n, d, m>> \o last)[2] = d
      /\ (<<n, d, m>> \o last)[3] = m
  BY <1>5, Led
<1>7. Len(R) = 3 + Len(last) /\ R[1] = n /\ R[2] = d /\ R[3] = m
  BY <1>5, <1>6
<1>8. CASE last = <<>>
  <2>1. Len(R) = 3
    BY <1>7, <1>8
  <2>2. i \in 1..3
    BY <2>1 DEF R
  <2>3. i = 3
    BY <1>2, <1>3, <1>7, <2>2
  <2>4. QED
    BY <1>2, <1>7, <2>3 DEF R, n, d
<1>9. CASE last = <<e>>
  <2>1. Len(R) = 4
    BY <1>7, <1>9
  <2>2. i \in 1..4
    BY <2>1 DEF R
  <2>3. R[4] = e
    <3> DEFINE x == <<n, d, m>>
    <3>1. x \in Seq(Steps) /\ Len(x) = 3 /\ last \in Seq(Steps)
      BY <1>5
    <3>2. Len(last) = 1 /\ last[1] = e /\ R = x \o last
      BY <1>5, <1>9
    <3> HIDE DEF x
    <3>3. \A k \in 1..Len(last) : (x \o last)[Len(x) + k] = last[k]
      BY <3>1, After
    <3>4. 1 \in 1..Len(last) /\ Len(x) + 1 = 4
      BY <3>1, <3>2
    <3>5. (x \o last)[4] = last[1]
      BY <3>3, <3>4
    <3>6. QED
      BY <3>2, <3>5
  <2>4. i = 3
    BY <1>2, <1>3, <1>7, <2>2, <2>3
  <2>5. QED
    BY <1>2, <1>7, <2>4 DEF R, n, d
<1>10. QED
  BY <1>5, <1>8, <1>9

LEMMA DetachTransaction ==
  ASSUME TypeInv, Queued(todo), DetachInv, Transaction
  PROVE  DetachInv'
<1>1. TypeOK /\ todo \in Seq(Steps)
  BY DEF TypeInv
<1>2. todo # <<>> /\ (PutBy \/ DeleteRefused) /\ This \in Steps /\ This = todo[1]
      /\ Len(todo) \in Nat \ {0}
  BY <1>1, Puts, HeadTail
<1>3. SUFFICES ASSUME NEW i \in 1..Len(todo'), TrashMark(todo'[i]), NEW p, p = todo'[i].r
               PROVE  \/ i = 3 /\ todo'[1] = UnlinkOf(p) /\ todo'[2] = LooseOf(p)
                      \/ i = 2 /\ todo'[1] = LooseOf(p) /\ TagsOf(p)' = {}
                      \/ i = 1 /\ TagsOf(p)' = {} /\ Children(p)' = {}
  BY DEF DetachInv, TrashMark, TagsOf, Children, UnlinkOf, LooseOf, Exists
<1>4. todo'[i].do = "mark"
  BY <1>3 DEF TrashMark
<1>5. PutBy
  <2>1. todo'[i] \in Els(todo')
    BY DEF Els
  <2>2. ~DeleteRefused
    BY <1>1, <1>4, <2>1, QueueRefused
  <2>3. QED
    BY <1>2, <2>2
<1>6. PICK steps \in Seq(Steps) : Then(steps) /\ \A x \in Els(steps) : Leads(This, x)
  BY <1>5 DEF PutBy
<1>7. CASE RemoveRecord
  <2> DEFINE u == Removal(This.r)
             n == Len(u)
  <2>1. This.r \in Rows /\ u \in Seq(Steps) /\ Then(u)
    BY <1>1, <1>2, <1>7, Doing, StepKinds, PutRemoval DEF RowSteps, RemoveRecord
  <2>2. /\ Len(todo') = n + Len(todo) - 1
        /\ \A j \in 1..n : todo'[j] = u[j]
        /\ \A j \in 1..Len(todo') : j > n => todo'[j] = todo[j - n + 1]
    BY <1>1, <1>2, <2>1, ThenSteps
  <2>3. n \in Nat
    BY <2>1
  <2>4. CASE i <= n
    <3>1. i \in 1..n /\ TrashMark(u[i])
      BY <1>3, <2>2, <2>3, <2>4
    <3>2. i = 3 /\ u[3].r = This.r /\ u[1] = UnlinkOf(This.r) /\ u[2] = LooseOf(This.r)
      BY <1>1, <2>1, <3>1, RemovalMarks
    <3>3. todo'[3] = u[3] /\ todo'[1] = u[1] /\ todo'[2] = u[2]
      BY <2>2, <2>3, <3>1, <3>2
    <3>4. QED
      BY <1>3, <3>2, <3>3
  <2>5. CASE i > n
    <3> HIDE DEF u, n
    <3>1. todo'[i] = todo[i - n + 1] /\ i - n + 1 \in 2..Len(todo)
      BY <1>2, <2>2, <2>3, <2>5
    <3>2. todo'[i] \in Els(Tail(todo))
      BY <1>1, <1>2, <3>1, ElsTodo
    <3>3. Behind(This, todo'[i])
      BY <1>1, <1>2, <3>2, Followers
    <3>4. QED
      BY <1>4, <1>7, <3>3, Doing DEF Behind
  <2>6. QED
    BY <2>3, <2>4, <2>5
<1>8. CASE ~RemoveRecord
  <2> DEFINE n == Len(steps)
             j == i - n + 1
  <2>1. /\ Len(todo') = n + Len(todo) - 1
        /\ \A k \in 1..n : todo'[k] = steps[k]
        /\ \A k \in 1..Len(todo') : k > n => todo'[k] = todo[k - n + 1]
    BY <1>1, <1>2, <1>6, ThenSteps
  <2>2. n \in Nat
    OBVIOUS
  <2>3. i > n
    <3>1. SUFFICES ASSUME i <= n PROVE FALSE
      BY <2>2
    <3>2. i \in 1..n
      BY <2>2, <3>1
    <3>3. todo'[i] = steps[i] /\ steps[i] \in Els(steps)
      BY <2>1, <3>2 DEF Els
    <3>4. This.do = "remove"
      BY <1>4, <1>6, <3>3, LeadsMark
    <3>5. QED
      BY <1>8, <3>4, Doing
  <2> HIDE DEF n
  <2>4. j \in 2..Len(todo) /\ j \in 1..Len(todo) /\ todo'[i] = todo[j]
    BY <1>2, <2>1, <2>2, <2>3
  <2> HIDE DEF j
  <2>5. \/ j = 3 /\ todo[1] = UnlinkOf(p) /\ todo[2] = LooseOf(p)
        \/ j = 2 /\ todo[1] = LooseOf(p) /\ TagsOf(p) = {}
    <3>1. TrashMark(todo[j]) /\ j # 1 /\ p = todo[j].r
      BY <1>3, <2>4
    <3>2. QED
      BY <2>4, <3>1 DEF DetachInv
  <2>6. CASE j = 3 /\ todo[1] = UnlinkOf(p) /\ todo[2] = LooseOf(p)
    <3>1. This.do = "unlink" /\ This.p = p
      <4>1. UnlinkOf(p).do = "unlink" /\ UnlinkOf(p).p = p
        BY PartsOf
      <4>2. This = UnlinkOf(p)
        BY <1>2, <2>6
      <4>3. QED
        BY <4>1, <4>2
    <3>2. Unlink
      BY <3>1, Doing
    <3>3. Then(<<>>) /\ link' = {l \in link : l[1] # p}
      BY <3>1, <3>2 DEF Unlink
    <3>4. /\ Len(todo') = 0 + Len(todo) - 1
          /\ \A k \in 1..Len(todo') : k > 0 => todo'[k] = todo[k - 0 + 1]
      <4>1. <<>> \in Seq(Steps) /\ Len(<<>>) = 0
        BY StepSeqs
      <4>2. QED
        BY <1>1, <1>2, <3>3, <4>1, ThenSteps
    <3>5. Len(todo') = Len(todo) - 1
      <4>1. Len(todo') = 0 + Len(todo) - 1
        BY <3>4
      <4>2. QED
        BY <1>2, <4>1
    <3>6. n = 0
      BY <1>2, <2>1, <2>2, <3>5
    <3>7. i = 2 /\ 1 \in 1..Len(todo')
      BY <2>2, <2>4, <2>6, <3>5, <3>6 DEF j
    <3>8. todo'[1] = todo[2]
      <4>1. todo'[1] = todo[1 - 0 + 1]
        BY <3>4, <3>7
      <4>2. QED
        BY <4>1
    <3>9. TagsOf(p)' = {}
      BY <3>3 DEF TagsOf
    <3>10. QED
      BY <2>4, <2>6, <3>7, <3>8, <3>9
  <2>7. CASE j = 2 /\ todo[1] = LooseOf(p) /\ TagsOf(p) = {}
    <3>1. This.do = "dissociate" /\ This.p = p
      <4>1. LooseOf(p).do = "dissociate" /\ LooseOf(p).p = p
        BY PartsOf
      <4>2. This = LooseOf(p)
        BY <1>2, <2>7
      <4>3. QED
        BY <4>1, <4>2
    <3>2. ClearFk \/ DropChildren
      BY <3>1, Doing
    <3>3. Then(<<>>) /\ link' = link
      BY <3>2 DEF ClearFk, DropChildren
    <3>4. Len(todo') = 0 + Len(todo) - 1
      <4>1. <<>> \in Seq(Steps) /\ Len(<<>>) = 0
        BY StepSeqs
      <4>2. QED
        BY <1>1, <1>2, <3>3, <4>1, ThenSteps
    <3>5. n = 0
      BY <1>2, <2>1, <2>2, <3>4
    <3>6. i = 1
      BY <2>2, <2>4, <2>7, <3>5 DEF j
    <3>7. TagsOf(p)' = {}
      BY <2>7, <3>3 DEF TagsOf
    <3>8. Children(p)' = {}
      <4>1. /\ \A t \in Tasks : t \in Rows
            /\ p \in Projects /\ None \notin Projects
        BY <1>3, <2>4, RecordsAssumption DEF Rows, TrashMark
      <4>2. CASE ClearFk
        <5>1. /\ ref' = [t \in Tasks |-> IF t \in Children(p) THEN None ELSE ref[t]]
              /\ row' = row
          BY <3>1, <4>2 DEF ClearFk
        <5>2. QED
          BY <4>1, <5>1 DEF Children, Exists
      <4>3. CASE DropChildren
        <5>1. /\ row' = [x \in Rows |-> IF x \in Children(p) THEN "gone" ELSE row[x]]
              /\ ref' = ref
          BY <3>1, <4>3 DEF DropChildren
        <5>2. QED
          BY <4>1, <5>1 DEF Children, Exists
      <4>4. QED
        BY <3>2, <4>2, <4>3
    <3>9. QED
      BY <2>4, <3>6, <3>7, <3>8
  <2>8. QED
    BY <2>5, <2>6, <2>7
<1>9. QED
  BY <1>7, <1>8

LEMMA DetachNext == TypeInv /\ Queued(todo) /\ DetachInv /\ [Next]_vars => DetachInv'
<1> SUFFICES ASSUME TypeInv, Queued(todo), DetachInv, [Next]_vars PROVE DetachInv'
  OBVIOUS
<1>1. CASE Transaction
  BY <1>1, DetachTransaction
<1>2. CASE Start
  <2>1. \A s \in Els(todo') : ~TrashMark(s)
    BY <1>2, StartSteps DEF Begins, TrashMark
  <2>2. \A i \in 1..Len(todo') : ~TrashMark(todo'[i])
    BY <2>1 DEF Els
  <2>3. QED
    BY <2>2 DEF DetachInv, TrashMark
<1>3. CASE Crash
  <2>1. todo' = <<>> /\ \A i \in 1..Len(<<>>) : FALSE
    BY <1>3 DEF Crash
  <2>2. QED
    BY <2>1 DEF DetachInv
<1>4. CASE Rest \/ UNCHANGED vars
  <2>1. UNCHANGED vars
    BY <1>4 DEF Rest
  <2>2. QED
    BY <2>1 DEF vars, DetachInv, TrashMark, TagsOf, Children, Exists, UnlinkOf, LooseOf
<1>5. QED
  BY <1>1, <1>2, <1>3, <1>4 DEF Next

\* Projects reach the trash by their mark alone.
LEMMA Detached ==
  ASSUME TypeInv, DetachInv, [Next]_vars, NEW p \in Projects,
         row[p] = "live", row'[p] = "trash"
  PROVE  Children(p) = {} /\ TagsOf(p) = {}
<1>1. /\ row \in [Rows -> {"unused", "live", "trash", "gone"}] /\ p \in Rows
      /\ todo \in Seq(Steps)
  BY DEF TypeInv, TypeOK, Rows
<1>2. CASE Mark
  <2>1. Transaction
    BY <1>2 DEF Transaction
  <2>2. /\ todo # <<>> /\ This.do = "mark" /\ This = todo[1] /\ Len(todo) \in Nat \ {0}
    BY <1>1, <2>1, <1>2, Doing, HeadTail
  <2>3. row' = IF Exists(This.r) THEN [row EXCEPT ![This.r] = This.state] ELSE row
    BY <1>2 DEF Mark
  <2>4. This.r = p /\ This.state = "trash"
    BY <1>1, <2>3
  <2>5. 1 \in 1..Len(todo) /\ TrashMark(todo[1]) /\ todo[1].r = p
    BY <2>2, <2>4 DEF TrashMark
  <2>6. TagsOf(todo[1].r) = {} /\ Children(todo[1].r) = {}
    <3>1. PICK i \in 1..Len(todo) : i = 1
      BY <2>5
    <3>2. TrashMark(todo[i]) /\ i # 2 /\ i # 3
      BY <2>5, <3>1
    <3>3. TagsOf(todo[i].r) = {} /\ Children(todo[i].r) = {}
      BY <3>2 DEF DetachInv
    <3>4. QED
      BY <3>1, <3>3
  <2>7. QED
    BY <2>5, <2>6
<1>3. CASE Insert \/ DropChildren \/ Delete
  BY <1>1, <1>3 DEF Insert, DropChildren, Delete
<1>4. CASE Transaction /\ ~Insert /\ ~Mark /\ ~DropChildren /\ ~Delete
  BY <1>4 DEF Transaction, WriteTask, WriteProject, EditCell, RunRule, SkipRule, FireDone,
     Ripple, RefreshOne, RefreshDone, SetLinks, Unlink, ClearFk, RemoveRecord, DeleteRefused,
     DeleteFile, Detach, SaveFile, Attach, Repoint, data
<1>5. CASE Start
  BY <1>1, <1>5, RowsKeptStart DEF Exists
<1>6. CASE Crash \/ Rest \/ UNCHANGED vars
  BY <1>6 DEF Crash, Rest, vars, data
<1>7. QED
  BY <1>2, <1>3, <1>4, <1>5, <1>6 DEF Next

\* The steps of a request that was asked to remove rows.
AskedStep(s) ==
    /\ s.do \in {"remove", "delete", "mark", "unlink", "dissociate", "delete file", "detach",
                 "ripple", "refresh"}
    /\ s.do \in {"remove", "delete", "mark"} => s.r \in asked
    /\ s.do = "mark" => s.state = "trash"
    /\ s.do \in {"mark", "unlink", "dissociate"} => design.soft

AskedSteps == asked # {} => \A s \in Els(todo) : AskedStep(s)

AskedAlike == asked \subseteq Projects \/ asked \subseteq Tasks

\* A row that is kept in the trash is deleted when it alone is asked for, and is
\* not in view.
DeleteAlone ==
    \A s \in Els(todo) : s.do = "delete" /\ design.soft => row[s.r] # "live" /\ asked = {s.r}

\* A step that takes row r out of view is still to come.
Pending(r) ==
    \E s \in Els(todo) :
        s.do \in {"remove", "delete", "mark"} /\ s.r = r

AskedPending ==
    ~crashed => \A r \in asked :
        row[r] = "live" => Pending(r) \/ (~design.soft /\ Restricted(r))

RemovalsInv ==
    RefsInv /\ DetachInv /\ AskedAlike /\ AskedSteps /\ DeleteAlone /\ AskedPending

\* What a removal puts first.
LEMMA RemovalAsked ==
  ASSUME TypeOK, NEW r \in Rows, NEW s \in Els(Removal(r))
  PROVE  /\ s.do \in {"delete", "mark", "unlink", "dissociate", "delete file", "ripple"}
         /\ s.do = "delete" => s.r = r /\ ~design.soft
         /\ s.do = "mark" => s.r = r /\ s.state = "trash"
         /\ s.do \in {"mark", "unlink", "dissociate"} => design.soft
<1> DEFINE a == DeleteOf(r)
           b == FileOf(r)
           m == MarkOf(r)
           n == UnlinkOf(r)
           d == LooseOf(r)
           e == RippleOf(r)
<1>1. /\ m.do = "mark" /\ m.r = r /\ m.state = "trash"
      /\ a.do = "delete" /\ a.r = r
      /\ b.do = "delete file" /\ n.do = "unlink" /\ d.do = "dissociate" /\ e.do = "ripple"
  BY PartsOf
<1>2. ~design.soft => s = a \/ s = b \/ s = e
  BY RemovalSteps
<1>3. design.soft => s = m \/ s = n \/ s = d \/ s = e
  BY RemovalSteps
<1>4. design.soft \/ ~design.soft
  OBVIOUS
<1> HIDE DEF a, b, m, n, d, e
<1>5. CASE ~design.soft
  BY <1>1, <1>2, <1>5
<1>6. CASE design.soft
  BY <1>1, <1>3, <1>6
<1>7. QED
  BY <1>4, <1>5, <1>6

\* What is left to do after a transaction, one by one.
LEMMA NextEls ==
  ASSUME TypeInv, Queued(todo), Transaction
  PROVE  /\ \A s \in Els(todo') :
              \/ s \in Els(Tail(todo)) /\ s \in Els(todo) /\ Behind(This, s) /\ ~DeleteRefused
              \/ s \in Els(todo) /\ s.do = "remove" /\ DeleteRefused
              \/ ~RemoveRecord /\ Leads(This, s)
              \/ RemoveRecord /\ This.r \in Rows /\ s \in Els(Removal(This.r))
         /\ ~DeleteRefused => Els(Tail(todo)) \subseteq Els(todo')
         /\ DeleteRefused => {s \in Els(todo) : s.do = "remove"} \subseteq Els(todo')
         /\ RemoveRecord => Els(Removal(This.r)) \subseteq Els(todo')
<1>1. /\ todo \in Seq(Steps) /\ todo # <<>> /\ (PutBy \/ DeleteRefused) /\ This \in Steps
      /\ TypeOK
  BY Puts, HeadTail DEF TypeInv
<1>2. CASE DeleteRefused
  <2>1. Els(todo') = {s \in Els(todo) : s.do = "remove"} /\ This.do = "delete"
    BY <1>1, <1>2, QueueRefused, Doing
  <2>2. ~RemoveRecord
    BY <2>1, Doing
  <2>3. QED
    BY <1>2, <2>1, <2>2
<1>3. CASE ~DeleteRefused /\ RemoveRecord
  <2>1. This.r \in Rows /\ Removal(This.r) \in Seq(Steps) /\ Then(Removal(This.r))
    BY <1>1, <1>3, Doing, StepKinds, PutRemoval DEF RowSteps, RemoveRecord
  <2>2. Els(todo') = Els(Removal(This.r)) \cup Els(Tail(todo))
    BY <1>1, <2>1, ElsThen
  <2>3. \A s \in Els(Tail(todo)) : Behind(This, s) /\ s \in Els(todo)
    BY <1>1, Followers
  <2>4. QED
    BY <1>3, <2>1, <2>2, <2>3
<1>4. CASE ~DeleteRefused /\ ~RemoveRecord
  <2>1. PICK steps \in Seq(Steps) : Then(steps) /\ \A s \in Els(steps) : Leads(This, s)
    BY <1>1, <1>4 DEF PutBy
  <2>2. Els(todo') = Els(steps) \cup Els(Tail(todo))
    BY <1>1, <2>1, ElsThen
  <2>3. \A s \in Els(Tail(todo)) : Behind(This, s) /\ s \in Els(todo)
    BY <1>1, Followers
  <2>4. QED
    BY <1>4, <2>1, <2>2, <2>3
<1>5. QED
  BY <1>2, <1>3, <1>4

LEMMA AskedStepsTransaction ==
  ASSUME RemovalsInv, Transaction
  PROVE  AskedSteps'
<1>1. TypeInv /\ TypeOK /\ Queued(todo) /\ AskedSteps /\ todo \in Seq(Steps)
  BY DEF RemovalsInv, RefsInv, TypeInv
<1>2. todo # <<>> /\ This \in Els(todo) /\ asked' = asked /\ design' = design
  BY <1>1, Puts, ElsTodo, FilesColumns
<1>3. SUFFICES ASSUME asked # {}, NEW s \in Els(todo') PROVE AskedStep(s)
  <2>1. \A s : AskedStep(s)' <=> AskedStep(s)
    BY <1>2 DEF AskedStep
  <2>2. Els(todo)' = Els(todo')
    BY DEF Els
  <2>3. QED
    BY <1>2, <1>3, <2>1, <2>2 DEF AskedSteps
<1>4. AskedStep(This)
  BY <1>1, <1>2, <1>3 DEF AskedSteps
<1>5. CASE s \in Els(todo)
  BY <1>1, <1>3, <1>5 DEF AskedSteps
<1>6. CASE ~RemoveRecord /\ Leads(This, s)
  <2>1. This.do \in {"delete", "mark", "unlink", "dissociate", "delete file", "detach",
                     "ripple", "refresh"}
    BY <1>4, <1>6, Doing DEF AskedStep
  <2>2. FormulaLeads(This, s) \/ FileLeads(This, s)
    BY <1>6, <2>1, LeadsKinds DEF Leads
  <2>3. s.do \in {"ripple", "refresh", "detach"}
    <3>1. CASE FormulaLeads(This, s)
      BY <3>1, LeadsKinds
    <3>2. CASE FileLeads(This, s)
      <4>1. s = [do |-> "detach", t |-> This.t]
        BY <2>1, <3>2 DEF FileLeads
      <4>2. QED
        BY <4>1
    <3>3. QED
      BY <2>2, <3>1, <3>2
  <2>4. QED
    BY <2>3 DEF AskedStep
<1>7. CASE RemoveRecord /\ This.r \in Rows /\ s \in Els(Removal(This.r))
  <2>1. This.r \in asked
    BY <1>4, <1>7, Doing DEF AskedStep
  <2>2. /\ s.do \in {"delete", "mark", "unlink", "dissociate", "delete file", "ripple"}
        /\ s.do = "delete" => s.r = This.r /\ ~design.soft
        /\ s.do = "mark" => s.r = This.r /\ s.state = "trash"
        /\ s.do \in {"mark", "unlink", "dissociate"} => design.soft
    BY <1>1, <1>7, RemovalAsked
  <2>3. QED
    BY <2>1, <2>2 DEF AskedStep
<1>8. QED
  BY <1>1, <1>5, <1>6, <1>7, NextEls

LEMMA DeleteAloneTransaction ==
  ASSUME RemovalsInv, Transaction
  PROVE  DeleteAlone'
<1>1. TypeInv /\ TypeOK /\ Queued(todo) /\ DeleteAlone /\ todo \in Seq(Steps)
  BY DEF RemovalsInv, RefsInv, TypeInv
<1>2. todo # <<>> /\ This \in Els(todo) /\ asked' = asked /\ design' = design
  BY <1>1, Puts, ElsTodo, FilesColumns
<1>3. \A s \in Els(todo') : ~ (s.do = "delete" /\ design.soft)
  <2>1. SUFFICES ASSUME NEW s \in Els(todo'), s.do = "delete" PROVE ~design.soft
    OBVIOUS
  <2>2. ~ (s \in Els(Tail(todo)) /\ Behind(This, s))
    BY <2>1 DEF Behind, Immediate
  <2>3. CASE ~RemoveRecord /\ Leads(This, s)
    <3>1. RemoveLeads(This, s)
      BY <2>1, <2>3, LeadsKinds DEF Leads
    <3>2. QED
      BY <2>3, <3>1, Doing DEF RemoveLeads
  <2>4. CASE RemoveRecord /\ This.r \in Rows /\ s \in Els(Removal(This.r))
    BY <1>1, <2>1, <2>4, RemovalAsked
  <2>5. QED
    BY <1>1, <2>1, <2>2, <2>3, <2>4, NextEls
<1>4. Els(todo)' = Els(todo')
  BY DEF Els
<1>5. QED
  BY <1>2, <1>3, <1>4 DEF DeleteAlone

\* A project that tasks restrict stays so until the request is over.
LEMMA RestrictedStays ==
  ASSUME RemovalsInv, Transaction, NEW r \in asked, ~design.soft, Restricted(r)
  PROVE  Restricted(r)'
<1>1. TypeInv /\ TypeOK /\ Queued(todo) /\ AskedSteps /\ AskedAlike /\ todo \in Seq(Steps)
  BY DEF RemovalsInv, RefsInv, TypeInv
<1>2. todo # <<>> /\ This \in Els(todo) /\ design' = design
  BY <1>1, Puts, ElsTodo, FilesColumns
<1>3. AskedStep(This) /\ asked # {}
  BY <1>1, <1>2 DEF AskedSteps
<1>4. r \in Projects /\ design.onDelete = "RESTRICT" /\ asked \subseteq Projects
  <2>1. r \in Projects /\ design.onDelete = "RESTRICT"
    BY DEF Restricted
  <2>2. r \notin Tasks
    BY <2>1, RecordsAssumption
  <2>3. QED
    BY <1>1, <2>1, <2>2 DEF AskedAlike
<1>5. CASE Delete
  <2> DEFINE p == This.r
  <2>1. p \in Projects
    BY <1>3, <1>4, <1>5, Doing DEF AskedStep
  <2>2. Children(p) = {}
    BY <1>4, <1>5, <2>1 DEF Delete, Restricted
  <2>3. /\ row' = [x \in Rows |-> IF x \in {p} THEN "gone" ELSE row[x]]
        /\ ref' = [t \in Tasks |-> ref[t]]
    <3> DEFINE hit == IF p \in Projects THEN Children(p) ELSE {}
               lost == IF design.onDelete = "CASCADE" THEN hit ELSE {}
    <3>1. /\ row' = [x \in Rows |-> IF x \in lost \cup {p} THEN "gone" ELSE row[x]]
          /\ ref' = [t \in Tasks |-> IF t \in hit \ lost THEN None ELSE ref[t]]
      BY <1>5 DEF Delete
    <3>2. hit = {} /\ lost = {}
      BY <2>1, <2>2
    <3> HIDE DEF hit, lost
    <3>3. QED
      BY <3>1, <3>2
  <2>4. \A t \in Tasks : t \in Rows /\ t # p
    BY <2>1, RecordsAssumption DEF Rows
  <2>5. Children(r)' = Children(r)
    BY <2>3, <2>4 DEF Children, Exists
  <2>6. QED
    BY <1>2, <2>5 DEF Restricted
<1>6. CASE ~Delete
  <2>1. This.do \in {"remove", "delete", "delete file", "detach", "ripple", "refresh"}
    BY <1>3 DEF AskedStep
  <2>2. row' = row /\ ref' = ref
    <3>1. /\ ~Insert /\ ~Mark /\ ~ClearFk /\ ~DropChildren /\ ~Repoint
          /\ ~WriteTask
      BY <2>1, Doing DEF WriteTask, At, This
    <3>2. QED
      BY <1>6, <3>1 DEF Transaction, WriteProject, EditCell, RunRule, SkipRule, FireDone,
         Ripple, RefreshOne, RefreshDone, SetLinks, Unlink, RemoveRecord, DeleteRefused,
         DeleteFile, Detach, SaveFile, Attach, data
  <2>3. QED
    BY <1>2, <2>2 DEF Restricted, Children, Exists
<1>7. QED
  BY <1>5, <1>6

\* Nothing brings a row into view while rows are being removed, and what takes
\* it out of view does.
LEMMA AskedLive ==
  ASSUME RemovalsInv, Transaction, NEW r \in asked, row'[r] = "live"
  PROVE  /\ row[r] = "live"
         /\ This.do = "mark" => This.r # r
         /\ Delete => This.r # r
<1>1. /\ TypeInv /\ TypeOK /\ AskedSteps /\ todo \in Seq(Steps) /\ r \in Rows
      /\ row \in [Rows -> {"unused", "live", "trash", "gone"}]
  BY DEF RemovalsInv, RefsInv, TypeInv, TypeOK
<1>2. todo # <<>> /\ This \in Els(todo)
  BY <1>1, Puts, ElsTodo
<1>3. AskedStep(This)
  BY <1>1, <1>2 DEF AskedSteps
<1>4. ~Insert
  BY <1>3, Doing DEF AskedStep
<1>5. CASE Mark
  <2>1. This.do = "mark" /\ This.state = "trash"
    BY <1>3, <1>5, Doing DEF AskedStep
  <2>2. row' = IF Exists(This.r) THEN [row EXCEPT ![This.r] = "trash"] ELSE row
    BY <1>5, <2>1 DEF Mark
  <2>3. row[r] = "live"
    BY <1>1, <2>2
  <2>4. This.r # r
    BY <1>1, <2>2, <2>3 DEF Exists
  <2>5. ~Delete
    BY <2>1, Doing
  <2>6. QED
    BY <2>3, <2>4, <2>5
<1>6. CASE Delete
  <2> DEFINE p == This.r
             hit == IF p \in Projects THEN Children(p) ELSE {}
             lost == IF design.onDelete = "CASCADE" THEN hit ELSE {}
  <2>1. row' = [x \in Rows |-> IF x \in lost \cup {p} THEN "gone" ELSE row[x]]
    BY <1>6 DEF Delete
  <2> HIDE DEF lost
  <2>2. row[r] = "live" /\ p # r
    BY <1>1, <2>1
  <2>3. This.do # "mark"
    BY <1>6, Doing
  <2>4. QED
    BY <2>2, <2>3
<1>7. CASE ~Mark /\ ~Delete
  <2>1. This.do # "mark"
    BY <1>7, Doing
  <2>2. CASE DropChildren
    BY <1>1, <1>7, <2>1, <2>2 DEF DropChildren
  <2>3. CASE ~DropChildren
    <3>1. row' = row
      BY <1>4, <1>7, <2>3 DEF Transaction, WriteTask, WriteProject, EditCell, RunRule,
         SkipRule, FireDone, Ripple, RefreshOne, RefreshDone, SetLinks, Unlink, ClearFk,
         RemoveRecord, DeleteRefused, DeleteFile, Detach, SaveFile, Attach, Repoint, data
    <3>2. QED
      BY <1>7, <2>1, <3>1
  <2>4. QED
    BY <2>2, <2>3
<1>8. QED
  BY <1>5, <1>6, <1>7

LEMMA AskedPendingTransaction ==
  ASSUME RemovalsInv, Transaction
  PROVE  AskedPending'
<1>1. /\ TypeInv /\ TypeOK /\ Queued(todo) /\ AskedSteps /\ DeleteAlone /\ AskedPending
      /\ todo \in Seq(Steps)
  BY DEF RemovalsInv, RefsInv, TypeInv
<1>2. /\ todo # <<>> /\ Els(todo) = {This} \cup Els(Tail(todo))
      /\ asked' = asked /\ design' = design /\ crashed' = crashed
  BY <1>1, Puts, ElsTodo, FilesColumns
<1>3. Els(todo)' = Els(todo')
  BY DEF Els
<1>4. SUFFICES ASSUME ~crashed, NEW r \in asked, row'[r] = "live"
               PROVE  \/ \E s \in Els(todo') : s.do \in {"remove", "delete", "mark"} /\ s.r = r
                      \/ ~design.soft /\ Restricted(r)'
  BY <1>2, <1>3 DEF AskedPending, Pending
<1>5. row[r] = "live" /\ (This.do = "mark" => This.r # r) /\ (Delete => This.r # r)
  BY <1>4, AskedLive
<1>6. CASE ~design.soft /\ Restricted(r)
  BY <1>4, <1>6, RestrictedStays
<1>7. CASE Pending(r)
  <2>1. PICK s \in Els(todo) : s.do \in {"remove", "delete", "mark"} /\ s.r = r
    BY <1>7 DEF Pending
  <2>2. AskedStep(s) /\ AskedStep(This)
    BY <1>1, <1>2 DEF AskedSteps
  <2>3. CASE s # This /\ ~DeleteRefused
    <3>1. s \in Els(todo')
      BY <1>1, <1>2, <2>3, NextEls
    <3>2. QED
      BY <2>1, <3>1
  <2>4. CASE s = This /\ s.do = "remove"
    <3>1. RemoveRecord /\ This.r = r /\ r \in Rows
      <4>1. RemoveRecord
        BY <2>4, Doing
      <4>2. r \in Rows
        BY <1>1 DEF TypeOK
      <4>3. QED
        BY <2>1, <2>4, <4>1, <4>2
    <3>2. Els(Removal(r)) \subseteq Els(todo')
      BY <1>1, <3>1, NextEls
    <3>3. /\ MarkOf(r).do = "mark" /\ MarkOf(r).r = r
          /\ DeleteOf(r).do = "delete" /\ DeleteOf(r).r = r
      BY PartsOf
    <3>4. DeleteOf(r) \in Els(Removal(r)) \/ MarkOf(r) \in Els(Removal(r))
      BY <1>1, <3>1, RemovalSteps DEF TypeOK, Designs
    <3>5. QED
      BY <3>2, <3>3, <3>4
  <2>5. CASE DeleteRefused
    <3>1. This.do = "delete" /\ Restricted(This.r) /\ {x \in Els(todo) : x.do = "remove"} \subseteq Els(todo')
      BY <1>1, <2>5, NextEls, Doing DEF DeleteRefused
    <3>2. CASE s.do = "remove"
      BY <2>1, <3>1, <3>2
    <3>3. CASE s.do = "delete"
      <4>1. s \notin Els(Tail(todo))
        BY <1>1, <1>2, <3>3, Followers DEF Behind, Immediate
      <4>2. s = This
        BY <1>2, <4>1
      <4>3. ~design.soft
        BY <1>1, <1>5, <2>1, <3>3 DEF DeleteAlone
      <4>4. Restricted(r)
        BY <2>1, <3>1, <4>2
      <4>5. QED
        BY <1>4, <4>3, <4>4, RestrictedStays
    <3>4. CASE s.do = "mark"
      <4>1. design.soft
        BY <2>2, <3>4 DEF AskedStep
      <4>2. This \in Els(todo)
        BY <1>2
      <4>3. row[This.r] # "live" /\ asked = {This.r}
        BY <1>1, <3>1, <4>1, <4>2 DEF DeleteAlone
      <4>4. QED
        BY <1>4, <1>5, <4>3
    <3>5. QED
      BY <2>1, <3>2, <3>3, <3>4
  <2>6. CASE s = This /\ s.do = "mark"
    BY <1>5, <2>1, <2>6
  <2>7. CASE s = This /\ s.do = "delete" /\ ~DeleteRefused
    <3>1. Delete
      BY <2>7, Doing
    <3>2. QED
      BY <1>5, <2>1, <2>7, <3>1
  <2>8. QED
    BY <2>1, <2>3, <2>4, <2>5, <2>6, <2>7
<1>8. QED
  BY <1>1, <1>4, <1>5, <1>6, <1>7 DEF AskedPending

\* Rows of one table are asked for.
LEMMA AlikeStart ==
  ASSUME TypeInv, Start
  PROVE  asked' \subseteq Projects \/ asked' \subseteq Tasks
<1>1. CASE DestroyRecord
  <2>1. PICK r \in Rows : asked' = {r}
    BY <1>1 DEF DestroyRecord
  <2>2. QED
    BY <2>1 DEF Rows
<1>2. CASE ApiDelete \/ DeleteRecords
  BY <1>2 DEF ApiDelete, DeleteRecords
<1>3. CASE ~ApiDelete /\ ~DeleteRecords /\ ~DestroyRecord
  <2>1. asked' = {}
    BY <1>3 DEF Start, CreateTask, CreateProject, EditTask, EditProject, BulkEdit, ApiCreate,
       ApiUpdate, AssignToMe, RestoreRecord, MergeProjects, ImportTasks
  <2>2. QED
    BY <2>1
<1>4. QED
  BY <1>1, <1>2, <1>3

LEMMA RemovalsStart ==
  ASSUME RemovalsInv, Start
  PROVE  AskedAlike' /\ AskedSteps' /\ DeleteAlone' /\ AskedPending'
<1>1. TypeInv /\ TypeOK
  BY DEF RemovalsInv, RefsInv, TypeInv
<1>2. design' = design /\ crashed' = crashed
  BY <1>1, StartKeeps, ColumnsStart
<1>3. Els(todo)' = Els(todo')
  BY DEF Els
<1>4. AskedAlike'
  BY <1>1, AlikeStart DEF AskedAlike
<1>5. CASE DestroyRecord
  <2>1. PICK r \in Rows :
           /\ row[r] = "trash" /\ asked' = {r}
           /\ \/ r \notin att /\ todo' = <<[do |-> "delete", r |-> r]>>
              \/ r \in att /\ todo' = <<[do |-> "delete", r |-> r],
                                        [do |-> "delete file", t |-> r]>>
    BY <1>1, <1>5, Destroyed
  <2> DEFINE a == DeleteOf(r)
             b == FileOf(r)
  <2>2. a.do = "delete" /\ a.r = r /\ b.do = "delete file"
    BY PartsOf
  <2>3. todo' = <<a>> \/ todo' = <<a, b>>
    BY <2>1 DEF DeleteOf, FileOf
  <2> HIDE DEF a, b
  <2>4. Els(<<a>>) = {a} /\ Els(<<a, b>>) = {a, b}
    BY ElsOf
  <2>5. Els(todo') \subseteq {a, b}
    BY <2>3, <2>4
  <2>6. row'[r] = "trash"
    BY <1>1, <2>1, RowsKeptStart DEF Exists
  <2>7. DeleteAlone'
    <3>1. \A s \in Els(todo') : s.do = "delete" => row'[s.r] # "live" /\ asked' = {s.r}
      BY <2>1, <2>2, <2>5, <2>6
    <3>2. QED
      BY <1>3, <3>1 DEF DeleteAlone
  <2>8. AskedSteps'
    <3>1. \A s \in Els(todo') : AskedStep(s)'
      BY <2>1, <2>2, <2>5 DEF AskedStep
    <3>2. QED
      BY <1>3, <3>1 DEF AskedSteps
  <2>9. AskedPending'
    BY <2>1, <2>6 DEF AskedPending
  <2>10. QED
    BY <1>4, <2>7, <2>8, <2>9
<1>6. CASE ~DestroyRecord
  <2>1. \A s \in Els(todo') : s.do # "delete"
    BY <1>1, <1>6, StartSteps DEF Begins
  <2>2. DeleteAlone'
    BY <1>3, <2>1 DEF DeleteAlone
  <2>3. CASE asked' = {}
    BY <1>4, <2>2, <2>3 DEF AskedSteps, AskedPending
  <2>4. CASE /\ \A s \in Els(todo') : s.do = "remove" /\ s.r \in asked'
             /\ \A r \in asked' : \E s \in Els(todo') : s.do = "remove" /\ s.r = r
    <3>1. \A s \in Els(todo') : AskedStep(s)'
      BY <2>4 DEF AskedStep
    <3>2. AskedSteps'
      BY <1>3, <3>1 DEF AskedSteps
    <3>3. \A r \in asked' : Pending(r)'
      BY <1>3, <2>4 DEF Pending
    <3>4. AskedPending'
      BY <3>3 DEF AskedPending, Pending
    <3>5. QED
      BY <1>4, <2>2, <3>2, <3>4
  <2>5. QED
    BY <1>1, <1>6, <2>3, <2>4, StartAsked
<1>7. QED
  BY <1>5, <1>6

LEMMA RemovalsInit == Init => RemovalsInv
<1> SUFFICES ASSUME Init PROVE RemovalsInv
  OBVIOUS
<1>1. RefsInv /\ todo = <<>> /\ asked = {}
  BY RefsInit DEF Init
<1>2. Els(todo) = {} /\ Len(todo) = 0
  BY <1>1, ElsOf
<1>3. DetachInv
  BY <1>2 DEF DetachInv
<1>4. QED
  BY <1>1, <1>2, <1>3 DEF RemovalsInv, AskedAlike, AskedSteps, DeleteAlone, AskedPending

LEMMA RemovalsNext == RemovalsInv /\ [Next]_vars => RemovalsInv'
<1> SUFFICES ASSUME RemovalsInv, [Next]_vars PROVE RemovalsInv'
  OBVIOUS
<1>1. TypeInv /\ Queued(todo) /\ DetachInv
  BY DEF RemovalsInv, RefsInv
<1>2. RefsInv' /\ DetachInv'
  BY <1>1, RefsNext, DetachNext DEF RemovalsInv
<1>3. AskedAlike' /\ AskedSteps' /\ DeleteAlone' /\ AskedPending'
  <2>1. CASE Transaction
    <3>1. AskedAlike'
      BY <1>1, <2>1, FilesColumns DEF RemovalsInv, AskedAlike
    <3>2. QED
      BY <2>1, <3>1, AskedStepsTransaction, DeleteAloneTransaction, AskedPendingTransaction
  <2>2. CASE Start
    BY <2>2, RemovalsStart
  <2>3. CASE Crash
    <3>1. todo' = <<>> /\ crashed' = TRUE /\ asked' = asked
      BY <2>3 DEF Crash, past
    <3>2. Els(todo)' = {}
      <4>1. Els(todo)' = Els(todo')
        BY DEF Els
      <4>2. QED
        BY <3>1, <4>1, ElsOf
    <3>3. QED
      BY <3>1, <3>2 DEF RemovalsInv, AskedAlike, AskedSteps, DeleteAlone, AskedPending
  <2>4. CASE Rest \/ UNCHANGED vars
    <3>1. UNCHANGED vars
      BY <2>4 DEF Rest
    <3>2. /\ Els(todo)' = Els(todo) /\ asked' = asked /\ design' = design /\ row' = row
          /\ crashed' = crashed /\ ref' = ref
      BY <3>1 DEF vars, Els
    <3>3. AskedAlike' /\ DeleteAlone'
      BY <3>2 DEF RemovalsInv, AskedAlike, DeleteAlone
    <3>4. AskedSteps'
      BY <3>2 DEF RemovalsInv, AskedSteps, AskedStep
    <3>5. AskedPending'
      BY <3>2 DEF RemovalsInv, AskedPending, Pending, Restricted, Children, Exists
    <3>6. QED
      BY <3>3, <3>4, <3>5
  <2>5. QED
    BY <2>1, <2>2, <2>3, <2>4 DEF Next
<1>4. QED
  BY <1>2, <1>3 DEF RemovalsInv

\* Removals are whole: every row that a request was asked to remove is removed
\* or restricted when it is over, one refusal not stopping the others, and no
\* project reaches the trash before it is dissociated, wherever a process dies.
THEOREM RemovalsKeptHolds == Spec => RemovalsKept
<1>1. RemovalsInv => RemovedAsAsked
  <2>1. SUFFICES ASSUME RemovalsInv, Idle, ~crashed, NEW r \in asked, row[r] = "live"
                 PROVE  ~design.soft /\ Restricted(r)
    BY DEF RemovedAsAsked
  <2>2. Els(todo) = {}
    BY <2>1, ElsOf DEF Idle
  <2>3. ~Pending(r)
    BY <2>2 DEF Pending
  <2>4. QED
    BY <2>1, <2>3 DEF RemovalsInv, AskedPending
<1>2. RemovalsInv /\ [Next]_vars => DetachedFirst
  <2>1. RemovalsInv => TypeInv /\ DetachInv
    BY DEF RemovalsInv, RefsInv
  <2>2. QED
    BY <2>1, Detached DEF DetachedFirst
<1>3. QED
  BY <1>1, <1>2, RemovalsInit, RemovalsNext, PTL DEF Spec, RemovalsKept

-----------------------------------------------------------------------------
(* Merges. *)

\* The steps of a merge of d into s.
MergeStep(x, s, d) ==
    /\ x.do \in {"repoint", "set links", "unlink", "write project", "ripple", "refresh",
                 "remove", "delete", "mark", "dissociate", "delete file", "detach"}
    /\ x.do = "repoint" => x.s = s /\ x.d = d
    /\ x.do = "set links" => x.p = s /\ x.tags = TagsOf(s) \cup TagsOf(d)
    /\ x.do \in {"unlink", "dissociate"} => x.p = d
    /\ x.do \in {"remove", "delete", "mark"} => x.r = d
    /\ x.do = "mark" => x.state = "trash"

\* What has not been moved yet is moved before anything else is done, and what
\* the duplicate still has will be taken from it.
Ahead(s, d) ==
    /\ Children(d) # {} => todo # <<>> /\ This.do = "repoint"
    /\ ~(TagsOf(d) \subseteq TagsOf(s)) =>
         \/ todo # <<>> /\ This.do = "set links"
         \/ Len(todo) > 1 /\ This.do = "repoint" /\ todo[2].do = "set links"
    /\ TagsOf(d) # {} => \E x \in Els(todo) : x.do = "unlink"
    /\ row[d] = "live" => Pending(d)

MergeInv ==
    pair # <<>> /\ (~Idle \/ ~crashed) =>
        /\ pair[1] # pair[2]
        /\ \A x \in Els(todo) : MergeStep(x, pair[1], pair[2])
        /\ Ahead(pair[1], pair[2])

\* A merge moves tags, and loses none.
LEMMA MergeLinks ==
  ASSUME TypeInv, Transaction, NEW s \in Projects, NEW d \in Projects, s # d,
         MergeStep(This, s, d),
         ~(TagsOf(d) \subseteq TagsOf(s)) => This.do \in {"set links", "repoint"}
  PROVE  /\ TagsOf(s)' \cup TagsOf(d)' = TagsOf(s) \cup TagsOf(d)
         /\ This.do = "repoint" => TagsOf(s)' = TagsOf(s) /\ TagsOf(d)' = TagsOf(d)
         /\ This.do # "repoint" => TagsOf(d)' \subseteq TagsOf(s)'
         /\ TagsOf(d)' \subseteq TagsOf(d)
         /\ This.do = "unlink" => TagsOf(d)' = {}
<1>1. link \subseteq Projects \X Tags
  BY DEF TypeInv, TypeOK
<1>2. CASE SetLinks
  <2>1. This.do = "set links" /\ This.p = s /\ This.tags = TagsOf(s) \cup TagsOf(d)
    BY <1>2, Doing DEF MergeStep
  <2>2. link' = {l \in link : l[1] # s} \cup {<<s, g>> : g \in TagsOf(s) \cup TagsOf(d)}
    BY <1>2, <2>1 DEF SetLinks
  <2>3. \A g \in Tags : /\ <<d, g>> \in link' <=> <<d, g>> \in link
                        /\ <<s, g>> \in link' <=> g \in TagsOf(s) \cup TagsOf(d)
    BY <2>2
  <2>4. TagsOf(d)' = TagsOf(d) /\ TagsOf(s)' = TagsOf(s) \cup TagsOf(d)
    BY <2>3 DEF TagsOf
  <2>5. QED
    BY <2>1, <2>4
<1>3. CASE Unlink \/ Delete
  <2>1. /\ This.do \notin {"set links", "repoint"}
        /\ Unlink => This.p = d
        /\ Delete => This.r = d
    BY <1>3, Doing DEF MergeStep
  <2>2. link' = {l \in link : l[1] # d}
    BY <1>3, <2>1 DEF Unlink, Delete
  <2>3. \A g \in Tags : /\ <<d, g>> \notin link'
                        /\ <<s, g>> \in link' <=> <<s, g>> \in link
    BY <2>2
  <2>4. TagsOf(d)' = {} /\ TagsOf(s)' = TagsOf(s)
    BY <2>3 DEF TagsOf
  <2>5. QED
    BY <2>1, <2>4
<1>4. CASE ~SetLinks /\ ~Unlink /\ ~Delete
  <2>1. link' = link
    BY <1>4 DEF Transaction, Insert, WriteTask, WriteProject, EditCell, RunRule, SkipRule,
       FireDone, Ripple, RefreshOne, RefreshDone, ClearFk, DropChildren, Mark, RemoveRecord,
       DeleteRefused, DeleteFile, Detach, SaveFile, Attach, Repoint, data
  <2>2. TagsOf(d)' = TagsOf(d) /\ TagsOf(s)' = TagsOf(s)
    BY <2>1 DEF TagsOf
  <2>3. This.do \notin {"set links", "unlink"}
    BY <1>4, Doing
  <2>4. QED
    BY <2>2, <2>3
<1>5. QED
  BY <1>2, <1>3, <1>4

\* A merge moves references, and loses none.
LEMMA MergeRefs ==
  ASSUME TypeInv, Transaction, NEW s \in Projects, NEW d \in Projects, s # d,
         MergeStep(This, s, d), Children(d) # {} => This.do = "repoint"
  PROVE  /\ Children(d)' = {}
         /\ \A t \in Tasks : Exists(t) /\ ref[t] \in {s, d} =>
              ref'[t] \in {s, d} /\ row'[t] = row[t]
         /\ row'[d] = "live" => row[d] = "live" /\ This.do # "mark" /\ ~Delete
<1>1. /\ row \in [Rows -> {"unused", "live", "trash", "gone"}]
      /\ ref \in [Tasks -> Projects \cup {None}]
      /\ \A t \in Tasks : t \in Rows /\ t # s /\ t # d
      /\ d \in Rows /\ d # None
  BY RecordsAssumption DEF TypeInv, TypeOK, Rows
<1>2. CASE Repoint
  <2>1. This.do = "repoint" /\ This.s = s /\ This.d = d
    BY <1>2, Doing DEF MergeStep
  <2>2. ref' = [t \in Tasks |-> IF t \in Children(d) THEN s ELSE ref[t]] /\ row' = row
    BY <1>2, <2>1 DEF Repoint
  <2>3. Children(d)' = {}
    BY <1>1, <2>2 DEF Children, Exists
  <2>4. ~Delete
    BY <2>1, Doing
  <2>5. QED
    BY <2>1, <2>2, <2>3, <2>4
<1>3. CASE ~Repoint
  <2>1. Children(d) = {}
    BY <1>3, Doing
  <2>2. CASE Delete
    <3>1. This.r = d
      BY <2>2, Doing DEF MergeStep
    <3> DEFINE hit == IF d \in Projects THEN Children(d) ELSE {}
               lost == IF design.onDelete = "CASCADE" THEN hit ELSE {}
    <3>2. /\ row' = [x \in Rows |-> IF x \in lost \cup {d} THEN "gone" ELSE row[x]]
          /\ ref' = [t \in Tasks |-> IF t \in hit \ lost THEN None ELSE ref[t]]
      BY <2>2, <3>1 DEF Delete
    <3>3. hit = {} /\ lost = {}
      BY <2>1
    <3> HIDE DEF hit, lost
    <3>4. /\ \A t \in Tasks : row'[t] = row[t] /\ ref'[t] = ref[t]
          /\ row'[d] = "gone"
      BY <1>1, <3>2, <3>3
    <3>5. QED
      BY <2>1, <3>4 DEF Children, Exists
  <2>3. CASE ClearFk \/ DropChildren
    <3>1. This.p = d /\ This.do = "dissociate"
      BY <2>3, Doing DEF MergeStep
    <3>2. \A t \in Tasks : row'[t] = row[t] /\ ref'[t] = ref[t]
      BY <1>1, <2>1, <2>3, <3>1 DEF ClearFk, DropChildren
    <3>3. row'[d] = row[d]
      BY <1>1, <2>1, <2>3, <3>1 DEF ClearFk, DropChildren
    <3>4. ~Delete
      BY <3>1, Doing
    <3>5. QED
      BY <2>1, <3>1, <3>2, <3>3, <3>4 DEF Children, Exists
  <2>4. CASE Mark
    <3>1. This.do = "mark" /\ This.r = d /\ This.state = "trash"
      BY <2>4, Doing DEF MergeStep
    <3>2. row' = (IF Exists(d) THEN [row EXCEPT ![d] = "trash"] ELSE row) /\ ref' = ref
      BY <2>4, <3>1 DEF Mark
    <3>3. \A t \in Tasks : row'[t] = row[t] /\ ref'[t] = ref[t]
      BY <1>1, <3>2
    <3>4. row'[d] # "live"
      BY <1>1, <3>2 DEF Exists
    <3>5. QED
      BY <2>1, <3>3, <3>4 DEF Children, Exists
  <2>5. CASE ~Delete /\ ~ClearFk /\ ~DropChildren /\ ~Mark
    <3>1. ~Insert /\ ~WriteTask /\ This.do # "mark"
      <4>1. This.do \notin {"insert", "write task"}
        BY DEF MergeStep
      <4>2. QED
        BY <2>5, <4>1, Doing DEF WriteTask, At, This
    <3>2. row' = row /\ ref' = ref
      BY <1>3, <2>5, <3>1 DEF Transaction, WriteProject, EditCell, RunRule, SkipRule,
         FireDone, Ripple, RefreshOne, RefreshDone, SetLinks, Unlink, RemoveRecord,
         DeleteRefused, DeleteFile, Detach, SaveFile, Attach, data
    <3>3. QED
      BY <2>1, <2>5, <3>1, <3>2 DEF Children, Exists
  <2>6. QED
    BY <2>2, <2>3, <2>4, <2>5
<1>4. QED
  BY <1>2, <1>3

\* A merge that has begun is not refused: nothing points at the duplicate when
\* it is deleted.
LEMMA MergeGoes ==
  ASSUME TypeInv, Transaction, MergeInv, pair # <<>>
  PROVE  ~DeleteRefused /\ pair' = pair
<1>1. todo \in Seq(Steps) /\ todo # <<>> /\ This \in Els(todo)
  BY Puts, ElsTodo DEF TypeInv
<1>2. MergeStep(This, pair[1], pair[2]) /\ Ahead(pair[1], pair[2])
  BY <1>1 DEF MergeInv, Idle
<1>3. ~DeleteRefused
  <2>1. SUFFICES ASSUME DeleteRefused PROVE FALSE
    OBVIOUS
  <2>2. This.do = "delete" /\ Restricted(This.r)
    BY <2>1, Doing DEF DeleteRefused
  <2>3. This.r = pair[2] /\ Children(pair[2]) = {}
    BY <1>2, <2>2 DEF MergeStep, Ahead
  <2>4. QED
    BY <2>2, <2>3 DEF Restricted
<1>4. pair' = pair
  BY <1>3 DEF Transaction, Insert, WriteTask, WriteProject, EditCell, RunRule, SkipRule,
     FireDone, Ripple, RefreshOne, RefreshDone, SetLinks, Unlink, ClearFk, DropChildren, Mark,
     RemoveRecord, Delete, DeleteFile, Detach, SaveFile, Attach, Repoint, past
<1>5. QED
  BY <1>3, <1>4

\* A transaction of a merge that moves d into s.
Moving(s, d) ==
    /\ RefsInv /\ Transaction /\ ~DeleteRefused /\ s # d
    /\ \A x \in Els(todo) : MergeStep(x, s, d)
    /\ Ahead(s, d)

LEMMA MovingNow ==
  ASSUME NEW s \in Projects, NEW d \in Projects, Moving(s, d)
  PROVE  /\ TypeInv /\ TypeOK /\ Queued(todo) /\ todo \in Seq(Steps) /\ todo # <<>>
         /\ This \in Els(todo) /\ Els(todo) = {This} \cup Els(Tail(todo))
         /\ MergeStep(This, s, d)
         /\ Children(d) # {} => This.do = "repoint"
         /\ ~(TagsOf(d) \subseteq TagsOf(s)) => This.do \in {"set links", "repoint"}
<1>1. TypeInv /\ TypeOK /\ Queued(todo) /\ todo \in Seq(Steps) /\ Transaction
  BY DEF Moving, RefsInv, TypeInv
<1>2. todo # <<>>
  BY <1>1, Puts
<1>3. This \in Els(todo) /\ Els(todo) = {This} \cup Els(Tail(todo))
  BY <1>1, <1>2, ElsTodo
<1>4. QED
  BY <1>1, <1>2, <1>3 DEF Moving, Ahead

LEMMA MergeStepsKept ==
  ASSUME NEW s \in Projects, NEW d \in Projects, Moving(s, d), NEW x \in Els(todo')
  PROVE  MergeStep(x, s, d)'
<1>1. /\ TypeInv /\ TypeOK /\ Queued(todo) /\ MergeStep(This, s, d)
      /\ ~(TagsOf(d) \subseteq TagsOf(s)) => This.do \in {"set links", "repoint"}
  BY MovingNow
<1>2. TagsOf(s)' \cup TagsOf(d)' = TagsOf(s) \cup TagsOf(d)
  BY <1>1, MergeLinks DEF Moving
<1>3. CASE x \in Els(todo)
  <2>1. MergeStep(x, s, d)
    BY <1>3 DEF Moving
  <2>2. QED
    BY <1>2, <2>1 DEF MergeStep
<1>4. CASE ~RemoveRecord /\ Leads(This, x)
  <2>1. This.do \in {"repoint", "set links", "unlink", "write project", "ripple", "refresh",
                     "delete", "mark", "dissociate", "delete file", "detach"}
    BY <1>1, <1>4, Doing DEF MergeStep, Moving
  <2>2. FormulaLeads(This, x) \/ FileLeads(This, x)
    BY <1>4, <2>1, LeadsKinds DEF Leads
  <2>3. x.do \in {"ripple", "refresh", "detach"}
    <3>1. CASE FormulaLeads(This, x)
      BY <3>1, LeadsKinds
    <3>2. CASE FileLeads(This, x)
      <4>1. x = [do |-> "detach", t |-> This.t]
        BY <2>1, <3>2 DEF FileLeads
      <4>2. QED
        BY <4>1
    <3>3. QED
      BY <2>2, <3>1, <3>2
  <2>4. QED
    BY <2>3 DEF MergeStep
<1>5. CASE RemoveRecord /\ This.r \in Rows /\ x \in Els(Removal(This.r))
  <2>1. This.r = d
    BY <1>1, <1>5, Doing DEF MergeStep, Moving
  <2>2. /\ d \in Rows
        /\ ~design.soft => Els(Removal(d)) \subseteq {DeleteOf(d), FileOf(d), RippleOf(d)}
        /\ design.soft =>
             Els(Removal(d)) \subseteq {MarkOf(d), UnlinkOf(d), LooseOf(d), RippleOf(d)}
    BY <1>1, <1>5, <2>1, RemovalSteps
  <2>3. /\ MarkOf(d).do = "mark" /\ MarkOf(d).r = d /\ MarkOf(d).state = "trash"
        /\ DeleteOf(d).do = "delete" /\ DeleteOf(d).r = d
        /\ FileOf(d).do = "delete file" /\ RippleOf(d).do = "ripple"
        /\ UnlinkOf(d).do = "unlink" /\ UnlinkOf(d).p = d
        /\ LooseOf(d).do = "dissociate" /\ LooseOf(d).p = d
    BY PartsOf
  <2>4. \/ x = MarkOf(d) \/ x = DeleteOf(d) \/ x = FileOf(d) \/ x = RippleOf(d)
        \/ x = UnlinkOf(d) \/ x = LooseOf(d)
    BY <1>1, <1>5, <2>1, <2>2 DEF TypeOK, Designs
  <2>5. CASE x = MarkOf(d)
    BY <2>3, <2>5 DEF MergeStep
  <2>6. CASE x = DeleteOf(d)
    BY <2>3, <2>6 DEF MergeStep
  <2>7. CASE x = FileOf(d) \/ x = RippleOf(d)
    BY <2>3, <2>7 DEF MergeStep
  <2>8. CASE x = UnlinkOf(d) \/ x = LooseOf(d)
    BY <2>3, <2>8 DEF MergeStep
  <2>9. QED
    BY <2>4, <2>5, <2>6, <2>7, <2>8
<1>6. QED
  BY <1>1, <1>3, <1>4, <1>5, NextEls DEF Moving

LEMMA AheadKept ==
  ASSUME NEW s \in Projects, NEW d \in Projects, Moving(s, d)
  PROVE  Ahead(s, d)'
<1>1. /\ TypeInv /\ TypeOK /\ Queued(todo) /\ todo \in Seq(Steps) /\ todo # <<>>
      /\ MergeStep(This, s, d) /\ Els(todo) = {This} \cup Els(Tail(todo))
      /\ Children(d) # {} => This.do = "repoint"
      /\ ~(TagsOf(d) \subseteq TagsOf(s)) => This.do \in {"set links", "repoint"}
      /\ Transaction /\ ~DeleteRefused /\ s # d
  BY MovingNow DEF Moving
<1>2. /\ This.do = "repoint" => TagsOf(s)' = TagsOf(s) /\ TagsOf(d)' = TagsOf(d)
      /\ This.do # "repoint" => TagsOf(d)' \subseteq TagsOf(s)'
      /\ TagsOf(d)' \subseteq TagsOf(d)
      /\ This.do = "unlink" => TagsOf(d)' = {}
  BY <1>1, MergeLinks
<1>3. /\ Children(d)' = {}
      /\ row'[d] = "live" => row[d] = "live" /\ This.do # "mark" /\ ~Delete
  BY <1>1, MergeRefs
<1>4. Els(todo)' = Els(todo') /\ Els(Tail(todo)) \subseteq Els(todo')
  BY <1>1, NextEls DEF Els
<1>5. ASSUME ~(TagsOf(d)' \subseteq TagsOf(s)')
      PROVE  todo' # <<>> /\ This'.do = "set links"
  <2>1. This.do = "repoint" /\ ~(TagsOf(d) \subseteq TagsOf(s))
    BY <1>2, <1>5
  <2>2. Len(todo) > 1 /\ todo[2].do = "set links"
    BY <2>1 DEF Moving, Ahead
  <2>3. Then(<<>>)
    BY <1>1, <2>1, Doing DEF Repoint
  <2>4. /\ Len(todo') = Len(todo) - 1 /\ todo' \in Seq(Steps)
        /\ \A k \in 1..Len(todo') : todo'[k] = todo[k + 1]
    <3>1. <<>> \in Seq(Steps) /\ Len(<<>>) = 0
      BY StepSeqs
    <3>2. /\ Len(todo') = 0 + Len(todo) - 1 /\ todo' \in Seq(Steps)
          /\ \A k \in 1..Len(todo') : k > 0 => todo'[k] = todo[k - 0 + 1]
      BY <1>1, <2>3, <3>1, ThenSteps
    <3>3. Len(todo) \in Nat
      BY <1>1, HeadTail
    <3>4. QED
      BY <3>2, <3>3
  <2>5. 1 \in 1..Len(todo') /\ todo' # <<>>
    <3>1. Len(todo) \in Nat
      BY <1>1, HeadTail
    <3>2. Len(todo') = Len(todo) - 1 /\ Len(todo) > 1
      BY <2>2, <2>4
    <3>3. 1 \in 1..Len(todo')
      BY <3>1, <3>2
    <3>4. QED
      BY <3>3
  <2>6. todo'[1] = todo[2]
    BY <2>4, <2>5
  <2>7. This' = todo'[1]
    BY <2>4, <2>5, NextThis
  <2>8. QED
    BY <2>2, <2>5, <2>6, <2>7
<1>6. ASSUME TagsOf(d)' # {}
      PROVE  \E x \in Els(todo') : x.do = "unlink"
  <2>1. TagsOf(d) # {} /\ This.do # "unlink"
    BY <1>2, <1>6
  <2>2. PICK x \in Els(todo) : x.do = "unlink"
    BY <2>1 DEF Moving, Ahead
  <2>3. x \in Els(Tail(todo))
    BY <1>1, <2>1, <2>2
  <2>4. QED
    BY <1>4, <2>2, <2>3
<1>7. ASSUME row'[d] = "live"
      PROVE  \E x \in Els(todo') : x.do \in {"remove", "delete", "mark"} /\ x.r = d
  <2>1. row[d] = "live" /\ This.do # "mark" /\ ~Delete
    BY <1>3, <1>7
  <2>2. This.do # "delete"
    BY <1>1, <2>1, Doing
  <2>3. PICK x \in Els(todo) : x.do \in {"remove", "delete", "mark"} /\ x.r = d
    BY <2>1 DEF Moving, Ahead, Pending
  <2>4. CASE x # This
    BY <1>1, <1>4, <2>3, <2>4
  <2>5. CASE x = This
    <3>1. RemoveRecord /\ This.r = d /\ d \in Rows
      BY <1>1, <2>1, <2>2, <2>3, <2>5, Doing DEF Rows
    <3>2. Els(Removal(d)) \subseteq Els(todo')
      BY <1>1, <3>1, NextEls
    <3>3. /\ MarkOf(d).do = "mark" /\ MarkOf(d).r = d
          /\ DeleteOf(d).do = "delete" /\ DeleteOf(d).r = d
      BY PartsOf
    <3>4. DeleteOf(d) \in Els(Removal(d)) \/ MarkOf(d) \in Els(Removal(d))
      BY <1>1, <3>1, RemovalSteps DEF TypeOK, Designs
    <3>5. QED
      BY <3>2, <3>3, <3>4
  <2>6. QED
    BY <2>4, <2>5
<1>8. QED
  BY <1>3, <1>4, <1>5, <1>6, <1>7 DEF Ahead, Pending

PointOf(s, d) == [do |-> "repoint", s |-> s, d |-> d]
LinksOf(s, d) == [do |-> "set links", p |-> s, tags |-> TagsOf(s) \cup TagsOf(d)]
FillOf(s, d) == [do |-> "write project", p |-> s, note |-> note[d]]
GoneOf(d) == [do |-> "remove", r |-> d]

\* A merge by its parts.
LEMMA MergingIs ==
  ASSUME TypeOK, NEW s \in Projects, NEW d \in Projects
  PROVE  LET u == Merging(s, d) IN
         /\ u \in Seq(Steps) /\ Len(u) > 0 /\ u[1] = PointOf(s, d)
         /\ TagsOf(d) # {} => Len(u) > 1 /\ u[2] = LinksOf(s, d) /\ UnlinkOf(d) \in Els(u)
         /\ GoneOf(d) \in Els(u)
         /\ Els(u) \subseteq {PointOf(s, d), LinksOf(s, d), UnlinkOf(d), FillOf(s, d), GoneOf(d)}
<1> DEFINE point == PointOf(s, d)
           links == LinksOf(s, d)
           unlink == UnlinkOf(d)
           fill == FillOf(s, d)
           gone == GoneOf(d)
           m == MoveLinks(s, d)
           f == Fills(s, d)
           u == Merging(s, d)
<1>1. /\ point \in Steps /\ links \in Steps /\ unlink \in Steps /\ fill \in Steps
      /\ gone \in Steps
  <2>1. TagsOf(s) \cup TagsOf(d) \in SUBSET Tags /\ note[d] \in Notes \cup {None}
    BY DEF TypeOK, TagsOf
  <2>2. d \in Rows
    BY DEF Rows
  <2>3. QED
    BY <2>1, <2>2, StepMakers DEF PointOf, LinksOf, UnlinkOf, FillOf, GoneOf
<1>2. /\ TagsOf(d) = {} => m = <<>>
      /\ TagsOf(d) # {} => m = <<links, unlink>>
      /\ f = <<>> \/ f = <<fill>>
  BY DEF MoveLinks, Fills, LinksOf, UnlinkOf, FillOf
<1>3. u = ((<<point>> \o m) \o f) \o <<gone>>
  BY DEF Merging, PointOf, GoneOf
<1> HIDE DEF point, links, unlink, fill, gone, m, f, u
<1>4. ASSUME NEW a \in Seq(Steps), NEW b \in Seq(Steps)
      PROVE  /\ a \o b \in Seq(Steps) /\ Len(a \o b) = Len(a) + Len(b)
             /\ Len(a) \in Nat /\ Len(b) \in Nat
             /\ \A i \in 1..Len(a) : (a \o b)[i] = a[i]
             /\ Els(a \o b) = Els(a) \cup Els(b)
  <2>1. Els(a \o b) = Els(a) \cup Els(b)
    BY ElsOf
  <2>2. QED
    BY <2>1
<1>5. /\ <<point>> \in Seq(Steps) /\ Els(<<point>>) = {point}
      /\ <<gone>> \in Seq(Steps) /\ Els(<<gone>>) = {gone}
  BY <1>1, StepSeqs, ElsOf
<1>6. Len(<<point>>) = 1 /\ <<point>>[1] = point /\ Len(<<gone>>) = 1
  OBVIOUS
<1>7. f \in Seq(Steps) /\ Els(f) \subseteq {fill}
  BY <1>1, <1>2, StepSeqs, ElsOf
<1>8. /\ m \in Seq(Steps) /\ Els(m) \subseteq {links, unlink}
      /\ TagsOf(d) # {} => Len(m) = 2 /\ m[1] = links /\ unlink \in Els(m)
  <2>1. <<links, unlink>> \in Seq(Steps) /\ Els(<<links, unlink>>) = {links, unlink}
    BY <1>1, StepSeqs, ElsOf
  <2>2. Len(<<links, unlink>>) = 2 /\ <<links, unlink>>[1] = links
    OBVIOUS
  <2>3. <<>> \in Seq(Steps) /\ Els(<<>>) = {}
    BY StepSeqs, ElsOf
  <2>4. CASE TagsOf(d) = {}
    BY <1>2, <2>3, <2>4
  <2>5. CASE TagsOf(d) # {}
    BY <1>2, <2>1, <2>2, <2>5
  <2>6. QED
    BY <2>4, <2>5
<1> DEFINE v == <<point>> \o m
           w == v \o f
<1>9. /\ v \in Seq(Steps) /\ Len(v) = 1 + Len(m) /\ Els(v) = {point} \cup Els(m)
      /\ v[1] = point /\ Len(m) \in Nat
  <2>1. /\ v \in Seq(Steps) /\ Len(v) = Len(<<point>>) + Len(m)
        /\ Els(v) = Els(<<point>>) \cup Els(m) /\ Len(m) \in Nat
        /\ \A i \in 1..Len(<<point>>) : v[i] = <<point>>[i]
    BY <1>4, <1>5, <1>8
  <2>2. 1 \in 1..Len(<<point>>)
    BY <1>6
  <2>3. QED
    BY <1>5, <1>6, <2>1, <2>2
<1>10. TagsOf(d) # {} => Len(v) = 3 /\ v[2] = links
  <2>1. SUFFICES ASSUME TagsOf(d) # {} PROVE Len(v) = 3 /\ v[2] = links
    OBVIOUS
  <2>2. Len(m) = 2 /\ m[1] = links /\ 1 \in 1..2
    BY <1>8, <2>1
  <2>3. Len(v) = 3
    BY <1>9, <2>2
  <2>4. \A k \in 1..Len(m) : v[Len(<<point>>) + k] = m[k]
    BY <1>5, <1>8, After
  <2>5. v[Len(<<point>>) + 1] = m[1]
    BY <2>2, <2>4
  <2>6. QED
    BY <1>6, <2>2, <2>3, <2>5
<1> HIDE DEF v
<1>11. /\ w \in Seq(Steps) /\ Len(w) = Len(v) + Len(f) /\ Els(w) = Els(v) \cup Els(f)
       /\ Len(v) \in Nat /\ Len(f) \in Nat
       /\ \A i \in 1..Len(v) : w[i] = v[i]
  BY <1>4, <1>7, <1>9
<1> HIDE DEF w
<1>12. u = w \o <<gone>>
  BY <1>3 DEF v, w
<1>13. /\ u \in Seq(Steps) /\ Len(u) = Len(w) + 1 /\ Els(u) = Els(w) \cup {gone}
       /\ Len(w) \in Nat /\ \A i \in 1..Len(w) : u[i] = w[i]
  <2>1. /\ w \o <<gone>> \in Seq(Steps) /\ Len(w \o <<gone>>) = Len(w) + Len(<<gone>>)
        /\ Len(w) \in Nat /\ \A i \in 1..Len(w) : (w \o <<gone>>)[i] = w[i]
        /\ Els(w \o <<gone>>) = Els(w) \cup Els(<<gone>>)
    BY <1>4, <1>5, <1>11
  <2>2. Len(<<gone>>) = 1 /\ Els(<<gone>>) = {gone}
    BY <1>5, <1>6
  <2>3. QED
    BY <1>12, <2>1, <2>2
<1>14. Len(u) > 0 /\ u[1] = point
  <2>1. 1 \in 1..Len(v) /\ 1 \in 1..Len(w)
    BY <1>9, <1>11
  <2>2. QED
    BY <1>9, <1>11, <1>13, <2>1
<1>15. TagsOf(d) # {} => Len(u) > 1 /\ u[2] = links /\ unlink \in Els(u)
  <2>1. SUFFICES ASSUME TagsOf(d) # {}
                 PROVE  Len(u) > 1 /\ u[2] = links /\ unlink \in Els(u)
    OBVIOUS
  <2>2. 2 \in 1..Len(v) /\ 2 \in 1..Len(w)
    BY <1>10, <1>11, <2>1
  <2>3. Len(u) > 1 /\ u[2] = links
    BY <1>10, <1>11, <1>13, <2>1, <2>2
  <2>4. unlink \in Els(u)
    BY <1>8, <1>9, <1>11, <1>13, <2>1
  <2>5. QED
    BY <2>3, <2>4
<1>16. gone \in Els(u) /\ Els(u) \subseteq {point, links, unlink, fill, gone}
  BY <1>7, <1>8, <1>9, <1>11, <1>13
<1>17. QED
  BY <1>13, <1>14, <1>15, <1>16 DEF point, links, unlink, fill, gone, u

LEMMA MergeStart ==
  ASSUME TypeInv, Start
  PROVE  MergeInv'
<1>1. SUFFICES ASSUME pair' # <<>> PROVE MergeInv'
  BY DEF MergeInv
<1>2. MergeProjects
  BY <1>1 DEF Start, CreateTask, CreateProject, EditTask, EditProject, BulkEdit, ApiCreate,
     ApiUpdate, ApiDelete, AssignToMe, DeleteRecords, RestoreRecord, DestroyRecord,
     ImportTasks
<1>3. PICK s, d \in Projects : s # d /\ Request(Merging(s, d)) /\ pair' = <<s, d>>
  BY <1>2 DEF MergeProjects
<1>4. /\ todo' = Merging(s, d) /\ link' = link /\ row' = row
      /\ pair'[1] = s /\ pair'[2] = d /\ TypeOK
  BY <1>3 DEF Request, data, TypeInv
<1>5. /\ todo' \in Seq(Steps) /\ Len(todo') > 0 /\ todo'[1] = PointOf(s, d)
      /\ TagsOf(d) # {} => /\ Len(todo') > 1 /\ todo'[2] = LinksOf(s, d)
                           /\ UnlinkOf(d) \in Els(todo')
      /\ GoneOf(d) \in Els(todo')
      /\ Els(todo') \subseteq
           {PointOf(s, d), LinksOf(s, d), UnlinkOf(d), FillOf(s, d), GoneOf(d)}
  BY <1>4, MergingIs
<1>6. /\ PointOf(s, d).do = "repoint" /\ PointOf(s, d).s = s /\ PointOf(s, d).d = d
      /\ LinksOf(s, d).do = "set links" /\ LinksOf(s, d).p = s
      /\ LinksOf(s, d).tags = TagsOf(s) \cup TagsOf(d)
      /\ FillOf(s, d).do = "write project"
      /\ GoneOf(d).do = "remove" /\ GoneOf(d).r = d
  BY DEF PointOf, LinksOf, FillOf, GoneOf
<1>7. UnlinkOf(d).do = "unlink" /\ UnlinkOf(d).p = d
  BY PartsOf
<1>8. TagsOf(s)' = TagsOf(s) /\ TagsOf(d)' = TagsOf(d) /\ Els(todo)' = Els(todo')
  BY <1>4 DEF TagsOf, Els
<1>9. todo' # <<>> /\ This' = todo'[1]
  <2>1. todo' # <<>>
    BY <1>5
  <2>2. QED
    BY <1>5, <2>1, NextThis
<1>10. ASSUME NEW x \in Els(todo')
       PROVE  MergeStep(x, s, d)'
  <2>1. \/ x = PointOf(s, d) \/ x = LinksOf(s, d) \/ x = UnlinkOf(d) \/ x = FillOf(s, d)
        \/ x = GoneOf(d)
    BY <1>5
  <2>2. QED
    BY <1>6, <1>7, <1>8, <2>1 DEF MergeStep
<1>11. Ahead(s, d)'
  <2>1. This'.do = "repoint"
    BY <1>5, <1>6, <1>9
  <2>2. ~(TagsOf(d)' \subseteq TagsOf(s)') => Len(todo') > 1 /\ todo'[2].do = "set links"
    BY <1>5, <1>6, <1>8
  <2>3. TagsOf(d)' # {} => \E x \in Els(todo') : x.do = "unlink"
    BY <1>5, <1>7, <1>8
  <2>4. Pending(d)'
    BY <1>5, <1>6, <1>8 DEF Pending
  <2>5. QED
    BY <1>8, <1>9, <2>1, <2>2, <2>3, <2>4 DEF Ahead
<1>12. QED
  BY <1>3, <1>4, <1>8, <1>10, <1>11 DEF MergeInv

LEMMA MergeNext == RefsInv /\ MergeInv /\ [Next]_vars => MergeInv'
<1> SUFFICES ASSUME RefsInv, MergeInv, [Next]_vars PROVE MergeInv'
  OBVIOUS
<1>1. TypeInv
  BY DEF RefsInv
<1>2. CASE Transaction
  <2>1. SUFFICES ASSUME pair' # <<>> PROVE MergeInv'
    BY DEF MergeInv
  <2>2. CASE pair = <<>>
    <3>1. pair' = pair \/ pair' = <<>>
      BY <1>2 DEF Transaction, Insert, WriteTask, WriteProject, EditCell, RunRule, SkipRule,
         FireDone, Ripple, RefreshOne, RefreshDone, SetLinks, Unlink, ClearFk, DropChildren,
         Mark, RemoveRecord, Delete, DeleteRefused, DeleteFile, Detach, SaveFile, Attach,
         Repoint, past
    <3>2. QED
      BY <2>1, <2>2, <3>1
  <2>3. CASE pair # <<>>
    <3>1. ~DeleteRefused /\ pair' = pair
      BY <1>1, <1>2, <2>3, MergeGoes
    <3>2. PICK s, d \in Projects : pair = <<s, d>>
      BY <1>1, <2>3 DEF TypeInv
    <3>3. pair[1] = s /\ pair[2] = d /\ pair'[1] = s /\ pair'[2] = d
      BY <3>1, <3>2
    <3>4. ~Idle
      BY <1>2, Doing DEF Idle
    <3>5. Moving(s, d)
      BY <1>2, <2>3, <3>1, <3>3, <3>4 DEF Moving, MergeInv
    <3>6. Ahead(s, d)' /\ \A x \in Els(todo') : MergeStep(x, s, d)'
      BY <3>5, AheadKept, MergeStepsKept
    <3>7. s # d /\ Els(todo)' = Els(todo')
      BY <3>5 DEF Moving, Els
    <3>8. QED
      BY <3>3, <3>6, <3>7 DEF MergeInv
  <2>4. QED
    BY <2>2, <2>3
<1>3. CASE Start
  BY <1>1, <1>3, MergeStart
<1>4. CASE Crash
  BY <1>4 DEF Crash, MergeInv, Idle
<1>5. CASE Rest \/ UNCHANGED vars
  <2>1. UNCHANGED vars
    BY <1>5 DEF Rest
  <2>2. /\ todo' = todo /\ row' = row /\ ref' = ref /\ link' = link /\ pair' = pair
        /\ crashed' = crashed
    BY <2>1 DEF vars
  <2>3. /\ Els(todo)' = Els(todo) /\ Idle' = Idle
        /\ \A s, d, x : (MergeStep(x, s, d)' <=> MergeStep(x, s, d))
        /\ \A s, d : (Ahead(s, d)' <=> Ahead(s, d))
    BY <2>2 DEF Els, Idle, MergeStep, Ahead, TagsOf, Children, Exists, This, Pending
  <2>4. QED
    BY <2>2, <2>3 DEF MergeInv
<1>6. QED
  BY <1>2, <1>3, <1>4, <1>5 DEF Next

\* No step of a merge loses a reference or a tag, whichever it is.
LEMMA MergeLosesNothing ==
  RefsInv /\ MergeInv /\ [Next]_vars => LosesNothing
<1> SUFFICES ASSUME RefsInv, MergeInv, [Next]_vars, pair # <<>>, ~Idle PROVE LosesNothing
  BY DEF LosesNothing
<1>1. TypeInv
  BY DEF RefsInv
<1>2. PICK s, d \in Projects : pair = <<s, d>>
  BY <1>1 DEF TypeInv
<1>3. pair[1] = s /\ pair[2] = d
  BY <1>2
<1>4. SUFFICES /\ pair' = pair
               /\ \A t \in Tasks : Exists(t) /\ ref[t] \in {s, d} =>
                     ref'[t] \in {s, d} /\ row'[t] = row[t]
               /\ TagsOf(s) \cup TagsOf(d) = TagsOf(s)' \cup TagsOf(d)'
  BY <1>3 DEF LosesNothing, TagsOf
<1>5. CASE Transaction
  <2>1. ~DeleteRefused /\ pair' = pair
    BY <1>1, <1>5, MergeGoes
  <2>2. Moving(s, d)
    BY <1>3, <1>5, <2>1 DEF Moving, MergeInv
  <2>3. /\ MergeStep(This, s, d) /\ s # d
        /\ Children(d) # {} => This.do = "repoint"
        /\ ~(TagsOf(d) \subseteq TagsOf(s)) => This.do \in {"set links", "repoint"}
    BY <2>2, MovingNow DEF Moving
  <2>4. TagsOf(s)' \cup TagsOf(d)' = TagsOf(s) \cup TagsOf(d)
    BY <1>1, <1>5, <2>3, MergeLinks
  <2>5. \A t \in Tasks : Exists(t) /\ ref[t] \in {s, d} =>
           ref'[t] \in {s, d} /\ row'[t] = row[t]
    BY <1>1, <1>5, <2>3, MergeRefs
  <2>6. QED
    BY <2>1, <2>4, <2>5
<1>6. CASE Start
  BY <1>1, <1>6, Starts
<1>7. CASE Crash \/ Rest \/ UNCHANGED vars
  <2>1. pair' = pair /\ row' = row /\ ref' = ref /\ link' = link
    BY <1>7 DEF Crash, Rest, vars, data, past
  <2>2. QED
    BY <2>1 DEF TagsOf
<1>8. QED
  BY <1>5, <1>6, <1>7 DEF Next

\* Merges are whole: one that ends has left nothing on the duplicate, and
\* wherever it dies no task that pointed at either project has lost its
\* reference and no tag has fallen off both.
THEOREM MergesKeptHolds == Spec => MergesKept
<1>1. RefsInv /\ MergeInv => MergedOnto
  <2>1. SUFFICES ASSUME RefsInv, MergeInv, Idle, ~crashed, pair # <<>>
                 PROVE  /\ row[pair[2]] # "live" /\ Children(pair[2]) = {}
                        /\ TagsOf(pair[2]) = {}
    BY DEF MergedOnto
  <2>2. Ahead(pair[1], pair[2]) /\ todo = <<>> /\ Els(todo) = {}
    BY <2>1, ElsOf DEF MergeInv, Idle
  <2>3. QED
    BY <2>2 DEF Ahead, Pending
<1>2. Init => MergeInv
  BY DEF Init, MergeInv
<1>3. QED
  BY <1>1, <1>2, RefsInit, RefsNext, MergeNext, MergeLosesNothing, PTL DEF Spec, MergesKept

-----------------------------------------------------------------------------
(* Formulas. *)

RippleFor(x, p) == x.do = "ripple" /\ x.r \in Tasks /\ x.ref = p

\* A step that recomputes row r is still to come.
Due(r) ==
    \E x \in Els(todo) :
        \/ x.do = "refresh" /\ r \in x.rows
        \/ r \in Projects /\ RippleFor(x, r)
        \/ r \in Tasks /\ x.do = "ripple" /\ x.r \in Projects /\ x.r = ref[r]

\* A deletion may be refused, and end the request.
Owed(r) == ~At("delete") /\ Due(r)

\* What the merged duplicate shows ends with it.
Going(d) ==
    \E x \in Els(todo) :
        \/ x.do \in {"remove", "delete"} /\ x.r = d
        \/ x.do = "dissociate" /\ x.p = d

Late(p) == pair # <<>> /\ p = pair[2] /\ Going(p)

\* The row's formula is what the rows say.
Exact(r) ==
    /\ r \in Projects => total[r] = Rollup(r)
    /\ r \in Tasks => shown[r] = Lookup(ref[r])

Settled(r) == Exact(r) \/ Owed(r) \/ Late(r)

ExactInv == ~crashed => \A r \in Rows \ stale : Exists(r) => Settled(r)

\* References are moved by merges, which end with a removal.
RepointInv ==
    \A x \in Els(todo) :
        x.do = "repoint" => pair # <<>> /\ \E y \in Els(todo) : y.do = "remove" /\ y.r = x.d

\* Triggers have run before the next write.
Unfired ==
    \A i, j \in 1..Len(todo) :
        i < j /\ todo[i].do \in {"write task", "edit cell"} => todo[j].do # "fire"

\* What a trigger writes is recomputed by a ripple that follows it.
FireInv ==
    \A i \in 1..Len(todo) :
        todo[i].do = "fire" =>
            \E j \in 1..Len(todo) : i < j /\ RippleFor(todo[j], ref[todo[i].t])

FormulasInv == RefsInv /\ MergeInv /\ RepointInv /\ Unfired /\ FireInv /\ ExactInv

\* Nothing leads to a removal, a repoint or an edit of a cell; a trigger leads
\* only to more of the same row's.
LEMMA LeadsLess ==
  ASSUME NEW a, NEW s, Leads(a, s)
  PROVE  /\ s.do \notin {"repoint", "edit cell", "remove"}
         /\ s.do = "write task" => a.do = "edit cell"
         /\ a.do = "edit cell" => s.do = "write task"
         /\ s.do = "fire" => \/ a.do \in {"insert", "write task"}
                             \/ a.do = "fire" /\ s.t = a.t
<1>1. s.do \notin {"repoint", "edit cell", "remove"}
  BY LeadsKinds DEF Leads
<1>2. (s.do = "write task" => a.do = "edit cell") /\ (a.do = "edit cell" => s.do = "write task")
  BY LeadsKinds DEF Leads
<1>3. s.do = "fire" => \/ a.do \in {"insert", "write task"}
                       \/ a.do = "fire" /\ s.t = a.t
  <2>1. SUFFICES ASSUME s.do = "fire", a.do \notin {"insert", "write task"}
                 PROVE  a.do = "fire" /\ s.t = a.t
    OBVIOUS
  <2>2. FireLeads(a, s)
    BY <2>1, LeadsKinds DEF Leads
  <2>3. QED
    BY <2>1, <2>2 DEF FireLeads
<1>4. QED
  BY <1>1, <1>2, <1>3

\* A merge moves the references of the pair; the merged project is removed yet.
LEMMA RepointNow ==
  ASSUME RefsInv, MergeInv, RepointInv, Transaction, Repoint
  PROVE  /\ pair \in Projects \X Projects /\ This.s = pair[1] /\ This.d = pair[2]
         /\ pair[1] # pair[2]
         /\ \A x \in Els(todo) : MergeStep(x, pair[1], pair[2])
         /\ \E y \in Els(todo) : y.do = "remove" /\ y.r = pair[2]
<1>1. /\ TypeInv /\ todo \in Seq(Steps) /\ todo # <<>> /\ This.do = "repoint"
      /\ pair \in {<<>>} \cup (Projects \X Projects)
  BY Doing DEF RefsInv, TypeInv
<1>2. This \in Els(todo)
  BY <1>1, ElsTodo
<1>3. pair # <<>> /\ \E y \in Els(todo) : y.do = "remove" /\ y.r = This.d
  BY <1>1, <1>2 DEF RepointInv
<1>4. pair[1] # pair[2] /\ \A x \in Els(todo) : MergeStep(x, pair[1], pair[2])
  BY <1>1, <1>3 DEF MergeInv, Idle
<1>5. This.s = pair[1] /\ This.d = pair[2]
  BY <1>1, <1>2, <1>4 DEF MergeStep
<1>6. QED
  BY <1>1, <1>3, <1>4, <1>5

LEMMA RepointTransaction ==
  ASSUME RefsInv, MergeInv, RepointInv, Transaction
  PROVE  RepointInv'
<1>1. /\ TypeInv /\ TypeOK /\ Queued(todo) /\ todo \in Seq(Steps) /\ todo # <<>>
      /\ Els(todo) = {This} \cup Els(Tail(todo))
  BY Puts, ElsTodo DEF RefsInv, TypeInv
<1>2. Els(todo)' = Els(todo')
  BY DEF Els
<1>3. SUFFICES ASSUME NEW x \in Els(todo'), x.do = "repoint"
               PROVE  pair' # <<>> /\ \E y \in Els(todo') : y.do = "remove" /\ y.r = x.d
  BY <1>2 DEF RepointInv
<1>4. x \in Els(Tail(todo)) /\ x \in Els(todo) /\ Behind(This, x) /\ ~DeleteRefused
  <2>1. CASE ~RemoveRecord /\ Leads(This, x)
    BY <1>3, <2>1, LeadsLess
  <2>2. CASE RemoveRecord /\ This.r \in Rows /\ x \in Els(Removal(This.r))
    BY <1>1, <1>3, <2>2, RemovalAsked
  <2>3. QED
    BY <1>1, <1>3, <2>1, <2>2, NextEls
<1>5. pair # <<>> /\ \E y \in Els(todo) : y.do = "remove" /\ y.r = x.d
  BY <1>3, <1>4 DEF RepointInv
<1>6. This.do # "remove" /\ Els(Tail(todo)) \subseteq Els(todo')
  BY <1>1, <1>3, <1>4, NextEls DEF Behind
<1>7. pair' = pair
  BY <1>1, <1>5, MergeGoes
<1>8. QED
  BY <1>1, <1>5, <1>6, <1>7

LEMMA UnfiredTransaction ==
  ASSUME RefsInv, Unfired, Transaction
  PROVE  Unfired'
<1>1. /\ TypeInv /\ Queued(todo) /\ todo \in Seq(Steps) /\ todo # <<>>
      /\ (PutBy \/ DeleteRefused) /\ This = todo[1] /\ Len(todo) \in Nat \ {0}
  BY Puts, HeadTail DEF RefsInv, TypeInv
<1>2. SUFFICES ASSUME NEW i \in 1..Len(todo'), NEW j \in 1..Len(todo'), i < j,
                      todo'[i].do \in {"write task", "edit cell"}
               PROVE  todo'[j].do # "fire"
  BY DEF Unfired
<1>3. CASE DeleteRefused
  <2>1. todo'[i] \in Els(todo')
    BY DEF Els
  <2>2. QED
    BY <1>1, <1>2, <1>3, <2>1, QueueRefused
<1>4. CASE PutBy
  <2>1. PICK steps \in Seq(Steps) : Then(steps) /\ \A x \in Els(steps) : Leads(This, x)
    BY <1>4 DEF PutBy
  <2> DEFINE n == Len(steps)
  <2>2. /\ n \in Nat /\ Len(todo') = n + Len(todo) - 1
        /\ \A k \in 1..n : todo'[k] = steps[k]
        /\ \A k \in 1..Len(todo') : k > n => todo'[k] = todo[k - n + 1]
    BY <1>1, <2>1, ThenSteps
  <2>3. \A k \in 1..n : Leads(This, todo'[k])
    BY <2>1, <2>2 DEF Els
  <2> HIDE DEF n
  <2>4. \A k \in 1..Len(todo') : k > n => k - n + 1 \in 2..Len(todo) /\ k - n + 1 \in 1..Len(todo)
    BY <1>1, <2>2
  <2>5. CASE i > n
    <3>1. j > n /\ i - n + 1 < j - n + 1
      <4>1. i \in Nat /\ j \in Nat /\ n \in Nat /\ i < j /\ i > n
        <5>1. Len(todo') \in Nat
          BY <1>1, <2>2
        <5>2. i \in Nat /\ j \in Nat
          BY <5>1
        <5>3. QED
          BY <1>2, <2>2, <2>5, <5>2
      <4>2. QED
        BY <4>1
    <3>2. /\ todo'[i] = todo[i - n + 1] /\ todo'[j] = todo[j - n + 1]
          /\ i - n + 1 \in 1..Len(todo) /\ j - n + 1 \in 1..Len(todo)
      BY <2>2, <2>4, <2>5, <3>1
    <3>3. QED
      BY <1>2, <3>1, <3>2 DEF Unfired
  <2>6. CASE i <= n
    <3>1. i \in 1..n
      BY <2>2, <2>6
    <3>2. This.do = "edit cell"
      BY <1>2, <2>3, <3>1, LeadsLess
    <3>3. CASE j <= n
      <4>1. j \in 1..n
        BY <2>2, <3>3
      <4>2. QED
        BY <2>3, <3>2, <4>1, LeadsLess
    <3>4. CASE j > n
      <4>1. todo'[j] = todo[j - n + 1] /\ j - n + 1 \in 2..Len(todo)
        BY <2>2, <2>4, <3>4
      <4>2. 1 \in 1..Len(todo) /\ j - n + 1 \in 1..Len(todo) /\ 1 < j - n + 1
        BY <1>1, <2>2, <2>4, <3>4
      <4>3. QED
        BY <1>1, <3>2, <4>1, <4>2 DEF Unfired
    <3>5. QED
      BY <2>2, <3>3, <3>4
  <2>7. QED
    BY <2>2, <2>5, <2>6
<1>5. QED
  BY <1>1, <1>3, <1>4

\* What a trigger that waits will look at is where it was.
LEMMA FireRefs ==
  ASSUME RefsInv, MergeInv, RepointInv, Unfired, Transaction,
         NEW i \in 2..Len(todo), todo[i].do = "fire"
  PROVE  ref'[todo[i].t] = ref[todo[i].t]
<1> DEFINE s == todo[i]
<1>1. /\ TypeInv /\ TypeOK /\ Queued(todo) /\ todo \in Seq(Steps) /\ todo # <<>>
      /\ This = todo[1] /\ Len(todo) \in Nat \ {0}
  BY Puts, HeadTail DEF RefsInv, TypeInv
<1>2. /\ s \in Els(todo) /\ s \in Steps /\ s \in Els(Tail(todo))
  BY <1>1, ElsTodo DEF Els
<1>3. Sound(s) /\ Behind(This, s)
  BY <1>1, <1>2, Followers DEF RefsInv
<1>4. s.t \in Tasks /\ Exists(s.t)
  BY <1>2, <1>3, StepKinds DEF Sound, FireSteps
<1>5. ref \in [Tasks -> Projects \cup {None}]
  BY <1>1 DEF TypeOK
<1>6. This.do \notin {"remove", "dissociate", "delete"}
  BY <1>3 DEF Behind, Ending, Referring
<1> HIDE DEF s
<1>7. CASE Insert
  <2>1. PICK t \in Tasks : row[t] = "unused" /\ ref' = [ref EXCEPT ![t] = This.ref]
    BY <1>7 DEF Insert
  <2>2. s.t # t
    BY <1>4, <2>1 DEF Exists
  <2>3. ref'[s.t] = ref[s.t]
    BY <1>4, <1>5, <2>1, <2>2
  <2>4. QED
    BY <2>3 DEF s
<1>8. CASE WriteTask
  <2>1. This.do = "write task"
    BY <1>8, Doing
  <2>2. 1 \in 1..Len(todo) /\ i \in 1..Len(todo) /\ 1 < i
    BY <1>1
  <2>3. QED
    BY <1>1, <2>1, <2>2 DEF Unfired
<1>9. CASE Repoint
  <2>1. MergeStep(s, pair[1], pair[2])
    BY <1>2, <1>9, RepointNow
  <2>2. s.do = "fire"
    BY DEF s
  <2>3. QED
    BY <2>1, <2>2 DEF MergeStep
<1>10. CASE ~Insert /\ ~WriteTask /\ ~Repoint
  <2>1. ~ClearFk /\ ~DropChildren /\ ~Delete
    BY <1>6, Doing
  <2>2. ref' = ref
    BY <1>10, <2>1 DEF Transaction, WriteProject, EditCell, RunRule, SkipRule, FireDone,
       Ripple, RefreshOne, RefreshDone, SetLinks, Unlink, Mark, RemoveRecord,
       DeleteRefused, DeleteFile, Detach, SaveFile, Attach, data
  <2>3. QED
    BY <2>2
<1>11. QED
  BY <1>7, <1>8, <1>9, <1>10

\* What was queued behind a trigger, or behind the step being done, is queued
\* behind what that step leads to.
LEMMA FireShift ==
  ASSUME RefsInv, FireInv, Transaction, NEW steps \in Seq(Steps), Then(steps),
         NEW i \in 1..Len(todo'), NEW k \in 1..Len(todo), todo[k].do = "fire",
         i <= Len(steps) + k - 1
  PROVE  \E j \in 1..Len(todo') : i < j /\ RippleFor(todo'[j], ref[todo[k].t])
<1> DEFINE n == Len(steps)
<1>1. /\ TypeInv /\ todo \in Seq(Steps) /\ todo # <<>> /\ Len(todo) \in Nat \ {0}
  BY Puts, HeadTail DEF RefsInv, TypeInv
<1>2. /\ n \in Nat /\ Len(todo') = n + Len(todo) - 1
      /\ \A m \in 1..Len(todo') : m > n => todo'[m] = todo[m - n + 1]
  BY <1>1, ThenSteps
<1>3. PICK j \in 1..Len(todo) : k < j /\ RippleFor(todo[j], ref[todo[k].t])
  BY DEF FireInv
<1> HIDE DEF n
<1>4. n = Len(steps)
  BY DEF n
<1>5. /\ n + j - 1 \in 1..Len(todo') /\ n + j - 1 > n /\ i < n + j - 1
      /\ (n + j - 1) - n + 1 = j
  BY <1>1, <1>2, <1>3, <1>4
<1>6. todo'[n + j - 1] = todo[j]
  BY <1>2, <1>5
<1>7. QED
  BY <1>3, <1>5, <1>6

LEMMA FireBehind ==
  ASSUME RefsInv, MergeInv, RepointInv, Unfired, FireInv, Transaction,
         NEW steps \in Seq(Steps), Then(steps),
         NEW i \in 1..Len(todo'), i > Len(steps), todo'[i].do = "fire"
  PROVE  \E j \in 1..Len(todo') : i < j /\ RippleFor(todo'[j], ref'[todo'[i].t])
<1> DEFINE n == Len(steps)
           k == i - n + 1
<1>1. /\ TypeInv /\ todo \in Seq(Steps) /\ todo # <<>> /\ Len(todo) \in Nat \ {0}
  BY Puts, HeadTail DEF RefsInv, TypeInv
<1>2. /\ n \in Nat /\ Len(todo') = n + Len(todo) - 1
      /\ \A m \in 1..Len(todo') : m > n => todo'[m] = todo[m - n + 1]
  BY <1>1, ThenSteps
<1>3. n = Len(steps)
  OBVIOUS
<1> HIDE DEF n
<1>4. k \in 1..Len(todo) /\ k \in 2..Len(todo) /\ i <= Len(steps) + k - 1
  BY <1>1, <1>2, <1>3
<1>5. todo'[i] = todo[k]
  BY <1>2, <1>3
<1> HIDE DEF k
<1>6. ref'[todo[k].t] = ref[todo[k].t]
  BY <1>4, <1>5, FireRefs
<1>7. \E j \in 1..Len(todo') : i < j /\ RippleFor(todo'[j], ref[todo[k].t])
  BY <1>4, <1>5, FireShift
<1>8. QED
  BY <1>5, <1>6, <1>7

LEMMA FireTransaction ==
  ASSUME RefsInv, MergeInv, RepointInv, Unfired, FireInv, Transaction
  PROVE  FireInv'
<1>1. /\ TypeInv /\ TypeOK /\ Queued(todo) /\ todo \in Seq(Steps) /\ todo # <<>>
      /\ (PutBy \/ DeleteRefused) /\ This = todo[1] /\ Len(todo) \in Nat \ {0}
  BY Puts, HeadTail DEF RefsInv, TypeInv
<1>2. SUFFICES ASSUME NEW i \in 1..Len(todo'), todo'[i].do = "fire"
               PROVE  \E j \in 1..Len(todo') : i < j /\ RippleFor(todo'[j], ref'[todo'[i].t])
  BY DEF FireInv, RippleFor
<1>3. CASE DeleteRefused
  <2>1. todo'[i] \in Els(todo')
    BY DEF Els
  <2>2. QED
    BY <1>1, <1>2, <1>3, <2>1, QueueRefused
<1>4. CASE Insert
  <2>1. PICK t \in Tasks :
          /\ ref' = [ref EXCEPT ![t] = This.ref]
          /\ Then(<<[do |-> "fire", event |-> "create", t |-> t, old |-> None,
                     k |-> 1, depth |-> This.depth],
                    [do |-> "ripple", r |-> t, ref |-> This.ref]>>
                  \o IF This.file THEN <<[do |-> "save", t |-> t]>> ELSE <<>>)
    BY <1>4 DEF Insert
  <2> DEFINE a == [do |-> "fire", event |-> "create", t |-> t, old |-> None,
                   k |-> 1, depth |-> This.depth]
             b == [do |-> "ripple", r |-> t, ref |-> This.ref]
             d == [do |-> "save", t |-> t]
             c == IF This.file THEN <<d>> ELSE <<>>
             u == <<a, b>> \o c
  <2>2. This \in InsertSteps
    BY <1>1, <1>4, HeadTail, StepKinds, Doing
  <2>3. a \in Steps /\ b \in Steps /\ d \in Steps
    BY <2>2, StepMakers DEF InsertSteps, Rows
  <2>4. a.t = t /\ b.do = "ripple" /\ b.r = t /\ b.ref = This.ref /\ d.do = "save"
    OBVIOUS
  <2>5. Then(u)
    BY <2>1
  <2>6. ref'[t] = This.ref
    BY <1>1, <2>1 DEF TypeOK
  <2> HIDE DEF a, b, d
  <2>7. c \in Seq(Steps) /\ Len(c) \in 0..1 /\ (Len(c) = 1 => c[1] = d)
    <3>1. CASE This.file
      BY <2>3, <3>1, StepSeqs
    <3>2. CASE ~This.file
      BY <3>2, StepSeqs
    <3>3. QED
      BY <3>1, <3>2
  <2> HIDE DEF c
  <2>8. u \in Seq(Steps) /\ u # <<>> /\ Len(u) = 2 + Len(c) /\ u[1] = a /\ u[2] = b
    BY <2>3, <2>7, Led
  <2>9. Len(c) = 1 => u[3] = d
    <3>1. <<a, b>> \in Seq(Steps) /\ Len(<<a, b>>) = 2
      BY <2>3, StepSeqs
    <3>2. \A m \in 1..Len(c) : u[2 + m] = c[m]
      BY <2>7, <3>1, After
    <3>3. QED
      BY <2>7, <3>2
  <2> HIDE DEF u
  <2>10. Len(todo') >= Len(u) /\ \A m \in 1..Len(u) : todo'[m] = u[m]
    BY <1>1, <2>5, <2>8, HeadThen
  <2>11. Len(todo') \in Nat
    BY <1>1, TodoTransaction
  <2>12. CASE i > Len(u)
    BY <1>2, <2>5, <2>8, <2>12, FireBehind
  <2>13. CASE i <= Len(u)
    <3>1. i \in 1..Len(u) /\ i \in {1, 2, 3} /\ 1 \in 1..Len(u) /\ 2 \in 1..Len(u)
          /\ 2 \in 1..Len(todo') /\ (i = 3 => Len(c) = 1)
      <4>1. i \in 1..Len(u) /\ 1 \in 1..Len(u) /\ 2 \in 1..Len(u)
        BY <2>7, <2>8, <2>13
      <4>2. Len(c) = 0 \/ Len(c) = 1
        BY <2>7
      <4>3. i \in {1, 2, 3} /\ (i = 3 => Len(c) = 1)
        <5>1. CASE Len(c) = 0
          <6>1. Len(u) = 2
            BY <2>8, <5>1
          <6>2. QED
            BY <4>1, <6>1
        <5>2. CASE Len(c) = 1
          <6>1. Len(u) = 3
            BY <2>8, <5>2
          <6>2. i \in {1, 2, 3}
            BY <4>1, <6>1
          <6>3. QED
            BY <5>2, <6>2
        <5>3. QED
          BY <4>2, <5>1, <5>2
      <4>4. 2 \in 1..Len(todo')
        BY <2>10, <2>11, <4>1
      <4>5. QED
        BY <4>1, <4>3, <4>4
    <3>2. i = 1
      BY <1>2, <2>4, <2>8, <2>9, <2>10, <3>1
    <3>3. todo'[i] = a /\ todo'[2] = b
      BY <2>8, <2>10, <3>1, <3>2
    <3>4. RippleFor(todo'[2], ref'[todo'[i].t])
      BY <2>4, <2>6, <3>3 DEF RippleFor
    <3>5. QED
      BY <3>1, <3>2, <3>4
  <2>14. QED
    BY <2>7, <2>8, <2>12, <2>13
<1>5. CASE WriteTask
  <2> DEFINE t == This.t
             a == [do |-> "fire", event |-> "update", t |-> t, old |-> value[t],
                   k |-> 1, depth |-> 0]
             b == [do |-> "ripple", r |-> t, ref |-> This.ref]
             u == <<a, b>>
  <2>1. This \in WriteTaskSteps
    BY <1>1, <1>5, HeadTail, StepKinds, Doing
  <2>2. t \in Tasks /\ ref' = [ref EXCEPT ![t] = This.ref] /\ Then(u)
    BY <1>5, <2>1 DEF WriteTask, WriteTaskSteps
  <2>3. a \in Steps /\ b \in Steps
    <3>1. This.ref \in Projects \cup {None} /\ This.t \in Tasks /\ This.t \in Rows
      BY <2>1 DEF WriteTaskSteps, Rows
    <3>2. value[This.t] \in Values \cup {None}
      BY <1>1, <3>1 DEF TypeOK
    <3>3. 0 \in 0..MaxDepth
      BY RecordsAssumption
    <3>4. QED
      BY <3>1, <3>2, <3>3, StepMakers
  <2>4. a.t = t /\ b.do = "ripple" /\ b.r = t /\ b.ref = This.ref
    OBVIOUS
  <2>5. ref'[t] = This.ref
    BY <1>1, <2>2 DEF TypeOK
  <2> HIDE DEF a, b
  <2>6. u \in Seq(Steps) /\ u # <<>> /\ Len(u) = 2 /\ u[1] = a /\ u[2] = b
    BY <2>3, StepSeqs
  <2> HIDE DEF u
  <2>7. Len(todo') >= Len(u) /\ \A m \in 1..Len(u) : todo'[m] = u[m]
    BY <1>1, <2>2, <2>6, HeadThen
  <2>8. Len(todo') \in Nat
    BY <1>1, TodoTransaction
  <2>9. CASE i > Len(u)
    BY <1>2, <2>2, <2>6, <2>9, FireBehind
  <2>10. CASE i <= Len(u)
    <3>1. i \in 1..Len(u) /\ i \in {1, 2} /\ 1 \in 1..Len(u) /\ 2 \in 1..Len(u)
          /\ 2 \in 1..Len(todo')
      BY <2>6, <2>7, <2>8, <2>10
    <3>2. i = 1
      BY <1>2, <2>4, <2>6, <2>7, <3>1
    <3>3. todo'[i] = a /\ todo'[2] = b
      BY <2>6, <2>7, <3>1, <3>2
    <3>4. RippleFor(todo'[2], ref'[todo'[i].t])
      BY <2>2, <2>4, <2>5, <3>3 DEF RippleFor
    <3>5. QED
      BY <3>1, <3>2, <3>4
  <2>11. QED
    BY <2>6, <2>9, <2>10
<1>6. CASE ~Insert /\ ~WriteTask /\ ~DeleteRefused
  <2>1. PICK steps \in Seq(Steps) : Then(steps) /\ \A x \in Els(steps) : Leads(This, x)
    BY <1>1, <1>6 DEF PutBy
  <2>2. Len(steps) \in Nat /\ \A m \in 1..Len(steps) : todo'[m] = steps[m]
    BY <1>1, <2>1, ThenSteps
  <2>3. CASE i > Len(steps)
    BY <1>2, <2>1, <2>3, FireBehind
  <2>4. CASE i <= Len(steps)
    <3>1. i \in 1..Len(steps) /\ todo'[i] = steps[i]
      BY <2>2, <2>4
    <3>2. Leads(This, todo'[i])
      BY <2>1, <3>1 DEF Els
    <3>3. \/ This.do \in {"insert", "write task"}
          \/ This.do = "fire" /\ todo'[i].t = This.t
      BY <1>2, <3>2, LeadsLess
    <3>4. This.do = "fire" /\ todo'[i].t = This.t /\ ref' = ref
      <4>1. This.do # "insert" /\ This.do # "write task"
        BY <1>6, Doing
      <4>2. RunRule \/ SkipRule \/ FireDone
        BY <3>3, <4>1, Doing
      <4>3. QED
        BY <3>3, <4>1, <4>2 DEF RunRule, SkipRule, FireDone, data
    <3>5. 1 \in 1..Len(todo) /\ i <= Len(steps) + 1 - 1 /\ todo[1].do = "fire"
      BY <1>1, <2>2, <2>4, <3>4
    <3>6. \E j \in 1..Len(todo') : i < j /\ RippleFor(todo'[j], ref[todo[1].t])
      BY <2>1, <3>5, FireShift
    <3>7. QED
      BY <1>1, <3>4, <3>6
  <2>5. QED
    BY <2>2, <2>3, <2>4
<1>7. QED
  BY <1>3, <1>4, <1>5, <1>6

\* A deletion is refused or done at once, before anything is recomputed.
LEMMA NotDeleting ==
  ASSUME TypeInv, Queued(todo), Transaction, This.do # "remove"
  PROVE  ~At("delete")'
<1>1. SUFFICES ASSUME At("delete")'
               PROVE  FALSE
  OBVIOUS
<1>2. todo' # <<>> /\ This'.do = "delete"
  BY <1>1, AtThis
<1>3. This'.do = "delete" => RemoveRecord
  BY <1>2, ImmediateHead DEF Immediate
<1>4. QED
  BY <1>2, <1>3, Doing

\* What a row counts or shows changes only with the columns it looks at.
LEMMA ExactSame ==
  ASSUME TypeOK, NEW r \in Rows, Exact(r),
         r \in Projects =>
             /\ total'[r] = total[r]
             /\ \A t \in Tasks : (Exists(t) /\ ref[t] = r /\ value[t] # None)'
                                    <=> (Exists(t) /\ ref[t] = r /\ value[t] # None),
         r \in Tasks =>
             /\ shown'[r] = shown[r] /\ ref'[r] = ref[r]
             /\ ref[r] # None => note'[ref[r]] = note[ref[r]]
  PROVE  Exact(r)'
<1>1. ASSUME r \in Projects
      PROVE  total'[r] = Rollup(r)'
  <2>1. {t \in Children(r) : value[t] # None}
          = {t \in Tasks : Exists(t) /\ ref[t] = r /\ value[t] # None}
    BY DEF Children
  <2>2. {t \in Children(r) : value[t] # None}'
          = {t \in Tasks : (Exists(t) /\ ref[t] = r /\ value[t] # None)'}
    BY DEF Children
  <2>3. {t \in Children(r) : value[t] # None}' = {t \in Children(r) : value[t] # None}
    BY <1>1, <2>1, <2>2
  <2>4. Rollup(r)' = Rollup(r)
    BY <2>3 DEF Rollup
  <2>5. QED
    BY <1>1, <2>4 DEF Exact
<1>2. ASSUME r \in Tasks
      PROVE  shown'[r] = Lookup(ref[r])'
  BY <1>2 DEF Exact, Lookup
<1>3. QED
  BY <1>1, <1>2 DEF Exact

\* What is due is recomputed, or stays due.
LEMMA DueStays ==
  ASSUME RefsInv, Transaction, NEW r \in Rows, Exists(r), Owed(r),
         r \in Tasks => ref'[r] = ref[r]
  PROVE  Owed(r)' \/ Exact(r)'
<1>1. /\ TypeInv /\ TypeOK /\ Queued(todo) /\ todo \in Seq(Steps) /\ todo # <<>>
      /\ Els(todo) = {This} \cup Els(Tail(todo)) /\ Els(todo) \subseteq Steps
  BY Puts, ElsTodo DEF RefsInv, TypeInv
<1>2. Els(todo)' = Els(todo')
  BY DEF Els
<1>3. This.do # "delete"
  BY <1>1, AtThis DEF Owed
<1>4. PICK x \in Els(todo) :
        \/ x.do = "refresh" /\ r \in x.rows
        \/ r \in Projects /\ RippleFor(x, r)
        \/ r \in Tasks /\ x.do = "ripple" /\ x.r \in Projects /\ x.r = ref[r]
  BY DEF Owed, Due
<1>5. x.do \in {"ripple", "refresh"}
  BY <1>4 DEF RippleFor
<1>6. This.do # "remove"
  BY <1>1, <1>4, <1>5, Followers DEF Behind
<1>7. ~At("delete")' /\ ~DeleteRefused
  BY <1>1, <1>3, <1>6, NotDeleting, Doing
<1>8. CASE x \in Els(Tail(todo))
  <2>1. x \in Els(todo')
    BY <1>1, <1>7, <1>8, NextEls
  <2>2. \/ x.do = "refresh" /\ r \in x.rows
        \/ r \in Projects /\ RippleFor(x, r)
        \/ r \in Tasks /\ x.do = "ripple" /\ x.r \in Projects /\ x.r = ref'[r]
    BY <1>4
  <2>3. Due(r)'
    BY <1>2, <2>1, <2>2 DEF Due, RippleFor
  <2>4. QED
    BY <1>7, <2>3 DEF Owed
<1>9. CASE x = This /\ Ripple
  <2> DEFINE S == IF This.r \in Projects THEN Children(This.r) ELSE {This.ref} \ {None}
             y == [do |-> "refresh", rows |-> S]
  <2>1. Then(<<y>>)
    BY <1>9 DEF Ripple
  <2>2. y.do = "refresh" /\ y.rows = S
    OBVIOUS
  <2>3. r \in S
    <3>1. This.do = "ripple"
      BY <1>9, Doing
    <3>2. CASE r \in Projects /\ RippleFor(This, r)
      BY <3>2, RecordsAssumption DEF RippleFor
    <3>3. CASE r \in Tasks /\ This.r \in Projects /\ This.r = ref[r]
      BY <3>3 DEF Children
    <3>4. QED
      BY <1>4, <1>9, <3>1, <3>2, <3>3
  <2>4. This \in Steps
    BY <1>1
  <2>5. This \in RippleSteps
    BY <1>9, <2>4, StepKinds, Doing
  <2>6. S \subseteq Rows
    BY <2>5, RecordsAssumption DEF RippleSteps, Rows, Children
  <2> HIDE DEF S
  <2>7. y \in Steps
    BY <2>6, StepMakers
  <2> HIDE DEF y
  <2>8. <<y>> \in Seq(Steps) /\ Els(<<y>>) = {y}
    BY <2>7, StepSeqs, ElsOf
  <2>9. y \in Els(todo')
    BY <1>1, <2>1, <2>8, ElsThen
  <2>10. Due(r)'
    BY <1>2, <2>2, <2>3, <2>9 DEF Due
  <2>11. QED
    BY <1>7, <2>10 DEF Owed
<1>10. CASE x = This /\ RefreshOne
  <2>1. This.do = "refresh"
    BY <1>10, Doing
  <2>2. This \in RefreshSteps
    BY <1>1, <2>1, StepKinds
  <2>3. r \in This.rows
    BY <1>4, <1>10, <2>1 DEF RippleFor
  <2>4. PICK q \in This.rows :
          /\ IF Exists(q) THEN Refresh(q) ELSE UNCHANGED <<total, shown, stale>>
          /\ Then(<<[This EXCEPT !.rows = @ \ {q}]>>)
    BY <1>10 DEF RefreshOne
  <2>5. row' = row /\ ref' = ref /\ value' = value /\ note' = note
    BY <1>10 DEF RefreshOne
  <2>6. CASE q = r
    <3>1. Refresh(r)
      BY <2>4, <2>6
    <3>2. CASE r \in Projects
      <4>1. total' = [total EXCEPT ![r] = Rollup(r)]
        BY <3>1, <3>2 DEF Refresh
      <4>2. total'[r] = Rollup(r)
        BY <1>1, <3>2, <4>1 DEF TypeOK
      <4>3. Rollup(r)' = Rollup(r)
        BY <2>5 DEF Rollup, Children, Exists
      <4>4. r \notin Tasks
        BY <3>2, RecordsAssumption
      <4>5. QED
        BY <4>2, <4>3, <4>4 DEF Exact
    <3>3. CASE r \in Tasks
      <4>1. r \notin Projects
        BY <3>3, RecordsAssumption
      <4>2. shown' = [shown EXCEPT ![r] = Lookup(ref[r])]
        BY <3>1, <4>1 DEF Refresh
      <4>3. shown'[r] = Lookup(ref[r])
        BY <1>1, <3>3, <4>2 DEF TypeOK
      <4>4. Lookup(ref[r])' = Lookup(ref[r])
        BY <2>5 DEF Lookup
      <4>5. QED
        BY <4>1, <4>3, <4>4 DEF Exact
    <3>4. QED
      BY <3>2, <3>3 DEF Rows
  <2>7. CASE q # r
    <3> DEFINE y == [This EXCEPT !.rows = @ \ {q}]
    <3>1. y \in RefreshSteps /\ y.do = "refresh" /\ r \in y.rows
      BY <2>2, <2>3, <2>7 DEF RefreshSteps
    <3>2. y \in Steps
      BY <3>1 DEF Steps
    <3>3. Then(<<y>>)
      BY <2>4
    <3> HIDE DEF y
    <3>4. <<y>> \in Seq(Steps) /\ Els(<<y>>) = {y}
      BY <3>2, StepSeqs, ElsOf
    <3>5. y \in Els(todo')
      BY <1>1, <3>3, <3>4, ElsThen
    <3>6. Due(r)'
      BY <1>2, <3>1, <3>5 DEF Due
    <3>7. QED
      BY <1>7, <3>6 DEF Owed
  <2>8. QED
    BY <2>6, <2>7
<1>11. CASE x = This /\ RefreshDone
  <2>1. This.do = "refresh" /\ This.rows = {}
    BY <1>11, Doing DEF RefreshDone
  <2>2. QED
    BY <1>4, <1>11, <2>1 DEF RippleFor
<1>12. x = This => Ripple \/ RefreshOne \/ RefreshDone
  BY <1>5, Doing
<1>13. QED
  BY <1>1, <1>4, <1>8, <1>9, <1>10, <1>11, <1>12

\* What a removal takes from a project comes, whatever the design.
LEMMA RemovalGoes ==
  ASSUME TypeOK, NEW p \in Projects
  PROVE  \E x \in Els(Removal(p)) :
            \/ x.do = "delete" /\ x.r = p
            \/ x.do = "dissociate" /\ x.p = p
<1>1. p \in Rows /\ (design.soft \/ ~design.soft)
  BY DEF Rows
<1>2. CASE ~design.soft
  <2>1. DeleteOf(p) \in Els(Removal(p))
    BY <1>1, <1>2, RemovalSteps
  <2>2. QED
    BY <2>1, PartsOf
<1>3. CASE design.soft
  <2>1. PICK last \in {<<>>, <<RippleOf(p)>>} :
          /\ last \in Seq(Steps)
          /\ UnlinkOf(p) \in Steps /\ LooseOf(p) \in Steps /\ MarkOf(p) \in Steps
          /\ Removal(p) = <<UnlinkOf(p), LooseOf(p), MarkOf(p)>> \o last
    BY <1>1, <1>3, RemovalParts
  <2>2. LooseOf(p).do = "dissociate" /\ LooseOf(p).p = p
    BY PartsOf
  <2> DEFINE a == UnlinkOf(p)
             b == LooseOf(p)
             c == MarkOf(p)
             u == <<a, b, c>> \o last
  <2> HIDE DEF a, b, c
  <2>3. a \in Steps /\ b \in Steps /\ c \in Steps /\ Removal(p) = u
    BY <2>1 DEF a, b, c
  <2>4. Len(u) = 3 + Len(last) /\ u[2] = b /\ Len(last) \in Nat
    BY <2>1, <2>3, Led
  <2> HIDE DEF u
  <2>5. 2 \in 1..Len(u)
    BY <2>4
  <2>6. b \in Els(Removal(p))
    BY <2>3, <2>4, <2>5 DEF Els
  <2>7. QED
    BY <2>2, <2>6 DEF b
<1>4. QED
  BY <1>1, <1>2, <1>3

\* The duplicate of a merge is on its way out until it is dissociated or gone.
LEMMA LateStays ==
  ASSUME RefsInv, MergeInv, Transaction, NEW p \in Projects, Late(p)
  PROVE  Late(p)' \/ p \in stale' \/ ~Exists(p)'
<1>1. /\ TypeInv /\ TypeOK /\ Queued(todo) /\ todo \in Seq(Steps) /\ todo # <<>>
      /\ Els(todo) = {This} \cup Els(Tail(todo)) /\ Els(todo) \subseteq Steps
  BY Puts, ElsTodo DEF RefsInv, TypeInv
<1>2. Els(todo)' = Els(todo')
  BY DEF Els
<1>3. pair # <<>> /\ p = pair[2] /\ Going(p)
  BY DEF Late
<1>4. ~DeleteRefused /\ pair' = pair
  BY <1>1, <1>3, MergeGoes
<1>5. Going(p)' => Late(p)'
  BY <1>3, <1>4 DEF Late
<1>6. PICK x \in Els(todo) : \/ x.do \in {"remove", "delete"} /\ x.r = p
                             \/ x.do = "dissociate" /\ x.p = p
  BY <1>3 DEF Going
<1>7. CASE x \in Els(Tail(todo))
  <2>1. x \in Els(todo')
    BY <1>1, <1>4, <1>7, NextEls
  <2>2. QED
    BY <1>2, <1>5, <1>6, <2>1 DEF Going
<1>8. CASE x = This /\ RemoveRecord
  <2>1. This.r = p
    BY <1>6, <1>8, Doing
  <2>2. Els(Removal(p)) \subseteq Els(todo')
    BY <1>1, <1>8, <2>1, NextEls
  <2>3. \E y \in Els(todo') : \/ y.do = "delete" /\ y.r = p
                              \/ y.do = "dissociate" /\ y.p = p
    BY <1>1, <2>2, RemovalGoes
  <2>4. QED
    BY <1>2, <1>5, <2>3 DEF Going
<1>9. CASE x = This /\ Delete
  <2>1. This.r = p
    BY <1>6, <1>9, Doing
  <2>2. p \in Rows
    BY DEF Rows
  <2>3. row'[p] = "gone"
    BY <1>9, <2>1, <2>2 DEF Delete
  <2>4. QED
    BY <2>3 DEF Exists
<1>10. CASE x = This /\ (ClearFk \/ DropChildren)
  <2>1. This.p = p
    BY <1>6, <1>10, Doing
  <2>2. QED
    BY <1>10, <2>1 DEF ClearFk, DropChildren
<1>11. x = This => RemoveRecord \/ Delete \/ ClearFk \/ DropChildren
  BY <1>4, <1>6, Doing
<1>12. QED
  BY <1>1, <1>6, <1>7, <1>8, <1>9, <1>10, <1>11

\* A row that no step of the transaction touches keeps what was said of it.
LEMMA SettledKept ==
  ASSUME RefsInv, MergeInv, Transaction, NEW r \in Rows, Exists(r), Exists(r)',
         r \notin stale', Settled(r), Exact(r) => Exact(r)',
         r \in Tasks => ref'[r] = ref[r]
  PROVE  Settled(r)'
<1>1. CASE Exact(r)
  BY <1>1 DEF Settled
<1>2. CASE Owed(r)
  BY <1>2, DueStays DEF Settled
<1>3. CASE Late(r)
  <2>1. r \in Projects
    BY <1>3 DEF Late, RefsInv, TypeInv
  <2>2. QED
    BY <1>3, <2>1, LateStays DEF Settled
<1>4. QED
  BY <1>1, <1>2, <1>3 DEF Settled

\* What the transactions below are about, as its parts.
LEMMA Formulas ==
  ASSUME FormulasInv, ~crashed, Transaction, NEW r \in Rows
  PROVE  /\ TypeInv /\ TypeOK /\ RefsInv /\ MergeInv /\ Queued(todo) /\ NoDanglingReference
         /\ todo \in Seq(Steps) /\ todo # <<>> /\ This \in Steps /\ Sound(This)
         /\ This \in Els(todo) /\ Els(todo) = {This} \cup Els(Tail(todo))
         /\ ref \in [Tasks -> Projects \cup {None}]
         /\ Projects \cap Tasks = {} /\ None \notin Projects /\ Rows = Projects \cup Tasks
         /\ row \in [Rows -> {"unused", "live", "trash", "gone"}]
         /\ r \notin stale /\ Exists(r) => Settled(r)
         /\ r \in Tasks /\ Exists(r) => ref[r] = None \/ ref[r] \in Projects
<1>1. TypeInv /\ RefsInv /\ MergeInv /\ NoDanglingReference
  BY DEF FormulasInv, RefsInv
<1>2. /\ todo \in Seq(Steps) /\ todo # <<>> /\ This \in Steps /\ Queued(todo)
      /\ This \in Els(todo) /\ Els(todo) = {This} \cup Els(Tail(todo))
  BY <1>1, Puts, HeadTail, ElsTodo DEF TypeInv, RefsInv
<1>3. /\ ref \in [Tasks -> Projects \cup {None}]
      /\ row \in [Rows -> {"unused", "live", "trash", "gone"}]
  BY <1>1 DEF TypeInv, TypeOK
<1>4. Sound(This)
  BY <1>1, <1>2 DEF RefsInv
<1>5. r \notin stale /\ Exists(r) => Settled(r)
  BY DEF FormulasInv, ExactInv
<1>6. Projects \cap Tasks = {} /\ None \notin Projects /\ Rows = Projects \cup Tasks
  BY RecordsAssumption DEF Rows
<1>7. QED
  BY <1>1, <1>2, <1>3, <1>4, <1>5, <1>6 DEF TypeInv

\* A ripple of a task that has been queued makes its project due.
LEMMA RippleQueued ==
  ASSUME ~At("delete")', NEW x \in Els(todo'), NEW r \in Projects, RippleFor(x, r)
  PROVE  Owed(r)'
<1>1. Els(todo)' = Els(todo')
  BY DEF Els
<1>2. Due(r)'
  BY <1>1 DEF Due, RippleFor
<1>3. QED
  BY <1>2 DEF Owed

LEMMA InsertSettles ==
  ASSUME FormulasInv, ~crashed, Transaction, Insert, NEW r \in Rows, r \notin stale', Exists(r)'
  PROVE  Settled(r)'
<1>1. PICK t \in Tasks :
        /\ row[t] = "unused"
        /\ row' = [row EXCEPT ![t] = "live"]
        /\ ref' = [ref EXCEPT ![t] = This.ref]
        /\ value' = [value EXCEPT ![t] = This.value]
        /\ shown' = [shown EXCEPT ![t] = Lookup(This.ref)]
        /\ Then(<<[do |-> "fire", event |-> "create", t |-> t, old |-> None,
                   k |-> 1, depth |-> This.depth],
                  [do |-> "ripple", r |-> t, ref |-> This.ref]>>
                \o IF This.file THEN <<[do |-> "save", t |-> t]>> ELSE <<>>)
  BY DEF Insert
<1>2. note' = note /\ total' = total /\ stale' = stale
  BY DEF Insert
<1>3. /\ ref' \in [Tasks -> Projects \cup {None, This.ref}] /\ ref'[t] = This.ref
      /\ \A x \in Tasks \ {t} : ref'[x] = ref[x] /\ shown'[x] = shown[x] /\ value'[x] = value[x]
      /\ \A x \in Rows \ {t} : row'[x] = row[x]
      /\ shown'[t] = Lookup(This.ref) /\ ~Exists(t)
  BY <1>1, Formulas DEF TypeOK, Exists
<1>4. CASE r = t
  <2>1. r \in Tasks /\ r \notin Projects
    BY <1>4, Formulas
  <2>2. Lookup(ref[t])' = Lookup(This.ref)
    BY <1>2, <1>3 DEF Lookup
  <2>3. Exact(r)'
    BY <1>3, <1>4, <2>1, <2>2 DEF Exact
  <2>4. QED
    BY <2>3 DEF Settled
<1>5. CASE r \in Projects /\ r = This.ref
  <2> DEFINE a == [do |-> "fire", event |-> "create", t |-> t, old |-> None,
                   k |-> 1, depth |-> This.depth]
             b == [do |-> "ripple", r |-> t, ref |-> This.ref]
             d == [do |-> "save", t |-> t]
             c == IF This.file THEN <<d>> ELSE <<>>
  <2>1. This.do = "insert"
    BY Doing
  <2>2. This \in InsertSteps
    BY <2>1, Formulas, StepKinds
  <2>3. a \in Steps /\ b \in Steps /\ d \in Steps
    BY <2>2, StepMakers DEF InsertSteps, Rows
  <2>4. RippleFor(b, r)
    BY <1>5 DEF RippleFor
  <2>5. Then(<<a, b>> \o c)
    BY <1>1
  <2> HIDE DEF a, b, d
  <2>6. c \in Seq(Steps) /\ <<a, b>> \in Seq(Steps)
    BY <2>3, StepSeqs
  <2> HIDE DEF c
  <2>7. Els(<<a, b>>) = {a, b} /\ Els(<<a, b>> \o c) = Els(<<a, b>>) \cup Els(c)
        /\ <<a, b>> \o c \in Seq(Steps)
    BY <2>6, ElsOf, StepSeqs
  <2>8. b \in Els(todo')
    BY <2>5, <2>7, ElsThen, Formulas
  <2>9. ~At("delete")'
    BY <2>1, NotDeleting, Formulas
  <2>10. Owed(r)'
    BY <1>5, <2>4, <2>8, <2>9, RippleQueued
  <2>11. QED
    BY <2>10 DEF Settled
<1>6. CASE r # t /\ ~(r \in Projects /\ r = This.ref)
  <2>1. Exists(r) /\ r \notin stale
    BY <1>2, <1>3, <1>6 DEF Exists
  <2>2. r \in Tasks => ref'[r] = ref[r] /\ shown'[r] = shown[r]
    BY <1>3, <1>6
  <2>3. ASSUME r \in Projects, NEW x \in Tasks
        PROVE  (Exists(x) /\ ref[x] = r /\ value[x] # None)'
                  <=> (Exists(x) /\ ref[x] = r /\ value[x] # None)
    <3>1. CASE x = t
      BY <1>3, <1>6, <2>3, <3>1
    <3>2. CASE x # t
      <4>1. x \in Rows
        BY <2>3, Formulas
      <4>2. Exists(x)' <=> Exists(x)
        BY <1>3, <3>2, <4>1 DEF Exists
      <4>3. QED
        BY <1>3, <2>3, <3>2, <4>2
    <3>3. QED
      BY <3>1, <3>2
  <2>4. Exact(r) => Exact(r)'
    BY <1>2, <2>2, <2>3, ExactSame, Formulas
  <2>5. QED
    BY <2>1, <2>2, <2>4, SettledKept, Formulas
<1>7. QED
  BY <1>4, <1>5, <1>6

LEMMA WriteSettles ==
  ASSUME FormulasInv, ~crashed, Transaction, WriteTask, NEW r \in Rows, r \notin stale', Exists(r)'
  PROVE  Settled(r)'
<1> DEFINE t == This.t
           a == [do |-> "fire", event |-> "update", t |-> t, old |-> value[t],
                 k |-> 1, depth |-> 0]
           b == [do |-> "ripple", r |-> t, ref |-> This.ref]
<1>1. This.do = "write task"
  BY Doing
<1>2. This \in WriteTaskSteps
  BY <1>1, Formulas, StepKinds
<1>3. /\ t \in Tasks /\ Exists(t) /\ This.ref \in Projects \cup {None}
      /\ value[t] \in Values \cup {None} /\ t \in Rows
  BY <1>1, <1>2, Formulas DEF WriteTaskSteps, Sound, TypeOK
<1>4. /\ row' = row /\ note' = note /\ total' = total
      /\ ref' = [ref EXCEPT ![t] = This.ref]
      /\ value' = [value EXCEPT ![t] = This.value]
      /\ shown' = [shown EXCEPT ![t] = Lookup(This.ref)]
      /\ stale' = (stale \ {t})
                    \cup (IF ref[t] \in Projects \ {This.ref} THEN {ref[t]} ELSE {})
      /\ Then(<<a, b>>)
  BY DEF WriteTask
<1>5. /\ ref'[t] = This.ref /\ shown'[t] = Lookup(This.ref)
      /\ \A x \in Tasks \ {t} : ref'[x] = ref[x] /\ shown'[x] = shown[x] /\ value'[x] = value[x]
  BY <1>3, <1>4, Formulas DEF TypeOK
<1>6. a \in Steps /\ b \in Steps
  <2>1. 0 \in 0..MaxDepth
    BY RecordsAssumption
  <2>2. QED
    BY <1>3, <2>1, StepMakers
<1>7. b.do = "ripple" /\ b.r = t /\ b.ref = This.ref
  OBVIOUS
<1> HIDE DEF a, b
<1>8. CASE r = t
  <2>1. r \in Tasks /\ r \notin Projects
    BY <1>3, <1>8, Formulas
  <2>2. Lookup(ref[r])' = Lookup(This.ref)
    BY <1>4, <1>5, <1>8 DEF Lookup
  <2>3. Exact(r)'
    BY <1>5, <1>8, <2>1, <2>2 DEF Exact
  <2>4. QED
    BY <2>3 DEF Settled
<1>9. CASE r \in Projects /\ r = This.ref
  <2>1. RippleFor(b, r)
    BY <1>3, <1>7, <1>9 DEF RippleFor
  <2>2. Els(<<a, b>>) = {a, b} /\ <<a, b>> \in Seq(Steps)
    BY <1>6, ElsOf, StepSeqs
  <2>3. b \in Els(todo')
    BY <1>4, <2>2, ElsThen, Formulas
  <2>4. ~At("delete")'
    BY <1>1, NotDeleting, Formulas
  <2>5. Owed(r)'
    BY <1>9, <2>1, <2>3, <2>4, RippleQueued
  <2>6. QED
    BY <2>5 DEF Settled
<1>10. CASE r # t /\ ~(r \in Projects /\ r = This.ref)
  <2>1. Exists(r) /\ r \notin stale
    BY <1>4, <1>10 DEF Exists
  <2>2. r \in Tasks => ref'[r] = ref[r] /\ shown'[r] = shown[r]
    BY <1>5, <1>10
  <2>3. r \in Projects => ref[t] # r
    BY <1>4, <1>10
  <2>4. ASSUME r \in Projects, NEW x \in Tasks
        PROVE  (Exists(x) /\ ref[x] = r /\ value[x] # None)'
                  <=> (Exists(x) /\ ref[x] = r /\ value[x] # None)
    <3>1. CASE x = t
      BY <1>5, <1>10, <2>3, <2>4, <3>1
    <3>2. CASE x # t
      BY <1>4, <1>5, <2>4, <3>2 DEF Exists
    <3>3. QED
      BY <3>1, <3>2
  <2>5. Exact(r) => Exact(r)'
    BY <1>4, <2>2, <2>4, ExactSame, Formulas
  <2>6. QED
    BY <2>1, <2>2, <2>5, SettledKept, Formulas
<1>11. QED
  BY <1>8, <1>9, <1>10

LEMMA ProjectSettles ==
  ASSUME FormulasInv, ~crashed, Transaction, WriteProject,
         NEW r \in Rows, r \notin stale', Exists(r)'
  PROVE  Settled(r)'
<1> DEFINE p == This.p
           b == [do |-> "ripple", r |-> p, ref |-> None]
<1>1. This.do = "write project"
  BY Doing
<1>2. This \in WriteProjectSteps
  BY <1>1, Formulas, StepKinds
<1>3. p \in Projects /\ p \in Rows
  BY <1>2, Formulas DEF WriteProjectSteps
<1>4. /\ row' = row /\ ref' = ref /\ value' = value /\ shown' = shown
      /\ note' = [note EXCEPT ![p] = This.note]
      /\ total' = [total EXCEPT ![p] = Rollup(p)]
      /\ stale' = stale \ {p}
      /\ Then(<<b>>)
  BY DEF WriteProject
<1>5. /\ total'[p] = Rollup(p)
      /\ \A x \in Projects \ {p} : total'[x] = total[x] /\ note'[x] = note[x]
  BY <1>3, <1>4, Formulas DEF TypeOK
<1>6. b \in Steps
  BY <1>3, StepMakers
<1>7. b.do = "ripple" /\ b.r = p
  OBVIOUS
<1> HIDE DEF b
<1>8. CASE r = p
  <2>1. r \in Projects /\ r \notin Tasks
    BY <1>3, <1>8, Formulas
  <2>2. Rollup(r)' = Rollup(r)
    BY <1>4 DEF Rollup, Children, Exists
  <2>3. Exact(r)'
    BY <1>5, <1>8, <2>1, <2>2 DEF Exact
  <2>4. QED
    BY <2>3 DEF Settled
<1>9. CASE r \in Tasks /\ ref[r] = p
  <2>1. Els(<<b>>) = {b} /\ <<b>> \in Seq(Steps)
    BY <1>6, ElsOf, StepSeqs
  <2>2. b \in Els(todo')
    BY <1>4, <2>1, ElsThen, Formulas
  <2>3. ~At("delete")'
    BY <1>1, NotDeleting, Formulas
  <2>4. Els(todo)' = Els(todo')
    BY DEF Els
  <2>5. Due(r)'
    BY <1>3, <1>4, <1>7, <1>9, <2>2, <2>4 DEF Due
  <2>6. QED
    BY <2>3, <2>5 DEF Owed, Settled
<1>10. CASE r # p /\ ~(r \in Tasks /\ ref[r] = p)
  <2>1. Exists(r) /\ r \notin stale
    BY <1>4, <1>10 DEF Exists
  <2>2. r \in Tasks /\ ref[r] # None => note'[ref[r]] = note[ref[r]]
    BY <1>5, <1>10, <2>1, Formulas
  <2>3. r \in Projects => total'[r] = total[r]
    BY <1>5, <1>10
  <2>4. \A x \in Tasks : (Exists(x) /\ ref[x] = r /\ value[x] # None)'
                            <=> (Exists(x) /\ ref[x] = r /\ value[x] # None)
    BY <1>4 DEF Exists
  <2>5. Exact(r) => Exact(r)'
    BY <1>4, <2>2, <2>3, <2>4, ExactSame, Formulas
  <2>6. QED
    BY <1>4, <2>1, <2>5, SettledKept, Formulas
<1>11. QED
  BY <1>8, <1>9, <1>10

LEMMA RuleSettles ==
  ASSUME FormulasInv, ~crashed, Transaction, RunRule, NEW r \in Rows, r \notin stale', Exists(r)'
  PROVE  Settled(r)'
<1>1. This.do = "fire"
  BY Doing
<1>2. This.t \in Tasks /\ Exists(This.t) /\ This.t \in Rows
  BY <1>1, StepKinds, Formulas DEF FireSteps, Sound
<1>3. /\ row' = row /\ ref' = ref /\ shown' = shown /\ note' = note /\ total' = total
      /\ stale' = stale
      /\ \/ value' = value
         \/ value' = [value EXCEPT ![This.t] = Rules[This.k].set]
  BY DEF RunRule
<1>4. \A x \in Tasks \ {This.t} : value'[x] = value[x]
  BY <1>3, Formulas DEF TypeOK
<1>5. Exists(r) /\ r \notin stale
  BY <1>3 DEF Exists
<1>6. CASE r \in Projects /\ r = ref[This.t]
  <2>1. This = todo[1] /\ Len(todo) \in Nat \ {0} /\ todo \in Seq(Steps) /\ todo # <<>>
    BY HeadTail, Formulas
  <2>2. PICK i \in 1..Len(todo) : i = 1
    BY <2>1
  <2>3. PICK j \in 1..Len(todo) : i < j /\ RippleFor(todo[j], ref[todo[i].t])
    BY <1>1, <2>1, <2>2 DEF FormulasInv, FireInv
  <2>4. j \in 2..Len(todo)
    BY <2>1, <2>2, <2>3
  <2>5. todo[j] \in Els(Tail(todo))
    BY <2>1, <2>4, ElsTodo
  <2>6. ~DeleteRefused /\ ~At("delete")'
    BY <1>1, Formulas, Doing, NotDeleting
  <2>7. todo[j] \in Els(todo')
    BY <2>5, <2>6, Formulas, NextEls
  <2>8. RippleFor(todo[j], r)
    BY <1>6, <2>1, <2>2, <2>3
  <2>9. Owed(r)'
    BY <1>6, <2>6, <2>7, <2>8, RippleQueued
  <2>10. QED
    BY <2>9 DEF Settled
<1>7. CASE ~(r \in Projects /\ r = ref[This.t])
  <2>1. ASSUME r \in Projects, NEW x \in Tasks
        PROVE  (Exists(x) /\ ref[x] = r /\ value[x] # None)'
                  <=> (Exists(x) /\ ref[x] = r /\ value[x] # None)
    <3>1. CASE x = This.t
      BY <1>3, <1>7, <2>1, <3>1
    <3>2. CASE x # This.t
      BY <1>3, <1>4, <2>1, <3>2 DEF Exists
    <3>3. QED
      BY <3>1, <3>2
  <2>2. Exact(r) => Exact(r)'
    BY <1>3, <2>1, ExactSame, Formulas
  <2>3. QED
    BY <1>3, <1>5, <2>2, SettledKept, Formulas
<1>8. QED
  BY <1>6, <1>7

LEMMA RefreshSettles ==
  ASSUME FormulasInv, ~crashed, Transaction, RefreshOne,
         NEW r \in Rows, r \notin stale', Exists(r)'
  PROVE  Settled(r)'
<1>1. This.do = "refresh"
  BY Doing
<1>2. This.rows \subseteq Rows
  BY <1>1, StepKinds, Formulas DEF RefreshSteps
<1>3. PICK q \in This.rows :
        IF Exists(q) THEN Refresh(q) ELSE UNCHANGED <<total, shown, stale>>
  BY DEF RefreshOne
<1>4. row' = row /\ ref' = ref /\ value' = value /\ note' = note
  BY DEF RefreshOne
<1>5. Exists(r)
  BY <1>4 DEF Exists
<1>6. \A x \in Tasks : (Exists(x) /\ ref[x] = r /\ value[x] # None)'
                          <=> (Exists(x) /\ ref[x] = r /\ value[x] # None)
  BY <1>4 DEF Exists
<1>7. CASE ~Exists(q)
  <2>1. total' = total /\ shown' = shown /\ stale' = stale
    BY <1>3, <1>7
  <2>2. Exact(r) => Exact(r)'
    BY <1>4, <1>6, <2>1, ExactSame, Formulas
  <2>3. QED
    BY <1>4, <1>5, <2>1, <2>2, SettledKept, Formulas
<1>8. CASE Exists(q) /\ r # q
  <2>1. /\ stale' = stale \ {q}
        /\ IF q \in Projects
           THEN total' = [total EXCEPT ![q] = Rollup(q)] /\ shown' = shown
           ELSE shown' = [shown EXCEPT ![q] = Lookup(ref[q])] /\ total' = total
    BY <1>3, <1>8 DEF Refresh
  <2>2. /\ r \in Projects => total'[r] = total[r]
        /\ r \in Tasks => shown'[r] = shown[r]
    BY <1>8, <2>1, Formulas DEF TypeOK
  <2>3. Exact(r) => Exact(r)'
    BY <1>4, <1>6, <2>2, ExactSame, Formulas
  <2>4. r \notin stale
    BY <1>8, <2>1
  <2>5. QED
    BY <1>4, <1>5, <2>3, <2>4, SettledKept, Formulas
<1>9. CASE Exists(q) /\ r = q
  <2>1. Refresh(r)
    BY <1>3, <1>9
  <2>2. Rollup(r)' = Rollup(r) /\ (r \in Tasks => Lookup(ref[r])' = Lookup(ref[r]))
    BY <1>4 DEF Rollup, Children, Exists, Lookup
  <2>3. CASE r \in Projects
    <3>1. total' = [total EXCEPT ![r] = Rollup(r)] /\ r \notin Tasks
      BY <2>1, <2>3, Formulas DEF Refresh
    <3>2. total'[r] = Rollup(r)
      BY <2>3, <3>1, Formulas DEF TypeOK
    <3>3. QED
      BY <2>2, <3>1, <3>2 DEF Exact, Settled
  <2>4. CASE r \in Tasks
    <3>1. r \notin Projects
      BY <2>4, Formulas
    <3>2. shown' = [shown EXCEPT ![r] = Lookup(ref[r])]
      BY <2>1, <3>1 DEF Refresh
    <3>3. shown'[r] = Lookup(ref[r])
      BY <2>4, <3>2, Formulas DEF TypeOK
    <3>4. QED
      BY <2>2, <2>4, <3>1, <3>3 DEF Exact, Settled
  <2>5. QED
    BY <2>3, <2>4, Formulas
<1>10. QED
  BY <1>7, <1>8, <1>9

LEMMA LooseSettles ==
  ASSUME FormulasInv, ~crashed, Transaction, ClearFk \/ DropChildren,
         NEW r \in Rows, r \notin stale', Exists(r)'
  PROVE  Settled(r)'
<1>1. This.do = "dissociate"
  BY Doing
<1>2. This.p \in Projects
  BY <1>1, StepKinds, Formulas DEF LooseSteps
<1> DEFINE S == Children(This.p)
<1>3. value' = value /\ shown' = shown /\ note' = note /\ total' = total
  BY DEF ClearFk, DropChildren
<1>4. /\ r # This.p /\ r \notin stale /\ r \notin S
      /\ Exists(r)
  <2>1. CASE ClearFk
    BY <2>1 DEF ClearFk, Exists
  <2>2. CASE DropChildren
    <3>1. row' = [x \in Rows |-> IF x \in S THEN "gone" ELSE row[x]]
          /\ stale' = stale \cup {This.p}
      BY <2>2 DEF DropChildren
    <3>2. QED
      BY <3>1 DEF Exists
  <2>3. QED
    BY <2>1, <2>2
<1>5. \A x \in Tasks : x \notin S => ref'[x] = ref[x] /\ (Exists(x)' <=> Exists(x))
  <2>1. CASE ClearFk
    BY <2>1 DEF ClearFk, Exists
  <2>2. CASE DropChildren
    BY <2>2, Formulas DEF DropChildren, Exists
  <2>3. QED
    BY <2>1, <2>2
<1>6. \A x \in S : x \in Tasks /\ ref[x] = This.p /\ (~Exists(x)' \/ ref'[x] = None)
  <2>1. \A x \in S : x \in Tasks /\ x \in Rows /\ ref[x] = This.p
    BY Formulas DEF Children
  <2>2. CASE ClearFk
    BY <2>1, <2>2 DEF ClearFk
  <2>3. CASE DropChildren
    BY <2>1, <2>3 DEF DropChildren, Exists
  <2>4. QED
    BY <2>1, <2>2, <2>3
<1> HIDE DEF S
<1>7. ASSUME r \in Projects, NEW x \in Tasks
      PROVE  (Exists(x) /\ ref[x] = r /\ value[x] # None)'
                <=> (Exists(x) /\ ref[x] = r /\ value[x] # None)
  <2>1. CASE x \in S
    <3>1. ref[x] # r /\ (~Exists(x)' \/ ref'[x] # r)
      BY <1>4, <1>6, <1>7, <2>1, Formulas
    <3>2. QED
      BY <3>1
  <2>2. CASE x \notin S
    <3>1. ref'[x] = ref[x] /\ (Exists(x)' <=> Exists(x))
      BY <1>5, <1>7, <2>2
    <3>2. QED
      BY <1>3, <3>1
  <2>3. QED
    BY <2>1, <2>2
<1>8. r \in Tasks => ref'[r] = ref[r]
  BY <1>4, <1>5
<1>9. Exact(r) => Exact(r)'
  BY <1>3, <1>7, <1>8, ExactSame, Formulas
<1>10. QED
  BY <1>4, <1>8, <1>9, SettledKept, Formulas

LEMMA DeleteSettles ==
  ASSUME FormulasInv, ~crashed, Transaction, Delete, NEW r \in Rows, r \notin stale', Exists(r)'
  PROVE  Settled(r)'
<1>1. This.do = "delete"
  BY Doing
<1>2. PICK d \in Rows : d = This.r
  BY <1>1, StepKinds, Formulas DEF RowSteps
<1>3. PICK hit : hit = IF d \in Projects THEN Children(d) ELSE {}
  OBVIOUS
<1>4. PICK lost : lost = IF design.onDelete = "CASCADE" THEN hit ELSE {}
  OBVIOUS
<1>5. /\ row' = [x \in Rows |-> IF x \in lost \cup {d} THEN "gone" ELSE row[x]]
      /\ ref' = [x \in Tasks |-> IF x \in hit \ lost THEN None ELSE ref[x]]
      /\ stale' = stale \cup hit \cup (IF d \in Tasks /\ ref[d] # None THEN {ref[d]} ELSE {})
      /\ value' = value /\ shown' = shown /\ note' = note /\ total' = total
  BY <1>2, <1>3, <1>4 DEF Delete
<1>6. /\ lost \subseteq hit /\ hit \subseteq Tasks /\ Tasks \subseteq Rows
      /\ \A x \in hit : d \in Projects /\ ref[x] = d
  BY <1>3, <1>4, Formulas DEF Children
<1>7. r \notin stale /\ r \notin hit /\ r # d /\ Exists(r)
  BY <1>5, <1>6 DEF Exists
<1>8. r \in Tasks => ref'[r] = ref[r]
  BY <1>5, <1>7
<1>9. ASSUME r \in Projects, NEW x \in Tasks
      PROVE  (Exists(x) /\ ref[x] = r /\ value[x] # None)'
                <=> (Exists(x) /\ ref[x] = r /\ value[x] # None)
  <2>1. CASE x \in hit
    <3>1. ref[x] # r
      BY <1>6, <1>7, <2>1
    <3>2. ref'[x] = None \/ ref'[x] = ref[x]
      BY <1>5, <1>9
    <3>3. ref'[x] # r
      BY <1>9, <3>1, <3>2, Formulas
    <3>4. QED
      BY <3>1, <3>3
  <2>2. CASE x = d
    <3>1. ref[x] # r
      BY <1>5, <1>9, <2>2, Formulas
    <3>2. row'[x] = "gone"
      BY <1>5, <1>6, <2>2
    <3>3. ~Exists(x)'
      BY <3>2 DEF Exists
    <3>4. QED
      BY <3>1, <3>3
  <2>3. CASE x \notin hit /\ x # d
    <3>1. row'[x] = row[x] /\ ref'[x] = ref[x]
      BY <1>5, <1>6, <1>9, <2>3
    <3>2. QED
      BY <1>5, <3>1 DEF Exists
  <2>4. QED
    BY <2>1, <2>2, <2>3
<1>10. Exact(r) => Exact(r)'
  BY <1>5, <1>8, <1>9, ExactSame, Formulas
<1>11. QED
  BY <1>7, <1>8, <1>10, SettledKept, Formulas

LEMMA RepointSettles ==
  ASSUME FormulasInv, ~crashed, Transaction, Repoint, NEW r \in Rows, r \notin stale', Exists(r)'
  PROVE  Settled(r)'
<1>1. This.do = "repoint"
  BY Doing
<1>2. PICK s \in Projects, d \in Projects : s = This.s /\ d = This.d
  BY <1>1, StepKinds, Formulas DEF RepointSteps
<1>3. PICK S : S = Children(d)
  OBVIOUS
<1>4. /\ ref' = [t \in Tasks |-> IF t \in S THEN s ELSE ref[t]]
      /\ stale' = stale \cup S \cup {s}
      /\ row' = row /\ value' = value /\ shown' = shown /\ note' = note /\ total' = total
      /\ pair' = pair
  BY <1>2, <1>3 DEF Repoint, past
<1>5. /\ pair # <<>> /\ d = pair[2]
      /\ \E y \in Els(todo) : y.do = "remove" /\ y.r = pair[2]
  <2>1. RefsInv /\ MergeInv /\ RepointInv
    BY DEF FormulasInv
  <2>2. /\ pair \in Projects \X Projects /\ This.d = pair[2]
        /\ \E y \in Els(todo) : y.do = "remove" /\ y.r = pair[2]
    BY <2>1, RepointNow
  <2>3. pair # <<>>
    BY <2>2
  <2>4. QED
    BY <1>2, <2>2, <2>3
<1>6. r \notin stale /\ r \notin S /\ r # s /\ Exists(r)
  BY <1>4 DEF Exists
<1>7. CASE r = d
  <2>1. PICK y \in Els(todo) : y.do = "remove" /\ y.r = d
    BY <1>5
  <2>2. y \in Els(Tail(todo))
    BY <1>1, <2>1, Formulas
  <2>3. y \in Els(todo')
    BY <1>1, <2>2, NextEls, Formulas, Doing
  <2>4. Els(todo)' = Els(todo')
    BY DEF Els
  <2>5. Going(d)'
    BY <2>1, <2>3, <2>4 DEF Going
  <2>6. Late(r)'
    BY <1>4, <1>5, <1>7, <2>5 DEF Late
  <2>7. QED
    BY <2>6 DEF Settled
<1>8. CASE r # d
  <2>1. r \in Tasks => ref'[r] = ref[r]
    BY <1>4, <1>6
  <2>2. ASSUME r \in Projects, NEW x \in Tasks
        PROVE  (Exists(x) /\ ref[x] = r /\ value[x] # None)'
                  <=> (Exists(x) /\ ref[x] = r /\ value[x] # None)
    <3>1. CASE x \in S
      <4>1. ref[x] = d /\ ref'[x] = s
        BY <1>3, <1>4, <2>2, <3>1 DEF Children
      <4>2. QED
        BY <1>6, <1>8, <4>1
    <3>2. CASE x \notin S
      BY <1>4, <2>2, <3>2 DEF Exists
    <3>3. QED
      BY <3>1, <3>2
  <2>3. Exact(r) => Exact(r)'
    BY <1>4, <2>1, <2>2, ExactSame, Formulas
  <2>4. QED
    BY <1>6, <2>1, <2>3, SettledKept, Formulas
<1>9. QED
  BY <1>7, <1>8

LEMMA ExactTransaction ==
  ASSUME FormulasInv, Transaction
  PROVE  ExactInv'
<1>1. SUFFICES ASSUME ~crashed, NEW r \in Rows, r \notin stale', Exists(r)'
               PROVE  Settled(r)'
  <2>1. crashed' = crashed
    BY ColumnsTransaction DEF FormulasInv, RefsInv
  <2>2. QED
    BY <2>1 DEF ExactInv, Rows
<1>2. CASE Insert \/ WriteTask \/ WriteProject \/ RunRule \/ RefreshOne \/ ClearFk
           \/ DropChildren \/ Delete \/ Repoint
  BY <1>1, <1>2, InsertSettles, WriteSettles, ProjectSettles, RuleSettles, RefreshSettles,
     LooseSettles, DeleteSettles, RepointSettles
<1>3. CASE ~Insert /\ ~WriteTask /\ ~WriteProject /\ ~RunRule /\ ~RefreshOne /\ ~ClearFk
           /\ ~DropChildren /\ ~Delete /\ ~Repoint
  <2>1. /\ ref' = ref /\ value' = value /\ shown' = shown /\ note' = note /\ total' = total
        /\ stale' = stale
    BY <1>3 DEF Transaction, EditCell, SkipRule, FireDone, Ripple, RefreshDone, SetLinks,
       Unlink, Mark, RemoveRecord, DeleteRefused, DeleteFile, Detach, SaveFile, Attach, data
  <2>2. \A x \in Rows : Exists(x)' <=> Exists(x)
    <3>1. CASE Mark
      <4>1. This.do = "mark"
        BY <3>1, Doing
      <4>2. This.state \in {"live", "trash"} /\ This.r \in Rows
        BY <1>1, <4>1, StepKinds, Formulas DEF MarkSteps
      <4>3. row' = IF Exists(This.r) THEN [row EXCEPT ![This.r] = This.state] ELSE row
        BY <3>1 DEF Mark
      <4>4. QED
        BY <1>1, <4>2, <4>3, Formulas DEF Exists
    <3>2. CASE ~Mark
      <4>1. row' = row
        BY <1>3, <3>2 DEF Transaction, EditCell, SkipRule, FireDone, Ripple, RefreshDone,
           SetLinks, Unlink, RemoveRecord, DeleteRefused, DeleteFile, Detach, SaveFile,
           Attach, data
      <4>2. QED
        BY <4>1 DEF Exists
    <3>3. QED
      BY <3>1, <3>2
  <2>3. Exists(r) /\ r \notin stale
    BY <1>1, <2>1, <2>2
  <2>4. \A x \in Tasks : (Exists(x) /\ ref[x] = r /\ value[x] # None)'
                            <=> (Exists(x) /\ ref[x] = r /\ value[x] # None)
    BY <1>1, <2>1, <2>2, Formulas
  <2>5. Exact(r) => Exact(r)'
    BY <1>1, <2>1, <2>4, ExactSame, Formulas
  <2>6. QED
    BY <1>1, <2>1, <2>3, <2>5, SettledKept, Formulas
<1>4. QED
  BY <1>2, <1>3

\* Between requests nothing is left to recompute.
LEMMA IdleExact ==
  ASSUME FormulasInv, Idle, ~crashed, NEW r \in Rows, r \notin stale, Exists(r)
  PROVE  Exact(r)
<1>1. todo = <<>> /\ Els(todo) = {}
  BY ElsOf DEF Idle
<1>2. ~Owed(r) /\ ~Late(r)
  BY <1>1 DEF Owed, Due, Late, Going
<1>3. Settled(r)
  BY DEF FormulasInv, ExactInv
<1>4. QED
  BY <1>2, <1>3 DEF Settled

LEMMA CreateSettles ==
  ASSUME FormulasInv, Start, CreateProject, ~crashed,
         NEW r \in Rows, r \notin stale', Exists(r)'
  PROVE  Exact(r)'
<1>1. PICK p \in Projects, n \in Notes \cup {None} :
        /\ Idle /\ row[p] = "unused"
        /\ row' = [row EXCEPT ![p] = "live"]
        /\ note' = [note EXCEPT ![p] = n]
        /\ total' = [total EXCEPT ![p] = 0]
        /\ ref' = ref /\ value' = value /\ shown' = shown /\ stale' = stale
  BY DEF CreateProject
<1>2. /\ TypeOK /\ NoDanglingReference /\ Projects \cap Tasks = {} /\ None \notin Projects
      /\ Rows = Projects \cup Tasks
      /\ row \in [Rows -> {"unused", "live", "trash", "gone"}]
      /\ ref \in [Tasks -> Projects \cup {None}]
      /\ total \in [Projects -> 0..Cardinality(Tasks)] /\ note \in [Projects -> Notes \cup {None}]
  BY RecordsAssumption DEF FormulasInv, RefsInv, TypeInv, TypeOK, Rows
<1>3. /\ total'[p] = 0
      /\ \A x \in Projects \ {p} : total'[x] = total[x] /\ note'[x] = note[x]
      /\ \A x \in Rows \ {p} : row'[x] = row[x]
  BY <1>1, <1>2
<1>4. \A x \in Tasks : (Exists(x)' <=> Exists(x)) /\ (Exists(x) => ref[x] # p)
  <2>1. ~Exists(p)
    BY <1>1 DEF Exists
  <2>2. QED
    BY <1>2, <1>3, <2>1 DEF Exists, NoDanglingReference
<1>5. CASE r = p
  <2>1. r \in Projects /\ r \notin Tasks
    BY <1>2, <1>5
  <2>2. Children(r)' = {}
    BY <1>1, <1>4, <1>5 DEF Children
  <2>3. Rollup(r)' = Cardinality({})
    <3>1. {t \in Children(r) : value[t] # None}' = {}
      BY <2>2
    <3>2. QED
      BY <3>1 DEF Rollup
  <2>4. Cardinality({}) = 0
    BY FS_EmptySet
  <2>5. QED
    BY <1>3, <1>5, <2>1, <2>3, <2>4 DEF Exact
<1>6. CASE r # p
  <2>1. Exists(r) /\ r \notin stale
    BY <1>1, <1>3, <1>6 DEF Exists
  <2>2. Exact(r)
    BY <1>1, <2>1, IdleExact
  <2>3. \A x \in Tasks : (Exists(x) /\ ref[x] = r /\ value[x] # None)'
                            <=> (Exists(x) /\ ref[x] = r /\ value[x] # None)
    BY <1>1, <1>4
  <2>4. r \in Projects => total'[r] = total[r]
    BY <1>3, <1>6
  <2>5. r \in Tasks => ref[r] # p /\ (ref[r] # None => note'[ref[r]] = note[ref[r]])
    BY <1>2, <1>3, <1>4, <2>1
  <2>6. QED
    BY <1>1, <1>2, <2>2, <2>3, <2>4, <2>5, ExactSame
<1>7. QED
  BY <1>5, <1>6

LEMMA ImportSettles ==
  ASSUME FormulasInv, Start, ImportTasks, ~crashed,
         NEW r \in Rows, r \notin stale', Exists(r)'
  PROVE  Settled(r)'
<1>1. PICK t \in Tasks, p \in RefChoices, v \in Values \cup {None} :
        /\ Idle /\ row[t] = "unused"
        /\ row' = [row EXCEPT ![t] = "live"]
        /\ ref' = [ref EXCEPT ![t] = p]
        /\ value' = [value EXCEPT ![t] = v]
        /\ todo' = <<[do |-> "refresh", rows |-> {x \in Tasks : Exists(x)} \cup {t}]>>
        /\ stale' = stale \cup ({p} \ {None})
        /\ shown' = shown /\ note' = note /\ total' = total
  BY DEF ImportTasks
<1>2. /\ TypeOK /\ Projects \cap Tasks = {} /\ None \notin Projects
      /\ Rows = Projects \cup Tasks
      /\ row \in [Rows -> {"unused", "live", "trash", "gone"}]
      /\ ref \in [Tasks -> Projects \cup {None}] /\ value \in [Tasks -> Values \cup {None}]
  BY RecordsAssumption DEF FormulasInv, RefsInv, TypeInv, TypeOK, Rows
<1>3. /\ ref'[t] = p /\ ~Exists(t)
      /\ \A x \in Tasks \ {t} : ref'[x] = ref[x] /\ value'[x] = value[x]
      /\ \A x \in Rows \ {t} : row'[x] = row[x]
  BY <1>1, <1>2 DEF Exists
<1>4. CASE r \in Tasks
  <2> DEFINE S == {x \in Tasks : Exists(x)} \cup {t}
             a == [do |-> "refresh", rows |-> S]
  <2>1. r \in S
    BY <1>2, <1>3, <1>4 DEF Exists
  <2>2. a.do = "refresh" /\ a.rows = S /\ todo' = <<a>>
    BY <1>1
  <2> HIDE DEF S
  <2>3. Els(<<a>>) = {a}
    BY ElsOf
  <2>4. todo' # <<>> /\ This'.do = "refresh"
    BY <2>2 DEF This
  <2>5. ~At("delete")'
    BY <2>4, AtThis
  <2>6. Els(todo)' = {a}
    BY <2>2, <2>3 DEF Els
  <2>7. Due(r)'
    BY <2>1, <2>2, <2>6 DEF Due
  <2>8. QED
    BY <2>5, <2>7 DEF Owed, Settled
<1>5. CASE r \in Projects
  <2>1. r # t /\ r # p /\ r \notin stale
    BY <1>1, <1>2, <1>5
  <2>2. Exists(r)
    BY <1>3, <2>1 DEF Exists
  <2>3. Exact(r)
    BY <1>1, <2>1, <2>2, IdleExact
  <2>4. ASSUME NEW x \in Tasks
        PROVE  (Exists(x) /\ ref[x] = r /\ value[x] # None)'
                  <=> (Exists(x) /\ ref[x] = r /\ value[x] # None)
    <3>1. CASE x = t
      BY <1>3, <2>1, <3>1
    <3>2. CASE x # t
      BY <1>2, <1>3, <3>2 DEF Exists
    <3>3. QED
      BY <3>1, <3>2
  <2>5. r \notin Tasks
    BY <1>2, <1>5
  <2>6. Exact(r)'
    BY <1>1, <1>2, <2>3, <2>4, <2>5, ExactSame
  <2>7. QED
    BY <2>6 DEF Settled
<1>6. QED
  BY <1>2, <1>4, <1>5

LEMMA FormulasStart ==
  ASSUME FormulasInv, Start
  PROVE  RepointInv' /\ Unfired' /\ FireInv' /\ ExactInv'
<1>1. TypeInv /\ TypeOK /\ Idle /\ todo' \in Seq(Steps) /\ Els(todo)' = Els(todo')
  BY Starts DEF FormulasInv, RefsInv, TypeInv, Els
<1>2. RepointInv'
  <2>1. SUFFICES ASSUME NEW x \in Els(todo'), x.do = "repoint"
                 PROVE  pair' # <<>> /\ \E y \in Els(todo') : y.do = "remove" /\ y.r = x.d
    BY <1>1 DEF RepointInv
  <2>2. pair' = <<x.s, x.d>>
    BY <1>1, <2>1, StartSteps DEF Begins
  <2>3. MergeProjects
    BY <2>2 DEF Start, CreateTask, CreateProject, EditTask, EditProject, BulkEdit, ApiCreate,
       ApiUpdate, ApiDelete, AssignToMe, DeleteRecords, RestoreRecord, DestroyRecord,
       ImportTasks
  <2>4. PICK s \in Projects, d \in Projects : todo' = Merging(s, d) /\ pair' = <<s, d>>
    BY <2>3 DEF MergeProjects, Request
  <2>5. GoneOf(d) \in Els(todo')
    BY <1>1, <2>4, MergingIs
  <2>6. GoneOf(d).do = "remove" /\ GoneOf(d).r = d
    BY DEF GoneOf
  <2>7. x.d = d
    BY <2>2, <2>4
  <2>8. QED
    BY <2>2, <2>5, <2>6, <2>7
<1>3. \A i \in 1..Len(todo') : todo'[i].do # "fire"
  <2>1. \A i \in 1..Len(todo') : todo'[i] \in Els(todo')
    BY DEF Els
  <2>2. \A x \in Els(todo') : x.do # "fire"
    BY <1>1, StartSteps DEF Begins
  <2>3. QED
    BY <2>1, <2>2
<1>4. Unfired' /\ FireInv'
  BY <1>3 DEF Unfired, FireInv
<1>5. ExactInv'
  <2>1. SUFFICES ASSUME ~crashed, NEW r \in Rows, r \notin stale', Exists(r)'
                 PROVE  Settled(r)'
    <3>1. crashed' = crashed
      BY <1>1, ColumnsStart
    <3>2. QED
      BY <3>1 DEF ExactInv, Rows
  <2>2. CASE CreateProject
    BY <2>1, <2>2, CreateSettles DEF Settled
  <2>3. CASE ImportTasks
    BY <2>1, <2>3, ImportSettles
  <2>4. CASE ~CreateProject /\ ~ImportTasks
    <3>1. /\ row' = row /\ ref' = ref /\ value' = value /\ shown' = shown /\ note' = note
          /\ total' = total /\ stale' = stale
      BY <2>4 DEF Start, CreateTask, EditTask, EditProject, BulkEdit, ApiCreate,
         ApiUpdate, ApiDelete, AssignToMe, DeleteRecords, RestoreRecord, DestroyRecord,
         MergeProjects, Request, data
    <3>2. Exists(r) /\ r \notin stale
      BY <2>1, <3>1 DEF Exists
    <3>3. Exact(r)
      BY <1>1, <2>1, <3>2, IdleExact
    <3>4. \A x \in Tasks : (Exists(x) /\ ref[x] = r /\ value[x] # None)'
                              <=> (Exists(x) /\ ref[x] = r /\ value[x] # None)
      BY <3>1 DEF Exists
    <3>5. Exact(r)'
      BY <1>1, <3>1, <3>3, <3>4, ExactSame
    <3>6. QED
      BY <3>5 DEF Settled
  <2>5. QED
    BY <2>2, <2>3, <2>4
<1>6. QED
  BY <1>2, <1>4, <1>5

LEMMA FormulasInit == Init => FormulasInv
<1>1. SUFFICES ASSUME Init
               PROVE  FormulasInv
  OBVIOUS
<1>2. RefsInv /\ MergeInv
  BY <1>1, RefsInit DEF Init, MergeInv
<1>3. todo = <<>> /\ Els(todo) = {} /\ Len(todo) = 0
  BY <1>1, ElsOf DEF Init
<1>4. RepointInv /\ Unfired /\ FireInv
  BY <1>3 DEF RepointInv, Unfired, FireInv
<1>5. ASSUME NEW r \in Rows, Exists(r)
      PROVE  Exact(r)
  <2>1. PICK old \in {{}, Projects}, first \in SUBSET Tasks, p \in Projects, v \in Values :
          /\ IF old = {} THEN first = {} ELSE Cardinality(first) = 1
          /\ row = [x \in Rows |-> IF x \in old \cup first THEN "live" ELSE "unused"]
          /\ ref = [t \in Tasks |-> IF t \in first THEN p ELSE None]
          /\ value = [t \in Tasks |-> IF t \in first THEN v ELSE None]
          /\ note \in [Projects -> IF old = {} THEN {None} ELSE Notes \cup {None}]
          /\ shown = [t \in Tasks |-> IF t \in first THEN note[p] ELSE None]
          /\ total = [q \in Projects |-> IF first # {} /\ q = p THEN 1 ELSE 0]
          /\ link \in {{}, (old \cap {p}) \X Tags}
          /\ att = first /\ disk = first
    BY <1>1 DEF Init
  <2>2. /\ Projects \cap Tasks = {} /\ None \notin Projects /\ None \notin Values
        /\ Rows = Projects \cup Tasks
    BY RecordsAssumption DEF Rows
  <2>3. r \in old \cup first
    BY <1>5, <2>1 DEF Exists
  <2>4. Cardinality({}) = 0
    BY FS_EmptySet
  <2>5. Cardinality(first) = 1 /\ first # {}
    <3>1. old = {} => first = {}
      BY <2>1
    <3>2. old # {}
      BY <2>3, <3>1
    <3>3. Cardinality(first) = 1
      BY <2>1, <3>2
    <3>4. QED
      BY <2>4, <3>3
  <2>6. CASE r \in Tasks
    <3>1. r \in first /\ r \notin Projects
      BY <2>2, <2>3, <2>6
    <3>2. ref[r] = p /\ shown[r] = note[p] /\ p # None
      BY <2>1, <2>2, <2>6, <3>1
    <3>3. QED
      BY <3>1, <3>2 DEF Exact, Lookup
  <2>7. CASE r \in Projects
    <3>1. r \notin Tasks
      BY <2>2, <2>7
    <3>2. \A t \in Tasks : /\ t \in first => Exists(t) /\ ref[t] = p /\ value[t] # None
                           /\ t \notin first => ref[t] # r
      BY <2>1, <2>2, <2>7 DEF Exists
    <3>3. {t \in Children(r) : value[t] # None} = IF r = p THEN first ELSE {}
      BY <2>7, <3>2 DEF Children
    <3>4. Rollup(r) = IF r = p THEN 1 ELSE 0
      BY <2>4, <2>5, <3>3 DEF Rollup
    <3>5. total[r] = IF r = p THEN 1 ELSE 0
      BY <2>1, <2>5, <2>7
    <3>6. QED
      BY <3>1, <3>4, <3>5 DEF Exact
  <2>8. QED
    BY <2>2, <2>6, <2>7
<1>6. ExactInv
  BY <1>5 DEF ExactInv, Settled
<1>7. QED
  BY <1>2, <1>4, <1>6 DEF FormulasInv

LEMMA FormulasNext == FormulasInv /\ [Next]_vars => FormulasInv'
<1>1. SUFFICES ASSUME FormulasInv, [Next]_vars
               PROVE  FormulasInv'
  OBVIOUS
<1>2. RefsInv /\ MergeInv /\ RepointInv /\ Unfired /\ FireInv /\ ExactInv
  BY <1>1 DEF FormulasInv
<1>3. RefsInv' /\ MergeInv'
  BY <1>1, <1>2, RefsNext, MergeNext
<1>4. RepointInv' /\ Unfired' /\ FireInv' /\ ExactInv'
  <2>1. CASE Transaction
    BY <1>1, <1>2, <2>1, RepointTransaction, UnfiredTransaction, FireTransaction,
       ExactTransaction
  <2>2. CASE Start
    BY <1>1, <2>2, FormulasStart
  <2>3. CASE Crash
    <3>1. todo' = <<>> /\ crashed' = TRUE /\ Els(todo)' = Els(todo') /\ Els(todo') = {}
          /\ Len(todo') = 0
      BY <2>3, ElsOf DEF Crash, Els
    <3>2. RepointInv'
      BY <3>1 DEF RepointInv
    <3>3. Unfired' /\ FireInv'
      BY <3>1 DEF Unfired, FireInv
    <3>4. ExactInv'
      BY <3>1 DEF ExactInv
    <3>5. QED
      BY <3>2, <3>3, <3>4
  <2>4. CASE Rest \/ UNCHANGED vars
    <3>1. /\ todo' = todo /\ pair' = pair /\ ref' = ref /\ crashed' = crashed /\ row' = row
          /\ value' = value /\ shown' = shown /\ note' = note /\ total' = total
          /\ stale' = stale
      BY <2>4 DEF Rest, vars
    <3>2. RepointInv'
      BY <1>2, <3>1 DEF RepointInv, Els
    <3>3. Unfired'
      BY <1>2, <3>1 DEF Unfired
    <3>4. FireInv'
      BY <1>2, <3>1 DEF FireInv, RippleFor
    <3>5. \A r \in Rows : /\ Exists(r)' <=> Exists(r)
                          /\ Exact(r)' <=> Exact(r)
                          /\ Owed(r)' <=> Owed(r)
                          /\ Late(r)' <=> Late(r)
      <4>1. \A r \in Rows : Exists(r)' <=> Exists(r)
        BY <3>1 DEF Exists
      <4>2. \A r \in Rows : Exact(r)' <=> Exact(r)
        BY <3>1 DEF Exact, Rollup, Children, Exists, Lookup
      <4>3. \A r \in Rows : Owed(r)' <=> Owed(r)
        BY <3>1 DEF Owed, Due, At, Els, RippleFor
      <4>4. \A r \in Rows : Late(r)' <=> Late(r)
        BY <3>1 DEF Late, Going, Els
      <4>5. QED
        BY <4>1, <4>2, <4>3, <4>4
    <3>6. ExactInv'
      <4>1. \A r \in Rows : Settled(r)' <=> Settled(r)
        BY <3>5 DEF Settled
      <4>2. \A r \in Rows \ stale : Exists(r) => (~crashed => Settled(r))
        BY <1>2 DEF ExactInv
      <4>3. Rows' = Rows
        BY DEF Rows
      <4>4. QED
        BY <3>1, <3>5, <4>1, <4>2, <4>3 DEF ExactInv
    <3>7. QED
      BY <3>2, <3>3, <3>4, <3>6
  <2>5. QED
    BY <1>1, <2>1, <2>2, <2>3, <2>4 DEF Next
<1>5. QED
  BY <1>3, <1>4 DEF FormulasInv

\* After a request the stored formulas are what the rows say, but for the rows
\* the code is known to leave behind: through any rules, removals, refusals,
\* merges and imports, what is not exact yet is still to be recomputed.
THEOREM FormulasExactHolds == Spec => []FormulasExact
<1>1. FormulasInv => FormulasExact
  <2>1. SUFFICES ASSUME FormulasInv, Idle, ~crashed
                 PROVE  /\ \A p \in Projects \ stale : Exists(p) => total[p] = Rollup(p)
                        /\ \A t \in Tasks \ stale : Exists(t) => shown[t] = Lookup(ref[t])
    BY DEF FormulasExact
  <2>2. \A r \in Rows \ stale : Exists(r) => Exact(r)
    BY <2>1, IdleExact
  <2>3. QED
    BY <2>2 DEF Exact, Rows
<1>2. QED
  BY <1>1, FormulasInit, FormulasNext, PTL DEF Spec

=============================================================================
