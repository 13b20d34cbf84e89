------------------------ MODULE ResolutionCacheProofs ------------------------
(***************************************************************************)
(* Safety of the resolution cache for any number of goroutines, titles and *)
(* records, any cap and any record lifetime, across restarts.              *)
(***************************************************************************)
EXTENDS ResolutionCache, FiniteSetTheorems, TLAPS

\* Records that exist, or none.
Made == 0..resolves

\* A goroutine that runs nothing is idle, and only a healer waits for healMu.
Stages ==
    \A w \in Workers :
        /\ task[w].op = "none" => task[w].stage = "idle"
        /\ task[w].stage = "lock" => task[w].op = "heal"

\* Nothing holds a record that was not resolved yet.
Created ==
    /\ dropped \subseteq Made \ {None}
    /\ \A k \in Keys : mem[k] \in Made /\ table[k].id \in Made
    /\ \A w \in Workers : task[w].rec \in Made /\ \A k \in Keys : snapshot[w][k].id \in Made

\* A record about to be remembered is nowhere else.
Fresh ==
    \A w \in Workers : task[w].stage \in {"remember", "store"} =>
        /\ task[w].rec \notin dropped \cup {None}
        /\ \A k \in Keys : mem[k] # task[w].rec
        /\ \A v \in Workers \ {w} : task[v].stage \in {"remember", "store"} => task[v].rec # task[w].rec

\* No record stands under two keys.
Apart(m) == \A j, k \in Keys : m[j] # None /\ m[j] = m[k] => j = k
ApartRows(t) == \A j, k \in Keys : t[j].id # None /\ t[j].id = t[k].id => j = k
OneKeyEach ==
    /\ Apart(mem)
    /\ ApartRows(table)
    /\ \A w \in Workers : ApartRows(snapshot[w])

DataSound == Created /\ OneKeyEach /\ DroppedStayOut /\ WithinCap
WorkSound == Stages /\ Fresh /\ HealMuHeld

\* What keeps a record that was thrown out from coming back is where records are before
\* they are remembered: nowhere else, and under one key afterwards.
IInv == TypeOK /\ DataSound /\ WorkSound /\ SnapshotsKeepUp

-----------------------------------------------------------------------------
(* The records of a goroutine *)

Places == {"idle", "fetch", "remember", "store", "lock", "validate", "extend", "forget", "snap", "write"}

LEMMA IdleTask == Idle \in Task /\ Idle.op = "none" /\ Idle.stage = "idle" /\ Idle.rec = None
<1>1. SomeKey \in Keys
  BY CacheAssumption DEF SomeKey
<1>2. Idle.key = SomeKey /\ Idle.op = "none" /\ Idle.stage = "idle" /\ Idle.rec = None
  BY DEF Idle
<1>3. Idle \in Task
  BY <1>1 DEF Idle, Task, None
<1>4. QED
  BY <1>2, <1>3

LEMMA StartedTask ==
    ASSUME NEW op \in {"resolve", "prewarm", "heal", "invalidate"}, NEW s \in Places,
           NEW k \in Keys, NEW r \in Ids \cup {None}
    PROVE  [op |-> op, stage |-> s, key |-> k, rec |-> r, after |-> "idle"] \in Task
BY DEF Task, Places

LEMMA MovedTask ==
    ASSUME NEW e \in Task, NEW s \in Places
    PROVE  /\ [e EXCEPT !.stage = s] \in Task
           /\ [e EXCEPT !.stage = s].stage = s
           /\ [e EXCEPT !.stage = s].op = e.op
           /\ [e EXCEPT !.stage = s].rec = e.rec
BY DEF Task, Places

LEMMA PersistedTask ==
    ASSUME NEW e \in Task, NEW a \in {"fetch", "idle"}
    PROVE  /\ [e EXCEPT !.stage = "snap", !.after = a] \in Task
           /\ [e EXCEPT !.stage = "snap", !.after = a].stage = "snap"
           /\ [e EXCEPT !.stage = "snap", !.after = a].op = e.op
           /\ [e EXCEPT !.stage = "snap", !.after = a].rec = e.rec
BY DEF Task

LEMMA FetchedTask ==
    ASSUME NEW e \in Task, NEW r \in Ids
    PROVE  /\ [e EXCEPT !.stage = "remember", !.rec = r] \in Task
           /\ [e EXCEPT !.stage = "remember", !.rec = r].stage = "remember"
           /\ [e EXCEPT !.stage = "remember", !.rec = r].op = e.op
           /\ [e EXCEPT !.stage = "remember", !.rec = r].rec = r
BY DEF Task

\* Goroutine w goes on as t, the others stay where they are.
Goes(w, t) ==
    /\ t \in Task
    /\ task' \in [Workers -> Task]
    /\ task'[w] = t
    /\ \A v \in Workers \ {w} : task'[v] = task[v]

LEMMA OneGoes ==
    ASSUME TypeOK, NEW w \in Workers, NEW t \in Task, task' = [task EXCEPT ![w] = t]
    PROVE  Goes(w, t)
BY DEF TypeOK, Goes

-----------------------------------------------------------------------------
(* What a step may do to the map *)

\* A lookup or a removal only takes records out.
Shrinks == \A k \in Keys : mem'[k] \in {mem[k], None}

LEMMA FiniteKeys ==
    ASSUME NEW S, NEW T, T \subseteq S, S \subseteq Keys
    PROVE  /\ IsFiniteSet(S) /\ Cardinality(S) \in Nat
           /\ Cardinality(T) \in Nat /\ Cardinality(T) <= Cardinality(S)
<1>1. IsFiniteSet(S) /\ IsFiniteSet(T)
  BY CacheAssumption, FS_Subset
<1>2. QED
  BY <1>1, FS_CardinalityType, FS_Subset

LEMMA ShrinkKeeps ==
    ASSUME IInv, Shrinks
    PROVE  /\ Apart(mem') /\ Cardinality(Remembered') <= MaxRecords
           /\ \A k \in Keys : mem'[k] \in Made
<1>1. Remembered' \subseteq Remembered /\ Remembered \subseteq Keys
  BY DEF Shrinks, Remembered
<1>2. Cardinality(Remembered') <= Cardinality(Remembered)
      /\ Cardinality(Remembered') \in Nat /\ Cardinality(Remembered) \in Nat
  BY <1>1, FiniteKeys
<1>3. Cardinality(Remembered') <= MaxRecords
  BY <1>2, CacheAssumption DEF IInv, DataSound, WithinCap
<1>4. Apart(mem')
  BY DEF IInv, DataSound, OneKeyEach, Apart, Shrinks
<1>5. \A k \in Keys : mem'[k] \in Made
  <2>1. None \in Made
    BY DEF IInv, TypeOK, Made, None
  <2>2. QED
    BY <2>1 DEF IInv, DataSound, Created, Shrinks
<1>6. QED
  BY <1>3, <1>4, <1>5

\* A lookup throws out only what is too old, and needs no snapshot.
LEMMA LookupKeeps ==
    ASSUME IInv, Shrinks, UNCHANGED <<table, snapshot, dropped, lastSnap, resolves>>,
           \A w \in Workers : task'[w].rec \in Made,
           \A w \in Workers : task[w].stage = "snap" => task'[w].stage = "snap"
    PROVE  DataSound' /\ SnapshotsKeepUp'
<1>1. /\ Apart(mem') /\ Cardinality(Remembered') <= MaxRecords
      /\ \A k \in Keys : mem'[k] \in Made
  BY ShrinkKeeps
<1>2. Created'
  BY <1>1 DEF IInv, DataSound, Created, Made
<1>3. OneKeyEach'
  BY <1>1 DEF IInv, DataSound, OneKeyEach, Apart, ApartRows
<1>4. WithinCap'
  BY <1>1 DEF IInv, DataSound, WithinCap, Rows, Remembered
<1>5. DroppedStayOut'
  BY DEF IInv, DataSound, DroppedStayOut, Created, Shrinks
<1>6. SnapshotsKeepUp'
  BY DEF IInv, DataSound, DroppedStayOut, SnapshotsKeepUp, Shrinks
<1>7. QED
  BY <1>2, <1>3, <1>4, <1>5, <1>6 DEF DataSound

-----------------------------------------------------------------------------
(* What a step may do to the goroutines *)

\* No fresh record appears, and what leaves the map may be thrown out.
LEMMA FreshKept ==
    ASSUME IInv, NEW w \in Workers, NEW t, Goes(w, t), t.stage \notin {"remember", "store"}, Shrinks,
           \A i \in dropped' : i \in dropped \/ \E k \in Keys : i = mem[k]
    PROVE  Fresh'
<1> SUFFICES ASSUME NEW v \in Workers, task'[v].stage \in {"remember", "store"}
             PROVE  /\ task'[v].rec \notin dropped' \cup {None}
                    /\ \A k \in Keys : mem'[k] # task'[v].rec
                    /\ \A u \in Workers \ {v} :
                          task'[u].stage \in {"remember", "store"} => task'[u].rec # task'[v].rec
  BY DEF Fresh
<1>1. v # w /\ task'[v] = task[v]
  BY DEF Goes
<1>2. /\ task[v].rec \notin dropped \cup {None}
      /\ \A k \in Keys : mem[k] # task[v].rec
      /\ \A u \in Workers \ {v} : task[u].stage \in {"remember", "store"} => task[u].rec # task[v].rec
  BY <1>1 DEF IInv, WorkSound, Fresh
<1>3. \A k \in Keys : mem'[k] # task[v].rec
  BY <1>2 DEF Shrinks
<1>4. \A u \in Workers \ {v} : task'[u].stage \in {"remember", "store"} => task'[u].rec # task[v].rec
  BY <1>2 DEF Goes
<1>5. QED
  BY <1>1, <1>2, <1>3, <1>4

LEMMA StagesKept ==
    ASSUME IInv, NEW w \in Workers, NEW t, Goes(w, t),
           t.op = "none" => t.stage = "idle", t.stage = "lock" => t.op = "heal"
    PROVE  Stages'
BY DEF IInv, WorkSound, Stages, Goes

\* The lock stays with whom it is, and goroutine w in or out of the part it guards.
LEMMA HealKept ==
    ASSUME IInv, NEW w \in Workers, NEW t, Goes(w, t), healMu' = healMu,
           t.op = "heal" /\ t.stage # "lock" <=> task[w].op = "heal" /\ task[w].stage # "lock"
    PROVE  HealMuHeld'
BY DEF IInv, WorkSound, HealMuHeld, Goes

\* The end of a goroutine unlocks healMu if it has it.
LEMMA EndKeeps ==
    ASSUME IInv, NEW w \in Workers, End(w)
    PROVE  Goes(w, Idle) /\ Stages' /\ HealMuHeld' /\ healMu' \in Workers \cup {NoWorker}
<1>1. Goes(w, Idle)
  BY IdleTask, OneGoes DEF IInv, End
<1>2. Stages'
  BY <1>1, IdleTask, StagesKept
<1>3. HealMuHeld'
  BY <1>1, IdleTask, CacheAssumption DEF IInv, WorkSound, HealMuHeld, Goes, End
<1>4. healMu' \in Workers \cup {NoWorker}
  BY DEF IInv, TypeOK, End
<1>5. QED
  BY <1>1, <1>2, <1>3, <1>4

-----------------------------------------------------------------------------
(* The invariant, one lemma per kind of step *)

LEMMA InitInv == Init => IInv
<1> SUFFICES ASSUME Init PROVE IInv
  OBVIOUS
<1>1. TypeOK
  <2>1. NoRow \in Row
    BY CacheAssumption DEF NoRow, Row
  <2>2. QED
    BY <2>1, IdleTask, CacheAssumption DEF Init, TypeOK
<1>2. NoRow.id = None /\ None \in Made
  BY DEF Init, NoRow, Made, None
<1>3. Created /\ OneKeyEach /\ DroppedStayOut
  BY <1>2, IdleTask DEF Init, Created, OneKeyEach, Apart, ApartRows, DroppedStayOut
<1>4. WithinCap
  <2>1. Remembered = {} /\ Rows(table) = {} /\ \A w \in Workers : Rows(snapshot[w]) = {}
    BY <1>2 DEF Init, Remembered, Rows
  <2>2. QED
    BY <2>1, FS_EmptySet, CacheAssumption DEF WithinCap
<1>5. WorkSound
  BY IdleTask, CacheAssumption DEF Init, WorkSound, Stages, Fresh, HealMuHeld
<1>6. SnapshotsKeepUp
  BY DEF Init, SnapshotsKeepUp
<1>7. QED
  BY <1>1, <1>3, <1>4, <1>5, <1>6 DEF IInv, DataSound

\* Steps of a goroutine that leave the map and its copies alone, or look a title up.
LEMMA QuietStep ==
    ASSUME IInv, NEW w \in Workers, NEW t, Goes(w, t), Shrinks, mem' \in [Keys -> Ids \cup {None}],
           t.rec \in Made, t.stage \notin {"remember", "store"},
           t.op = "none" => t.stage = "idle", t.stage = "lock" => t.op = "heal",
           task[w].stage # "snap", HealMuHeld', healMu' \in Workers \cup {NoWorker},
           createdAt' \in [Ids -> 0..MaxTime], playing' \in SUBSET Keys,
           UNCHANGED <<resolves, snapshot, table, now, lastSnap, dropped>>
    PROVE  IInv'
<1>1. \A v \in Workers : task'[v].rec \in Made
  BY DEF IInv, DataSound, Created, Goes
<1>2. \A v \in Workers : task[v].stage = "snap" => task'[v].stage = "snap"
  BY DEF Goes
<1>3. DataSound' /\ SnapshotsKeepUp'
  BY <1>1, <1>2, LookupKeeps
<1>4. WorkSound'
  BY FreshKept, StagesKept DEF WorkSound
<1>5. TypeOK'
  BY DEF IInv, TypeOK, Goes
<1>6. QED
  BY <1>3, <1>4, <1>5 DEF IInv

\* Nothing happens to the map.
LEMMA Unshrunk == ASSUME IInv, mem' = mem PROVE Shrinks /\ mem' \in [Keys -> Ids \cup {None}]
BY DEF IInv, TypeOK, Shrinks

\* LookupDeletes
LEMMA LookupShrinks ==
    ASSUME IInv, NEW k \in Keys, LookupDeletes(k)
    PROVE  Shrinks /\ mem' \in [Keys -> Ids \cup {None}]
BY DEF IInv, TypeOK, Shrinks, LookupDeletes

LEMMA MadeRecords ==
    ASSUME IInv
    PROVE  /\ None \in Made /\ Made \subseteq Ids \cup {None}
           /\ \A k \in Keys : mem[k] \in Made /\ mem[k] \in Ids \cup {None}
           /\ \A w \in Workers : task[w].rec \in Made /\ task[w] \in Task
<1>1. None \in Made /\ Made \subseteq Ids \cup {None}
  BY CacheAssumption DEF IInv, TypeOK, Made, None, Ids
<1>2. QED
  BY <1>1 DEF IInv, TypeOK, DataSound, Created

LEMMA StartInv ==
    ASSUME IInv, NEW w \in Workers, NEW k \in Keys,
           StartResolve(w, k) \/ StartPrewarm(w, k) \/ Hit(w, k)
    PROVE  IInv'
<1>1. ASSUME NEW op \in {"resolve", "prewarm", "heal"}, NEW s \in {"fetch", "lock"}, NEW r \in Made,
             op = "heal" <=> s = "lock", task[w].op = "none",
             Start(w, op, s, k, r), Shrinks, mem' \in [Keys -> Ids \cup {None}],
             playing' \in SUBSET Keys,
             UNCHANGED <<createdAt, resolves, snapshot, table, now, lastSnap, dropped, healMu>>
      PROVE  IInv'
  <2> DEFINE t == [op |-> op, stage |-> s, key |-> k, rec |-> r, after |-> "idle"]
  <2>1. t \in Task /\ t.op = op /\ t.stage = s /\ t.rec = r
    BY <1>1, StartedTask, MadeRecords DEF Places
  <2>2. task' = [task EXCEPT ![w] = t]
    BY <1>1 DEF Start
  <2> HIDE DEF t
  <2>3. Goes(w, t)
    BY <2>1, <2>2, OneGoes DEF IInv
  <2>4. HealMuHeld'
    BY <1>1, <2>1, <2>3, HealKept
  <2>5. task[w].stage # "snap"
    BY <1>1 DEF IInv, WorkSound, Stages
  <2>6. createdAt' \in [Ids -> 0..MaxTime] /\ healMu' \in Workers \cup {NoWorker}
    BY <1>1 DEF IInv, TypeOK
  <2>7. QED
    BY <1>1, <2>1, <2>3, <2>4, <2>5, <2>6, QuietStep
<1>2. CASE StartResolve(w, k)
  BY <1>1, <1>2, Unshrunk, MadeRecords DEF StartResolve, recordVars, IInv, TypeOK
<1>3. CASE StartPrewarm(w, k)
  BY <1>1, <1>3, LookupShrinks, MadeRecords DEF StartPrewarm, recordVars, IInv, TypeOK
<1>4. CASE Hit(w, k)
  <2>1. playing' \in SUBSET Keys
    BY <1>4 DEF Hit, IInv, TypeOK
  <2>2. QED
    BY <1>1, <1>4, <2>1, Unshrunk, MadeRecords DEF Hit, recordVars
<1>5. QED
  BY <1>2, <1>3, <1>4

\* The end of a goroutine that leaves the map alone.
LEMMA FetchFailsInv == ASSUME IInv, NEW w \in Workers, FetchFails(w) PROVE IInv'
<1>1. Goes(w, Idle) /\ HealMuHeld' /\ healMu' \in Workers \cup {NoWorker}
  BY EndKeeps DEF FetchFails
<1>2. createdAt' \in [Ids -> 0..MaxTime] /\ playing' \in SUBSET Keys /\ task[w].stage # "snap"
  BY DEF FetchFails, recordVars, IInv, TypeOK
<1>3. QED
  BY <1>1, <1>2, IdleTask, Unshrunk, MadeRecords, QuietStep DEF FetchFails, recordVars

LEMMA ExtendInv == ASSUME IInv, NEW w \in Workers, Extend(w) PROVE IInv'
<1>1. Goes(w, Idle) /\ HealMuHeld' /\ healMu' \in Workers \cup {NoWorker}
  BY EndKeeps DEF Extend
<1>2. createdAt' \in [Ids -> 0..MaxTime] /\ playing' \in SUBSET Keys /\ task[w].stage # "snap"
  BY DEF Extend, IInv, TypeOK
<1>3. QED
  BY <1>1, <1>2, IdleTask, Unshrunk, MadeRecords, QuietStep DEF Extend

\* healMu is taken by a healer, and by one at a time.
LEMMA LockHealInv == ASSUME IInv, NEW w \in Workers, LockHeal(w) PROVE IInv'
<1> DEFINE t == [task[w] EXCEPT !.stage = "validate"]
<1>1. t \in Task /\ t.stage = "validate" /\ t.op = task[w].op /\ t.rec = task[w].rec
  BY MadeRecords, MovedTask DEF Places
<1>2. task' = [task EXCEPT ![w] = t]
  BY DEF LockHeal, Goto
<1> HIDE DEF t
<1>3. Goes(w, t)
  BY <1>1, <1>2, OneGoes DEF IInv
<1>4. task[w].op = "heal" /\ task[w].stage = "lock" /\ healMu = NoWorker /\ healMu' = w
  BY DEF LockHeal, IInv, WorkSound, Stages
<1>5. HealMuHeld'
  BY <1>1, <1>3, <1>4, CacheAssumption DEF IInv, WorkSound, HealMuHeld, Goes
<1>6. createdAt' \in [Ids -> 0..MaxTime] /\ playing' \in SUBSET Keys
  BY DEF LockHeal, recordVars, IInv, TypeOK
<1>7. QED
  BY <1>1, <1>3, <1>4, <1>5, <1>6, Unshrunk, MadeRecords, QuietStep DEF LockHeal, recordVars

LEMMA ValidateInv == ASSUME IInv, NEW w \in Workers, Validate(w) PROVE IInv'
<1>1. PICK s \in {"extend", "forget"} : Goto(w, s)
  BY DEF Validate
<1> DEFINE t == [task[w] EXCEPT !.stage = s]
<1>2. t \in Task /\ t.stage = s /\ t.op = task[w].op /\ t.rec = task[w].rec
  <2>1. s \in Places /\ task[w] \in Task
    BY <1>1, MadeRecords DEF Places
  <2>2. QED
    BY <2>1, MovedTask
<1>3. task' = [task EXCEPT ![w] = t]
  BY <1>1 DEF Goto
<1> HIDE DEF t
<1>4. Goes(w, t)
  BY <1>2, <1>3, OneGoes DEF IInv
<1>5. task[w].stage = "validate" /\ task[w].op # "none"
  BY DEF Validate, IInv, WorkSound, Stages
<1>6. HealMuHeld' /\ healMu' \in Workers \cup {NoWorker}
  BY <1>2, <1>4, <1>5, HealKept DEF Validate, IInv, TypeOK
<1>7. createdAt' \in [Ids -> 0..MaxTime] /\ playing' \in SUBSET Keys
  BY DEF Validate, recordVars, IInv, TypeOK
<1>8. QED
  BY <1>2, <1>4, <1>5, <1>6, <1>7, Unshrunk, MadeRecords, QuietStep DEF Validate, recordVars

\* The record a fetch makes is new.
LEMMA FetchSucceedsInv == ASSUME IInv, NEW w \in Workers, FetchSucceeds(w) PROVE IInv'
<1> DEFINE r == resolves + 1
           t == [task[w] EXCEPT !.stage = "remember", !.rec = r]
<1>1. /\ r \in Ids /\ resolves' = r /\ Made \subseteq Made' /\ r \in Made'
      /\ r \notin Made /\ r # None /\ resolves' \in 0..MaxResolves
  BY CacheAssumption DEF FetchSucceeds, IInv, TypeOK, Ids, Made, None
<1>2. t \in Task /\ t.stage = "remember" /\ t.op = task[w].op /\ t.rec = r
  BY <1>1, MadeRecords, FetchedTask
<1>3. task' = [task EXCEPT ![w] = t] /\ task[w].stage = "fetch"
  BY DEF FetchSucceeds
<1> HIDE DEF t, r
<1>4. Goes(w, t)
  BY <1>2, <1>3, OneGoes DEF IInv
<1>5. UNCHANGED <<mem, createdAt, snapshot, healMu, playing, table, now, lastSnap, dropped>>
  BY DEF FetchSucceeds
<1>6. Stages' /\ HealMuHeld'
  <2>1. task[w].op # "none"
    BY <1>3 DEF IInv, WorkSound, Stages
  <2>2. QED
    BY <1>2, <1>3, <1>4, <1>5, <2>1, StagesKept, HealKept
<1>7. Created'
  <2>1. \A v \in Workers : task'[v].rec \in Made'
    BY <1>1, <1>2, <1>4 DEF IInv, DataSound, Created, Goes
  <2>2. QED
    BY <1>1, <1>5, <2>1 DEF IInv, DataSound, Created
<1>8. Fresh'
  <2> SUFFICES ASSUME NEW v \in Workers, task'[v].stage \in {"remember", "store"}
               PROVE  /\ task'[v].rec \notin dropped' \cup {None}
                      /\ \A k \in Keys : mem'[k] # task'[v].rec
                      /\ \A u \in Workers \ {v} :
                            task'[u].stage \in {"remember", "store"} => task'[u].rec # task'[v].rec
    BY DEF Fresh
  <2>1. \A u \in Workers \ {w} : task'[u] = task[u] /\ task'[u].rec # r
    BY <1>1, <1>4, MadeRecords DEF Goes
  <2>2. CASE v = w
    BY <1>1, <1>2, <1>4, <1>5, <2>1, <2>2 DEF IInv, DataSound, Created, Goes
  <2>3. CASE v # w
    BY <1>2, <1>4, <1>5, <2>1, <2>3 DEF IInv, WorkSound, Fresh, Goes
  <2>4. QED
    BY <2>2, <2>3
<1>9. OneKeyEach' /\ DroppedStayOut' /\ WithinCap'
  BY <1>5 DEF IInv, DataSound, OneKeyEach, Apart, ApartRows, DroppedStayOut, WithinCap, Rows, Remembered
<1>10. SnapshotsKeepUp'
  BY <1>2, <1>3, <1>4, <1>5 DEF IInv, SnapshotsKeepUp, Goes
<1>11. TypeOK'
  BY <1>1, <1>4, <1>5 DEF IInv, TypeOK, Goes
<1>12. QED
  BY <1>6, <1>7, <1>8, <1>9, <1>10, <1>11 DEF IInv, DataSound, WorkSound

\* Storing under the cap: one record more, or one of the oldest less.
LEMMA EvictKeeps ==
    ASSUME NEW m, NEW m2, NEW at, NEW k \in Keys, NEW V, m \in [Keys -> V], Evict(m, at, m2),
           Cardinality({j \in Keys \ {k} : m[j] # None}) <= MaxRecords, None \in V
    PROVE  /\ m2 \in [Keys -> V]
           /\ \A j \in Keys : m2[j] \in {m[j], None}
           /\ Cardinality({j \in Keys : m2[j] # None}) <= MaxRecords
<1> DEFINE kept == {j \in Keys : m[j] # None}
           others == {j \in Keys \ {k} : m[j] # None}
<1>1. kept \subseteq Keys /\ IsFiniteSet(kept) /\ Cardinality(kept) \in Nat /\ MaxRecords \in Nat
  BY FiniteKeys, CacheAssumption
<1>2. others \subseteq Keys /\ IsFiniteSet(others) /\ Cardinality(others) \in Nat
  BY FiniteKeys
<1>3. Cardinality(kept) <= MaxRecords + 1
  <2>1. kept \subseteq others \cup {k}
    OBVIOUS
  <2>2. k \notin others /\ IsFiniteSet(others \cup {k})
        /\ Cardinality(others \cup {k}) = Cardinality(others) + 1
    BY <1>2, FS_AddElement
  <2>3. Cardinality(kept) <= Cardinality(others \cup {k})
    BY <2>1, <2>2, FS_Subset
  <2>4. QED
    BY <1>1, <1>2, <2>2, <2>3
<1>4. CASE Cardinality(kept) <= MaxRecords
  BY <1>4 DEF Evict
<1>5. CASE ~(Cardinality(kept) <= MaxRecords)
  <2>1. PICK j \in kept : m2 = [m EXCEPT ![j] = None]
    BY <1>5 DEF Evict
  <2>2. {i \in Keys : m2[i] # None} = kept \ {j}
    BY <2>1
  <2>3. Cardinality(kept \ {j}) = Cardinality(kept) - 1
    BY <1>1, <2>1, FS_RemoveElement
  <2>4. Cardinality({i \in Keys : m2[i] # None}) <= MaxRecords
    <3>1. Cardinality({i \in Keys : m2[i] # None}) = Cardinality(kept \ {j})
      BY <2>2, Zenon
    <3> HIDE DEF kept
    <3>2. Cardinality(kept \ {j}) <= MaxRecords
      BY <1>1, <1>3, <2>3
    <3>3. QED
      BY <3>1, <3>2
  <2>5. m2 \in [Keys -> V] /\ \A i \in Keys : m2[i] \in {m[i], None}
    BY <2>1
  <2>6. QED
    BY <2>4, <2>5
<1>6. QED
  BY <1>4, <1>5

\* The stamp is the goroutine's own: the record is still nowhere else.
LEMMA StampInv == ASSUME IInv, NEW w \in Workers, Stamp(w) PROVE IInv'
<1> DEFINE t == [task[w] EXCEPT !.stage = "store"]
<1>1. t \in Task /\ t.stage = "store" /\ t.op = task[w].op /\ t.rec = task[w].rec
  BY MadeRecords, MovedTask DEF Places
<1>2. task' = [task EXCEPT ![w] = t] /\ task[w].stage = "remember"
  BY DEF Stamp, Goto
<1> HIDE DEF t
<1>3. Goes(w, t)
  BY <1>1, <1>2, OneGoes DEF IInv
<1>4. UNCHANGED <<mem, resolves, snapshot, healMu, table, now, lastSnap, dropped>>
  BY DEF Stamp
<1>5. \A v \in Workers : task'[v].rec = task[v].rec
  BY <1>1, <1>3 DEF Goes
<1>6. DataSound' /\ SnapshotsKeepUp'
  <2>1. \A v \in Workers : task[v].stage = "snap" => task'[v].stage = "snap"
    BY <1>2, <1>3 DEF Goes
  <2>2. QED
    BY <1>4, <1>5, <2>1, Unshrunk, MadeRecords, LookupKeeps
<1>7. Stages' /\ HealMuHeld'
  <2>1. task[w].op # "none"
    BY <1>2 DEF IInv, WorkSound, Stages
  <2>2. QED
    BY <1>1, <1>2, <1>3, <1>4, <2>1, StagesKept, HealKept
<1>8. Fresh'
  <2>1. \A v \in Workers : task'[v].stage \in {"remember", "store"}
                              => task[v].stage \in {"remember", "store"}
    BY <1>2, <1>3 DEF Goes
  <2>2. QED
    BY <1>4, <1>5, <2>1 DEF IInv, WorkSound, Fresh
<1>9. TypeOK'
  <2>1. createdAt' \in [Ids -> 0..MaxTime]
    BY DEF Stamp, IInv, TypeOK
  <2>2. playing' \in SUBSET Keys
    BY MadeRecords DEF Stamp, IInv, TypeOK, Task
  <2>3. QED
    BY <1>3, <1>4, <2>1, <2>2 DEF IInv, TypeOK, Goes
<1>10. QED
  BY <1>6, <1>7, <1>8, <1>9 DEF IInv, WorkSound

LEMMA RememberInv == ASSUME IInv, NEW w \in Workers, Remember(w) PROVE IInv'
<1> DEFINE k == task[w].key
           r == task[w].rec
           m == [mem EXCEPT ![k] = r]
           t == [task[w] EXCEPT !.stage = "snap", !.after = "idle"]
<1>1. /\ task[w].stage = "store" /\ Evict(m, createdAt, mem')
      /\ task' = [task EXCEPT ![w] = t]
      /\ UNCHANGED <<createdAt, resolves, snapshot, healMu, playing, table, now, lastSnap, dropped>>
  BY DEF Remember, Persist, recordVars
<1>2. k \in Keys /\ r \in Ids /\ r \in Made /\ r # None /\ r \notin dropped /\ \A j \in Keys : mem[j] # r
  BY <1>1, MadeRecords DEF IInv, WorkSound, Fresh, Task
<1>3. t \in Task /\ t.stage = "snap" /\ t.op = task[w].op /\ t.rec = r
  BY MadeRecords, PersistedTask
<1> HIDE DEF t, k, r
<1>4. Goes(w, t)
  BY <1>1, <1>3, OneGoes DEF IInv
<1>5. /\ m \in [Keys -> Ids \cup {None}] /\ m[k] = r /\ \A j \in Keys \ {k} : m[j] = mem[j]
  BY <1>2 DEF IInv, TypeOK
<1> HIDE DEF m
<1>6. Cardinality({j \in Keys \ {k} : m[j] # None}) <= MaxRecords
  <2>1. {j \in Keys \ {k} : m[j] # None} \subseteq Remembered /\ Remembered \subseteq Keys
    BY <1>5 DEF Remembered
  <2>2. QED
    BY <2>1, FiniteKeys, CacheAssumption DEF IInv, DataSound, WithinCap
<1>7. /\ mem' \in [Keys -> Ids \cup {None}] /\ \A j \in Keys : mem'[j] \in {m[j], None}
      /\ Cardinality(Remembered') <= MaxRecords
  <2> DEFINE V == Ids \cup {None}
  <2>1. m \in [Keys -> V] /\ None \in V
    BY <1>5
  <2> HIDE DEF V
  <2>2. /\ mem' \in [Keys -> V] /\ \A j \in Keys : mem'[j] \in {m[j], None}
        /\ Cardinality({j \in Keys : mem'[j] # None}) <= MaxRecords
    BY <1>1, <1>2, <1>6, <2>1, EvictKeeps
  <2>3. QED
    BY <2>2 DEF Remembered, V
<1>8. \A j \in Keys : mem'[j] \in {mem[j], None} \/ (j = k /\ mem'[j] = r)
  BY <1>5, <1>7
<1>9. Created'
  <2>1. \A j \in Keys : mem'[j] \in Made
    BY <1>2, <1>8, MadeRecords
  <2>2. \A v \in Workers : task'[v].rec \in Made
    BY <1>2, <1>3, <1>4, MadeRecords DEF Goes
  <2>3. QED
    BY <1>1, <2>1, <2>2 DEF IInv, DataSound, Created, Made
<1>10. OneKeyEach'
  <2>1. Apart(mem')
    BY <1>2, <1>8 DEF IInv, DataSound, OneKeyEach, Apart
  <2>2. QED
    BY <1>1, <2>1 DEF IInv, DataSound, OneKeyEach, ApartRows
<1>11. DroppedStayOut'
  BY <1>1, <1>2, <1>8 DEF IInv, DataSound, DroppedStayOut, Created
<1>12. WithinCap'
  BY <1>1, <1>7 DEF IInv, DataSound, WithinCap, Rows
<1>13. Stages' /\ HealMuHeld'
  <2>1. task[w].op # "none"
    BY <1>1 DEF IInv, WorkSound, Stages
  <2>2. QED
    BY <1>1, <1>3, <1>4, <2>1, StagesKept, HealKept
<1>14. Fresh'
  <2> SUFFICES ASSUME NEW v \in Workers, task'[v].stage \in {"remember", "store"}
               PROVE  /\ task'[v].rec \notin dropped' \cup {None}
                      /\ \A j \in Keys : mem'[j] # task'[v].rec
                      /\ \A u \in Workers \ {v} :
                            task'[u].stage \in {"remember", "store"} => task'[u].rec # task'[v].rec
    BY DEF Fresh
  <2>1. v # w /\ task'[v] = task[v]
    BY <1>3, <1>4 DEF Goes
  <2>2. /\ task[v].rec \notin dropped \cup {None} /\ \A j \in Keys : mem[j] # task[v].rec
        /\ \A u \in Workers \ {v} : task[u].stage \in {"remember", "store"} => task[u].rec # task[v].rec
    BY <2>1 DEF IInv, WorkSound, Fresh
  <2>3. task[v].rec # r
    BY <1>1, <2>1, <2>2 DEF r
  <2>4. \A j \in Keys : mem'[j] # task[v].rec
    BY <1>8, <2>2, <2>3
  <2>5. \A u \in Workers \ {v} : task'[u].stage \in {"remember", "store"} => task'[u].rec # task[v].rec
    BY <1>3, <1>4, <2>2 DEF Goes
  <2>6. QED
    BY <1>1, <2>1, <2>2, <2>4, <2>5
<1>15. SnapshotsKeepUp'
  BY <1>3, <1>4 DEF SnapshotsKeepUp, Goes
<1>16. TypeOK'
  BY <1>1, <1>2, <1>4, <1>7 DEF IInv, TypeOK, Goes
<1>17. QED
  BY <1>9, <1>10, <1>11, <1>12, <1>13, <1>14, <1>15, <1>16 DEF IInv, DataSound, WorkSound

\* A title's record is thrown out, on purpose, by a goroutine that will persist that.
LEMMA DropKeeps ==
    ASSUME IInv, NEW w \in Workers, NEW t, Goes(w, t), NEW k \in Keys,
           t.stage = "snap", t.rec \in Made, t.op # "none",
           t.op = "heal" <=> task[w].op = "heal" /\ task[w].stage # "lock",
           mem' = [mem EXCEPT ![k] = None],
           dropped' = dropped \cup ({mem[k]} \ {None}),
           UNCHANGED <<recordVars, snapshot, healMu, playing, table, now, lastSnap>>
    PROVE  IInv'
<1>1. Shrinks /\ mem' \in [Keys -> Ids \cup {None}] /\ mem'[k] = None
  BY DEF Shrinks, IInv, TypeOK
<1>2. /\ Apart(mem') /\ Cardinality(Remembered') <= MaxRecords
      /\ \A j \in Keys : mem'[j] \in Made
  BY <1>1, ShrinkKeeps
<1>3. Stages' /\ Fresh' /\ HealMuHeld'
  <2>1. \A i \in dropped' : i \in dropped \/ \E j \in Keys : i = mem[j]
    OBVIOUS
  <2>2. QED
    BY <1>1, <2>1, StagesKept, FreshKept, HealKept
<1>4. Created'
  <2>1. \A v \in Workers : task'[v].rec \in Made
    BY MadeRecords DEF Goes
  <2>2. dropped' \subseteq Made \ {None}
    BY MadeRecords DEF IInv, DataSound, Created
  <2>3. QED
    BY <1>2, <2>1, <2>2 DEF IInv, DataSound, Created, Made, recordVars
<1>5. OneKeyEach' /\ WithinCap'
  BY <1>2 DEF IInv, DataSound, OneKeyEach, ApartRows, WithinCap, Rows
<1>6. DroppedStayOut'
  BY <1>1 DEF IInv, DataSound, DroppedStayOut, OneKeyEach, Apart, Created, Shrinks
<1>7. SnapshotsKeepUp'
  BY DEF SnapshotsKeepUp, Goes
<1>8. TypeOK'
  BY <1>1, MadeRecords DEF IInv, TypeOK, Goes, recordVars
<1>9. QED
  BY <1>3, <1>4, <1>5, <1>6, <1>7, <1>8 DEF IInv, DataSound, WorkSound

LEMMA ForgetInv == ASSUME IInv, NEW w \in Workers, ForgetStale(w) PROVE IInv'
<1> DEFINE k == task[w].key
           t == [task[w] EXCEPT !.stage = "snap", !.after = "fetch"]
<1>1. t \in Task /\ t.stage = "snap" /\ t.op = task[w].op /\ t.rec = task[w].rec
  BY MadeRecords, PersistedTask
<1>2. /\ task[w].stage = "forget" /\ task' = [task EXCEPT ![w] = t]
      /\ mem' = [mem EXCEPT ![k] = None] /\ dropped' = dropped \cup ({mem[k]} \ {None})
      /\ UNCHANGED <<recordVars, snapshot, healMu, playing, table, now, lastSnap>>
  BY DEF ForgetStale, Persist
<1>3. k \in Keys
  BY MadeRecords DEF Task
<1> HIDE DEF t, k
<1>4. Goes(w, t)
  BY <1>1, <1>2, OneGoes DEF IInv
<1>5. task[w].op # "none"
  BY <1>2 DEF IInv, WorkSound, Stages
<1>6. QED
  BY <1>1, <1>2, <1>3, <1>4, <1>5, MadeRecords, DropKeeps

LEMMA InvalidateInv == ASSUME IInv, NEW w \in Workers, NEW k \in Keys, Invalidate(w, k) PROVE IInv'
<1> DEFINE t == [op |-> "invalidate", stage |-> "snap", key |-> k, rec |-> None, after |-> "idle"]
<1>1. t \in Task /\ t.stage = "snap" /\ t.op = "invalidate" /\ t.rec = None
  BY StartedTask DEF Places
<1>2. /\ task[w].op = "none" /\ task' = [task EXCEPT ![w] = t]
      /\ mem' = [mem EXCEPT ![k] = None] /\ dropped' = dropped \cup ({mem[k]} \ {None})
      /\ UNCHANGED <<recordVars, snapshot, healMu, playing, table, now, lastSnap>>
  BY DEF Invalidate, Start
<1> HIDE DEF t
<1>3. Goes(w, t)
  BY <1>1, <1>2, OneGoes DEF IInv
<1>4. QED
  BY <1>1, <1>2, <1>3, MadeRecords, DropKeeps

\* A snapshot is the map, so it is as sound as the map; the newest one keeps up with it.
LEMMA SnapInv == ASSUME IInv, NEW w \in Workers, Snap(w) PROVE IInv'
<1> DEFINE t == [task[w] EXCEPT !.stage = "write"]
           s == [k \in Keys |-> IF mem[k] = None THEN NoRow
                                ELSE [id |-> mem[k], at |-> createdAt[mem[k]]]]
<1>1. t \in Task /\ t.stage = "write" /\ t.op = task[w].op /\ t.rec = task[w].rec
  BY MadeRecords, MovedTask DEF Places
<1>2. /\ task[w].stage = "snap" /\ task' = [task EXCEPT ![w] = t]
      /\ snapshot' = [snapshot EXCEPT ![w] = s] /\ lastSnap' = mem
      /\ UNCHANGED <<mem, recordVars, healMu, playing, table, now, dropped>>
  BY DEF Snap, Goto
<1>3. \A k \in Keys : s[k] \in Row /\ s[k].id = mem[k]
  <2> TAKE k \in Keys
  <2>1. NoRow \in Row /\ NoRow.id = None
    BY CacheAssumption DEF NoRow, Row
  <2>2. CASE mem[k] = None
    BY <2>1, <2>2
  <2>3. CASE mem[k] # None
    <3>1. mem[k] \in Ids
      BY <2>3, MadeRecords
    <3>2. createdAt[mem[k]] \in 0..MaxTime
      BY <3>1 DEF IInv, TypeOK
    <3>3. s[k] = [id |-> mem[k], at |-> createdAt[mem[k]]]
      BY <2>3
    <3>4. QED
      BY <3>1, <3>2, <3>3 DEF Row
  <2>4. QED
    BY <2>2, <2>3
<1>4. s \in [Keys -> Row]
  BY <1>3
<1> HIDE DEF t, s
<1>5. Goes(w, t)
  BY <1>1, <1>2, OneGoes DEF IInv
<1>6. \A v \in Workers : snapshot'[v] = IF v = w THEN s ELSE snapshot[v]
  BY <1>2 DEF IInv, TypeOK
<1>7. Created'
  <2>1. \A v \in Workers : \A k \in Keys : snapshot'[v][k].id \in Made
    BY <1>3, <1>6, MadeRecords DEF IInv, DataSound, Created
  <2>2. \A v \in Workers : task'[v].rec \in Made
    BY <1>1, <1>5, MadeRecords DEF Goes
  <2>3. QED
    BY <1>2, <2>1, <2>2 DEF IInv, DataSound, Created, Made, recordVars
<1>8. OneKeyEach'
  <2>1. ApartRows(s)
    BY <1>3 DEF IInv, DataSound, OneKeyEach, Apart, ApartRows
  <2>2. \A v \in Workers : ApartRows(snapshot'[v])
    BY <1>6, <2>1 DEF IInv, DataSound, OneKeyEach
  <2>3. QED
    BY <1>2, <2>2 DEF IInv, DataSound, OneKeyEach, Apart, ApartRows
<1>9. WithinCap'
  <2>1. Rows(s) = Remembered
    BY <1>3 DEF Rows, Remembered
  <2>2. \A v \in Workers : Cardinality(Rows(snapshot'[v])) <= MaxRecords
    BY <1>6, <2>1 DEF IInv, DataSound, WithinCap
  <2>3. QED
    BY <1>2, <2>2 DEF IInv, DataSound, WithinCap, Rows, Remembered
<1>10. DroppedStayOut' /\ SnapshotsKeepUp'
  BY <1>2 DEF IInv, DataSound, DroppedStayOut, SnapshotsKeepUp
<1>11. Stages' /\ Fresh' /\ HealMuHeld'
  <2>1. task[w].op # "none"
    BY <1>2 DEF IInv, WorkSound, Stages
  <2>2. QED
    BY <1>1, <1>2, <1>5, <2>1, Unshrunk, StagesKept, FreshKept, HealKept
<1>12. TypeOK'
  BY <1>2, <1>4, <1>5 DEF IInv, TypeOK, Goes, recordVars
<1>13. QED
  BY <1>7, <1>8, <1>9, <1>10, <1>11, <1>12 DEF IInv, DataSound, WorkSound

LEMMA NoRowTypes == NoRow \in Row /\ NoRow.id = None /\ Rows([k \in Keys |-> NoRow]) = {}
<1>1. NoRow \in Row /\ NoRow.id = None
  BY CacheAssumption DEF NoRow, Row
<1>2. QED
  BY <1>1 DEF Rows

\* The table becomes a snapshot, or stays what it is.
LEMMA WriteInv == ASSUME IInv, NEW w \in Workers, Write(w) PROVE IInv'
<1> DEFINE empty == [k \in Keys |-> NoRow]
<1>1. /\ task[w].stage = "write" /\ table' \in {table, snapshot[w]}
      /\ snapshot' = [snapshot EXCEPT ![w] = empty]
      /\ UNCHANGED <<mem, recordVars, playing, now, lastSnap, dropped>>
  BY DEF Write
<1>2. /\ empty \in [Keys -> Row] /\ Rows(empty) = {} /\ ApartRows(empty)
      /\ \A k \in Keys : empty[k].id = None
  BY NoRowTypes DEF ApartRows
<1> HIDE DEF empty
<1>3. /\ snapshot' \in [Workers -> [Keys -> Row]]
      /\ \A v \in Workers : snapshot'[v] = IF v = w THEN empty ELSE snapshot[v]
  BY <1>1, <1>2 DEF IInv, TypeOK
<1>4. PICK t : /\ Goes(w, t) /\ t.rec \in Made /\ t.stage \notin {"remember", "store", "snap"}
               /\ HealMuHeld' /\ healMu' \in Workers \cup {NoWorker} /\ Stages'
  <2>1. CASE End(w)
    BY <2>1, EndKeeps, IdleTask, MadeRecords
  <2>2. CASE Goto(w, "fetch") /\ UNCHANGED healMu
    <3> DEFINE t == [task[w] EXCEPT !.stage = "fetch"]
    <3>1. t \in Task /\ t.stage = "fetch" /\ t.op = task[w].op /\ t.rec = task[w].rec
      BY MadeRecords, MovedTask DEF Places
    <3>2. task' = [task EXCEPT ![w] = t]
      BY <2>2 DEF Goto
    <3> HIDE DEF t
    <3>3. Goes(w, t)
      BY <3>1, <3>2, OneGoes DEF IInv
    <3>4. task[w].op # "none"
      BY <1>1 DEF IInv, WorkSound, Stages
    <3>5. HealMuHeld' /\ Stages' /\ healMu' \in Workers \cup {NoWorker}
      BY <1>1, <2>2, <3>1, <3>3, <3>4, HealKept, StagesKept DEF IInv, TypeOK
    <3>6. QED
      BY <3>1, <3>3, <3>5, MadeRecords
  <2>3. QED
    BY <2>1, <2>2 DEF Write
<1>5. Created'
  <2>1. \A k \in Keys : table'[k].id \in Made
    BY <1>1 DEF IInv, DataSound, Created
  <2>2. \A v \in Workers : task'[v].rec \in Made /\ \A k \in Keys : snapshot'[v][k].id \in Made
    BY <1>2, <1>3, <1>4, MadeRecords DEF IInv, DataSound, Created, Goes
  <2>3. QED
    BY <1>1, <2>1, <2>2 DEF IInv, DataSound, Created, Made, recordVars
<1>6. OneKeyEach'
  <2>1. ApartRows(table') /\ \A v \in Workers : ApartRows(snapshot'[v])
    BY <1>1, <1>2, <1>3 DEF IInv, DataSound, OneKeyEach
  <2>2. QED
    BY <1>1, <2>1 DEF IInv, DataSound, OneKeyEach, Apart, ApartRows
<1>7. WithinCap'
  <2>1. Cardinality(Rows(table')) <= MaxRecords
    BY <1>1 DEF IInv, DataSound, WithinCap
  <2>2. \A v \in Workers : Cardinality(Rows(snapshot'[v])) <= MaxRecords
    <3>1. Cardinality(Rows(empty)) = 0 /\ MaxRecords \in Nat
      BY <1>2, FS_EmptySet, CacheAssumption
    <3> TAKE v \in Workers
    <3>2. CASE v = w
      <4>1. snapshot'[v] = empty
        BY <1>3, <3>2
      <4>2. QED
        BY <3>1, <4>1
    <3>3. CASE v # w
      <4>1. snapshot'[v] = snapshot[v]
        BY <1>3, <3>3
      <4>2. QED
        BY <4>1 DEF IInv, DataSound, WithinCap
    <3>4. QED
      BY <3>2, <3>3
  <2>3. QED
    BY <1>1, <2>1, <2>2 DEF IInv, DataSound, WithinCap, Rows, Remembered
<1>8. DroppedStayOut'
  BY <1>1 DEF IInv, DataSound, DroppedStayOut
<1>9. SnapshotsKeepUp'
  BY <1>1, <1>4 DEF IInv, SnapshotsKeepUp, Goes
<1>10. Fresh'
  BY <1>1, <1>4, Unshrunk, FreshKept
<1>11. TypeOK'
  BY <1>1, <1>3, <1>4 DEF IInv, TypeOK, Goes, recordVars
<1>12. QED
  BY <1>4, <1>5, <1>6, <1>7, <1>8, <1>9, <1>10, <1>11 DEF IInv, DataSound, WorkSound

\* What New loads is what the table held, less what is too old.
LEMMA RestartInv == ASSUME IInv, Restart PROVE IInv'
<1>1. /\ \A k \in Keys : mem'[k] \in {table[k].id, None}
      /\ lastSnap' = mem' /\ dropped' = {} /\ healMu' = NoWorker
      /\ UNCHANGED <<resolves, table, now>>
      /\ \A w \in Workers : task'[w] = Idle /\ snapshot'[w] = [k \in Keys |-> NoRow]
  BY DEF Restart
<1>2. \A k \in Keys : table[k] \in Row /\ table[k].id \in Made /\ table[k].id \in Ids \cup {None}
  BY DEF IInv, TypeOK, DataSound, Created, Row
<1>3. TypeOK'
  <2>1. mem' \in [Keys -> Ids \cup {None}]
    BY <1>2 DEF Restart
  <2>2. createdAt' \in [Ids -> 0..MaxTime]
    <3>1. ASSUME NEW i \in Ids, \E k \in Keys : table[k].id = i
          PROVE  table[CHOOSE k \in Keys : table[k].id = i].at \in 0..MaxTime
      BY <1>2, <3>1 DEF Row
    <3>2. \A i \in Ids : createdAt[i] \in 0..MaxTime
      BY DEF IInv, TypeOK
    <3>3. \A i \in Ids : (IF \E k \in Keys : table[k].id = i
                          THEN table[CHOOSE k \in Keys : table[k].id = i].at
                          ELSE createdAt[i]) \in 0..MaxTime
      BY <3>1, <3>2
    <3>4. QED
      BY <3>3 DEF Restart
  <2>3. task' \in [Workers -> Task]
    BY IdleTask DEF Restart
  <2>4. snapshot' \in [Workers -> [Keys -> Row]]
    BY NoRowTypes DEF Restart
  <2>5. playing' = {}
    BY DEF Restart
  <2>6. QED
    BY <1>1, <2>1, <2>2, <2>3, <2>4, <2>5 DEF IInv, TypeOK
<1>4. Created'
  BY <1>1, <1>2, IdleTask, NoRowTypes, MadeRecords DEF Created, Made
<1>5. OneKeyEach'
  <2>1. ApartRows(table) /\ Apart(mem')
    BY <1>1 DEF IInv, DataSound, OneKeyEach, Apart, ApartRows
  <2>2. \A w \in Workers : ApartRows(snapshot'[w])
    BY <1>1, NoRowTypes DEF ApartRows
  <2>3. QED
    BY <1>1, <2>1, <2>2 DEF OneKeyEach, ApartRows
<1>6. WithinCap'
  <2>1. Remembered' \subseteq Rows(table) /\ Rows(table) \subseteq Keys
    BY <1>1 DEF Remembered, Rows
  <2>2. Cardinality(Remembered') <= MaxRecords /\ Cardinality(Rows(table)) <= MaxRecords
    BY <2>1, FiniteKeys, CacheAssumption DEF IInv, DataSound, WithinCap
  <2>3. \A w \in Workers : Cardinality(Rows(snapshot'[w])) <= MaxRecords
    BY <1>1, NoRowTypes, FS_EmptySet, CacheAssumption
  <2>4. QED
    BY <1>1, <2>2, <2>3 DEF WithinCap, Rows
<1>7. DroppedStayOut' /\ SnapshotsKeepUp'
  BY <1>1 DEF DroppedStayOut, SnapshotsKeepUp
<1>8. WorkSound'
  BY <1>1, IdleTask, CacheAssumption DEF WorkSound, Stages, Fresh, HealMuHeld
<1>9. QED
  BY <1>3, <1>4, <1>5, <1>6, <1>7, <1>8 DEF IInv, DataSound

\* Time passes.
LEMMA TickInv == ASSUME IInv, Tick PROVE IInv'
<1>1. TypeOK'
  <2>1. now' \in 0..MaxTime
    BY CacheAssumption DEF Tick, IInv, TypeOK
  <2>2. QED
    BY <2>1 DEF Tick, IInv, TypeOK, recordVars
<1>2. DataSound' /\ SnapshotsKeepUp'
  BY Unshrunk, MadeRecords, LookupKeeps DEF Tick, recordVars
<1>3. WorkSound'
  BY DEF Tick, recordVars, IInv, WorkSound, Stages, Fresh, HealMuHeld
<1>4. QED
  BY <1>1, <1>2, <1>3 DEF IInv

\* A lookup finds a record too old.
LEMMA LookupInv == ASSUME IInv, NEW k \in Keys, LookupExpired(k) PROVE IInv'
<1>1. Shrinks /\ mem' \in [Keys -> Ids \cup {None}]
  BY LookupShrinks DEF LookupExpired
<1>2. UNCHANGED <<recordVars, task, snapshot, healMu, playing, table, now, lastSnap, dropped>>
  BY DEF LookupExpired
<1>3. TypeOK'
  BY <1>1, <1>2 DEF IInv, TypeOK, recordVars
<1>4. DataSound' /\ SnapshotsKeepUp'
  BY <1>1, <1>2, MadeRecords, LookupKeeps DEF recordVars
<1>5. Stages' /\ HealMuHeld'
  BY <1>2 DEF IInv, WorkSound, Stages, HealMuHeld
<1>6. Fresh'
  BY <1>1, <1>2 DEF IInv, WorkSound, Fresh, Shrinks
<1>7. QED
  BY <1>3, <1>4, <1>5, <1>6 DEF IInv, WorkSound

LEMMA StepInv == ASSUME IInv, [Next]_vars PROVE IInv'
<1>1. CASE UNCHANGED vars
  <2>1. TypeOK'
    BY <1>1 DEF vars, recordVars, IInv, TypeOK
  <2>2. DataSound' /\ SnapshotsKeepUp'
    BY <1>1, Unshrunk, MadeRecords, LookupKeeps DEF vars, recordVars
  <2>3. WorkSound'
    BY <1>1 DEF vars, recordVars, IInv, WorkSound, Stages, Fresh, HealMuHeld
  <2>4. QED
    BY <2>1, <2>2, <2>3 DEF IInv
<1>2. ASSUME NEW w \in Workers, Work(w) PROVE IInv'
  BY <1>2, FetchSucceedsInv, FetchFailsInv, StampInv, RememberInv, LockHealInv, ValidateInv, ExtendInv,
     ForgetInv, SnapInv, WriteInv DEF Work
<1>3. ASSUME NEW w \in Workers, NEW k \in Keys,
             StartResolve(w, k) \/ StartPrewarm(w, k) \/ Hit(w, k) \/ Invalidate(w, k)
      PROVE  IInv'
  BY <1>3, StartInv, InvalidateInv
<1>4. QED
  BY <1>1, <1>2, <1>3, LookupInv, TickInv, RestartInv DEF Next

LEMMA Invariance == Spec => []IInv
BY InitInv, StepInv, PTL DEF Spec

-----------------------------------------------------------------------------
(* The theorems *)

\* Type correctness: no goroutine holds a record, and no row a time, that cannot be.
THEOREM TypeCorrect == Spec => []TypeOK
<1>1. IInv => TypeOK
  BY DEF IInv
<1>2. QED
  BY Invariance, <1>1, PTL

\* The map, its table and every copy on its way there stay within maxResolutionRecords,
\* whatever resolves, prewarms and heals store concurrently and a restart loads.
THEOREM CapHolds == Spec => []WithinCap
<1>1. IInv => WithinCap
  BY DEF IInv, DataSound
<1>2. QED
  BY Invariance, <1>1, PTL

\* Heals are serialized by healMu, and no path out of validateAndHeal keeps it.
THEOREM HealsSerialized == Spec => []HealMuHeld
<1>1. IInv => HealMuHeld
  BY DEF IInv, WorkSound
<1>2. QED
  BY Invariance, <1>1, PTL

\* While the server runs, a record that was thrown out is never replayed again.
THEOREM DroppedSafe == Spec => []DroppedStayOut
<1>1. IInv => DroppedStayOut
  BY DEF IInv, DataSound
<1>2. QED
  BY Invariance, <1>1, PTL

\* With no snapshot due, the newest one holds what memory holds, except for records a
\* lookup found too old, and none thrown out on purpose.
THEOREM SnapshotsSafe == Spec => []SnapshotsKeepUp
<1>1. IInv => SnapshotsKeepUp
  BY DEF IInv
<1>2. QED
  BY Invariance, <1>1, PTL
=============================================================================
