------------------------- MODULE Concurrency_proofs -------------------------
(***************************************************************************)
(* Each semaphore of concurrency.py keeps its limit, for any number of     *)
(* tasks and any limits; the cap on a gate is kept as long as the gate has *)
(* had one semaphore only.                                                 *)
(***************************************************************************)
EXTENDS PipelineConcurrency, FoldTheorems

\* worker_concurrency tasks, and limits that asyncio.Semaphore accepts.
GatesSetting == IsFiniteSet(Tasks) /\ Limit \in [Gates -> Nat]

Semaphore == [free : Nat, bound : BOOLEAN]

\* The steps of Program at which a task is inside a gate.
Within == [parse |-> {2, 4, 6, 7, 8}, table |-> {7}, embed |-> {10}]

Inside(g, k) == {t \in Tasks : inside[t][g] = k}

\* What a semaphore has left and who is inside make up its limit.
Accounts(g, made) ==
    \A k \in 1..Len(made) : made[k].free + Cardinality(Inside(g, k)) = Limit[g]

GatesTypeOK ==
    /\ sems \in [Gates -> Seq(Semaphore)]
    /\ pc \in [Tasks -> 0..Len(Program)]
    /\ inside \in [Tasks -> [Gates -> Nat]]
    /\ waits \in [Tasks -> Nat]

\* A task is inside the gates its place in Program says, and waits only where
\* it is to enter one.
GatePlaceInv ==
    \A t \in Tasks :
      /\ \A g \in Gates :
           /\ inside[t][g] <= Len(sems[g])
           /\ inside[t][g] # 0 <=> pc[t] \in Within[g]
           /\ waits[t] # 0 /\ Program[pc[t]] = <<"enter", g>> => waits[t] <= Len(sems[g])
           /\ waits[t] # 0 => pc[t] # 0 /\ Program[pc[t]] # <<"leave", g>>

GatesInv ==
    /\ GatesTypeOK
    /\ GatePlaceInv
    /\ \A g \in Gates : Accounts(g, sems[g])

LEMMA ProgramSteps ==
    ASSUME NEW i \in 1..Len(Program), NEW g \in Gates
    PROVE  /\ i + 1 \in 1..Len(Program) \/ i = 10
           /\ Len(Program) = 10
           /\ Program[i] = <<"enter", g>> =>
                /\ i # 10 /\ i \notin Within[g] /\ i + 1 \in Within[g]
                /\ \A h \in Gates : h # g => (i + 1 \in Within[h] <=> i \in Within[h])
           /\ Program[i] = <<"leave", g>> =>
                /\ i \in Within[g]
                /\ \A h \in Gates : h # g /\ i # 10 => (i + 1 \in Within[h] <=> i \in Within[h])
                /\ i # 10 => i + 1 \notin Within[g]
                /\ i = 10 => \A h \in Gates : h # g => i \notin Within[h]
           /\ 0 \notin Within[g]
<1>1. i \in 1..10 /\ Len(Program) = 10
  BY DEF Program
<1>2. CASE i = 1  BY <1>1, <1>2 DEF Program, Within, Gates
<1>3. CASE i = 2  BY <1>1, <1>3 DEF Program, Within, Gates
<1>4. CASE i = 3  BY <1>1, <1>4 DEF Program, Within, Gates
<1>5. CASE i = 4  BY <1>1, <1>5 DEF Program, Within, Gates
<1>6. CASE i = 5  BY <1>1, <1>6 DEF Program, Within, Gates
<1>7. CASE i = 6  BY <1>1, <1>7 DEF Program, Within, Gates
<1>8. CASE i = 7  BY <1>1, <1>8 DEF Program, Within, Gates
<1>9. CASE i = 8  BY <1>1, <1>9 DEF Program, Within, Gates
<1>10. CASE i = 9  BY <1>1, <1>10 DEF Program, Within, Gates
<1>11. CASE i = 10  BY <1>1, <1>11 DEF Program, Within, Gates
<1> QED
  BY <1>1, <1>2, <1>3, <1>4, <1>5, <1>6, <1>7, <1>8, <1>9, <1>10, <1>11

\* Where a task is after the step that enters or leaves a gate.
LEMMA AfterEntering ==
    ASSUME GatesTypeOK, NEW t \in Tasks, NEW g \in Gates, pc[t] # 0,
           Program[pc[t]] = <<"enter", g>>
    PROVE  /\ After(t) \in 1..Len(Program) /\ After(t) \in Within[g] /\ pc[t] \notin Within[g]
           /\ \A h \in Gates : h # g => (After(t) \in Within[h] <=> pc[t] \in Within[h])
<1>1. pc[t] \in 1..Len(Program)
  BY DEF GatesTypeOK
<1> QED
  BY <1>1, ProgramSteps DEF After

LEMMA AfterLeaving ==
    ASSUME GatesTypeOK, NEW t \in Tasks, NEW g \in Gates, pc[t] # 0,
           Program[pc[t]] = <<"leave", g>>
    PROVE  /\ After(t) \in 0..Len(Program) /\ After(t) \notin Within[g] /\ pc[t] \in Within[g]
           /\ \A h \in Gates : h # g => (After(t) \in Within[h] <=> pc[t] \in Within[h])
<1>1. pc[t] \in 1..Len(Program)
  BY DEF GatesTypeOK
<1>2. CASE pc[t] = 10
  BY <1>1, <1>2, ProgramSteps DEF After
<1>3. CASE pc[t] # 10
  BY <1>1, <1>3, ProgramSteps DEF After
<1> QED
  BY <1>2, <1>3

LEMMA InsideFinite ==
    ASSUME GatesSetting, NEW g, NEW k
    PROVE  IsFiniteSet(Inside(g, k)) /\ Cardinality(Inside(g, k)) \in Nat
  BY FS_Subset, FS_CardinalityType DEF GatesSetting, Inside

\* A semaphore that the gate's function makes has its limit left, and nobody
\* inside.
LEMMA MadeAccounts ==
    ASSUME GatesSetting, GatesInv, NEW g \in Gates
    PROVE  /\ Made(g) \in Seq(Semaphore) /\ Len(Made(g)) >= Len(sems[g]) /\ Len(Made(g)) > 0
           /\ Accounts(g, Made(g))
<1> DEFINE s == sems[g]
<1>1. s \in Seq(Semaphore) /\ Accounts(g, s) /\ Limit[g] \in Nat
  BY DEF GatesInv, GatesTypeOK, GatesSetting
<1>2. [free |-> Limit[g], bound |-> FALSE] \in Semaphore
  BY <1>1 DEF Semaphore
<1>3. CASE Made(g) = s /\ s # <<>>
  BY <1>1, <1>3
<1>4. CASE Made(g) = Append(s, [free |-> Limit[g], bound |-> FALSE])
  <2> DEFINE made == Append(s, [free |-> Limit[g], bound |-> FALSE])
  <2>1. made \in Seq(Semaphore) /\ Len(made) = Len(s) + 1
        /\ \A k \in 1..Len(s) : made[k] = s[k]
        /\ made[Len(s) + 1] = [free |-> Limit[g], bound |-> FALSE]
    BY <1>1, <1>2, AppendProperties
  <2>2. Inside(g, Len(s) + 1) = {}
    BY <1>1 DEF GatesInv, GatePlaceInv, Inside, GatesTypeOK
  <2>3. made[Len(s) + 1].free + Cardinality(Inside(g, Len(s) + 1)) = Limit[g]
    <3>1. [free |-> Limit[g], bound |-> FALSE].free = Limit[g]
      OBVIOUS
    <3>2. made[Len(s) + 1].free = Limit[g]
      BY <2>1, <3>1
    <3> HIDE DEF made, s
    <3>3. Cardinality(Inside(g, Len(s) + 1)) = 0
      BY <2>2, FS_EmptySet
    <3> QED BY <1>1, <3>2, <3>3
  <2>4. Accounts(g, made)
    <3> SUFFICES ASSUME NEW k \in 1..Len(made)
                 PROVE  made[k].free + Cardinality(Inside(g, k)) = Limit[g]
      BY DEF Accounts
    <3>1. CASE k = Len(s) + 1
      BY <2>3, <3>1
    <3>2. CASE k # Len(s) + 1
      <4>1. k \in 1..Len(s)
        BY <1>1, <2>1, <3>2
      <4> QED BY <1>1, <2>1, <4>1 DEF Accounts
    <3> QED BY <3>1, <3>2
  <2> HIDE DEF made
  <2>5. Made(g) = made
    BY <1>4 DEF made
  <2> QED BY <1>1, <2>1, <2>4, <2>5
<1> QED
  BY <1>3, <1>4 DEF Made

\* A task that acquires semaphore n of a gate, at once or after a wait.
LEMMA AcquireStep ==
    ASSUME GatesSetting, GatesInv, NEW t \in Tasks, NEW g \in Gates,
           NEW made \in Seq(Semaphore), Len(made) >= Len(sems[g]), Accounts(g, made),
           NEW n \in 1..Len(made), made[n].free > 0,
           pc[t] # 0, Program[pc[t]] = <<"enter", g>>,
           sems' = [sems EXCEPT ![g] = [made EXCEPT ![n].free = @ - 1]],
           inside' = [inside EXCEPT ![t][g] = n],
           pc' = [pc EXCEPT ![t] = After(t)],
           waits' = [waits EXCEPT ![t] = 0]
    PROVE  GatesInv'
<1> DEFINE left == [made EXCEPT ![n].free = @ - 1]
<1>0. made[n] \in Semaphore
  OBVIOUS
<1>1. /\ made[n].free \in Nat /\ [made[n] EXCEPT !.free = @ - 1] \in Semaphore
      /\ [made[n] EXCEPT !.free = @ - 1].free = made[n].free - 1
  <2> DEFINE m == made[n]
  <2>1. m \in Semaphore /\ m.free > 0
    BY <1>0
  <2> HIDE DEF m
  <2>2. m.free \in Nat /\ m.free - 1 \in Nat
    BY <2>1 DEF Semaphore
  <2>3. [m EXCEPT !.free = @ - 1] \in Semaphore /\ [m EXCEPT !.free = @ - 1].free = m.free - 1
    BY <2>1, <2>2 DEF Semaphore
  <2> QED BY <2>2, <2>3 DEF m
<1>2. /\ left \in Seq(Semaphore) /\ Len(left) = Len(made)
      /\ left[n].free = made[n].free - 1
      /\ \A k \in 1..Len(left) : k # n => left[k] = made[k]
  BY <1>0, <1>1
<1> HIDE DEF left
<1>3. sems' = [sems EXCEPT ![g] = left]
  BY DEF left
<1>4. /\ After(t) \in 1..Len(Program) /\ After(t) \in Within[g] /\ pc[t] \notin Within[g]
      /\ \A h \in Gates : h # g => (After(t) \in Within[h] <=> pc[t] \in Within[h])
  BY AfterEntering DEF GatesInv
<1>5. inside[t][g] = 0
  BY <1>4 DEF GatesInv, GatePlaceInv
<1>6. GatesTypeOK'
  <2>1. sems' \in [Gates -> Seq(Semaphore)]
    BY <1>2, <1>3 DEF GatesInv, GatesTypeOK
  <2>2. pc' \in [Tasks -> 0..Len(Program)]
    BY <1>4 DEF GatesInv, GatesTypeOK
  <2>3. inside' \in [Tasks -> [Gates -> Nat]]
    BY DEF GatesInv, GatesTypeOK
  <2>4. waits' \in [Tasks -> Nat]
    BY DEF GatesInv, GatesTypeOK
  <2> QED BY <2>1, <2>2, <2>3, <2>4 DEF GatesTypeOK
<1>7. /\ inside'[t][g] = n /\ pc'[t] = After(t) /\ waits'[t] = 0
      /\ \A h \in Gates : h # g => inside'[t][h] = inside[t][h]
      /\ \A u \in Tasks : u # t => inside'[u] = inside[u] /\ pc'[u] = pc[u] /\ waits'[u] = waits[u]
      /\ sems'[g] = left /\ \A h \in Gates : h # g => sems'[h] = sems[h]
      /\ Len(sems'[g]) >= Len(sems[g])
      /\ Len(sems[g]) \in Nat /\ Len(left) \in Nat
  BY <1>2, <1>3 DEF GatesInv, GatesTypeOK
<1>8. GatePlaceInv'
  <2> SUFFICES ASSUME NEW u \in Tasks, NEW h \in Gates
               PROVE  /\ inside'[u][h] <= Len(sems'[h])
                      /\ inside'[u][h] # 0 <=> pc'[u] \in Within[h]
                      /\ waits'[u] # 0 /\ Program[pc'[u]] = <<"enter", h>> => waits'[u] <= Len(sems'[h])
                      /\ waits'[u] # 0 => pc'[u] # 0 /\ Program[pc'[u]] # <<"leave", h>>
    BY DEF GatePlaceInv
  <2>1. /\ inside[u][h] <= Len(sems[h])
        /\ inside[u][h] # 0 <=> pc[u] \in Within[h]
        /\ waits[u] # 0 /\ Program[pc[u]] = <<"enter", h>> => waits[u] <= Len(sems[h])
        /\ waits[u] # 0 => pc[u] # 0 /\ Program[pc[u]] # <<"leave", h>>
        /\ inside[u][h] \in Nat /\ waits[u] \in Nat
    BY DEF GatesInv, GatePlaceInv, GatesTypeOK
  <2>2. Len(sems'[h]) >= Len(sems[h]) /\ Len(sems[h]) \in Nat /\ Len(sems'[h]) \in Nat
    BY <1>7 DEF GatesInv, GatesTypeOK
  <2>3. CASE u # t
    BY <1>7, <2>1, <2>2, <2>3
  <2>4. CASE u = t /\ h # g
    BY <1>4, <1>7, <2>1, <2>2, <2>4
  <2>5. CASE u = t /\ h = g
    BY <1>2, <1>4, <1>7, <2>1, <2>2, <2>5
  <2> QED BY <2>3, <2>4, <2>5
<1>9. ASSUME NEW h \in Gates PROVE Accounts(h, sems[h])'
  <2>1. CASE h # g
    <3>1. \A k : Inside(h, k)' = Inside(h, k)
      BY <1>7, <2>1 DEF Inside
    <3> QED
      BY <1>7, <2>1, <3>1 DEF GatesInv, Accounts
  <2>2. CASE h = g
    <3> SUFFICES ASSUME NEW k \in 1..Len(left)
                 PROVE  left[k].free + Cardinality(Inside(g, k)') = Limit[g]
      BY <1>7, <2>2 DEF Accounts
    <3>0. k \in 1..Len(made) /\ made[k].free + Cardinality(Inside(g, k)) = Limit[g] /\ k # 0
      BY <1>2 DEF Accounts
    <3>1. CASE k # n
      <4>1. Inside(g, k)' = Inside(g, k)
        BY <1>5, <1>7, <3>0, <3>1 DEF Inside
      <4> QED BY <1>2, <3>0, <3>1, <4>1
    <3>2. CASE k = n
      <4>1. Inside(g, n)' = Inside(g, n) \union {t} /\ t \notin Inside(g, n)
        BY <1>5, <1>7 DEF Inside
      <4>2. Cardinality(Inside(g, n)') = Cardinality(Inside(g, n)) + 1
        BY <4>1, InsideFinite, FS_AddElement
      <4>3. made[n].free \in Nat /\ Cardinality(Inside(g, n)) \in Nat
        BY <1>1, InsideFinite
      <4>4. made[n].free + Cardinality(Inside(g, n)) = Limit[g]
        BY <3>0, <3>2
      <4>5. left[n].free + Cardinality(Inside(g, n)') = Limit[g]
        BY <1>2, <4>2, <4>3, <4>4
      <4> QED BY <3>2, <4>5
    <3> QED BY <3>1, <3>2
  <2> QED BY <2>1, <2>2
<1> QED
  BY <1>6, <1>8, <1>9 DEF GatesInv

\* A task that leaves gate g: what it was inside has one more left.
LEMMA Leaves ==
    ASSUME GatesSetting, GatesInv, NEW t \in Tasks, NEW g \in Gates,
           inside[t][g] # 0, inside'[t][g] = 0,
           \A u \in Tasks : u # t => inside'[u][g] = inside[u][g],
           sems'[g] = [sems[g] EXCEPT ![inside[t][g]].free = @ + 1]
    PROVE  /\ sems'[g] \in Seq(Semaphore) /\ Len(sems'[g]) = Len(sems[g])
           /\ Accounts(g, sems[g])'
<1> DEFINE n == inside[t][g]
           s == sems[g]
           r == [s EXCEPT ![n].free = @ + 1]
<1>1. s \in Seq(Semaphore) /\ n \in 1..Len(s) /\ Accounts(g, s)
  BY DEF GatesInv, GatesTypeOK, GatePlaceInv
<1>2. inside'[t][g] = 0 /\ sems'[g] = r
  OBVIOUS
<1>3. inside[t][g] = n
  OBVIOUS
<1> HIDE DEF n, s
<1>4. s[n] \in Semaphore
  BY <1>1
<1>5. /\ s[n].free \in Nat /\ [s[n] EXCEPT !.free = @ + 1] \in Semaphore
      /\ [s[n] EXCEPT !.free = @ + 1].free = s[n].free + 1
  BY <1>4 DEF Semaphore
<1>6. /\ r \in Seq(Semaphore) /\ Len(r) = Len(s) /\ r[n].free = s[n].free + 1
      /\ \A k \in 1..Len(s) : k # n => r[k] = s[k]
  BY <1>1, <1>5
<1> HIDE DEF r
<1>7. ASSUME NEW k \in 1..Len(r) PROVE r[k].free + Cardinality(Inside(g, k)') = Limit[g]
  <2>0. k \in 1..Len(s) /\ k # 0 /\ s[k].free + Cardinality(Inside(g, k)) = Limit[g]
    BY <1>1, <1>6 DEF Accounts
  <2>1. CASE k # n
    <3>1. Inside(g, k)' = Inside(g, k)
      BY <1>2, <1>3, <2>0, <2>1 DEF Inside
    <3> QED BY <1>6, <2>0, <2>1, <3>1
  <2>2. CASE k = n
    <3>1. Inside(g, k)' = Inside(g, k) \ {t} /\ t \in Inside(g, k)
      BY <1>1, <1>2, <1>3, <2>2 DEF Inside
    <3>2. Cardinality(Inside(g, k)') = Cardinality(Inside(g, k)) - 1
      BY <3>1, InsideFinite, FS_RemoveElement
    <3>3. Cardinality(Inside(g, k)) \in Nat
      BY InsideFinite
    <3>4. s[k].free + Cardinality(Inside(g, k)) = Limit[g]
      BY <2>0
    <3>5. r[k].free + Cardinality(Inside(g, k)') = Limit[g]
      BY <1>5, <1>6, <2>2, <3>2, <3>3, <3>4
    <3> QED BY <3>5
  <2> QED BY <2>1, <2>2
<1>8. Accounts(g, sems[g])'
  BY <1>2, <1>7 DEF Accounts
<1> QED
  BY <1>2, <1>6, <1>8 DEF s

\* A gate that a step does not touch.
LEMMA Untouched ==
    ASSUME GatesInv, NEW h \in Gates, sems'[h] = sems[h],
           \A u \in Tasks : inside'[u][h] = inside[u][h]
    PROVE  Accounts(h, sems[h])'
<1>1. \A k : Inside(h, k)' = Inside(h, k)
  BY DEF Inside
<1> QED
  BY <1>1 DEF GatesInv, Accounts

\* A step of one task that acquires nothing: of the gates it was inside it
\* leaves those that its new place is not in, and it does not wait.
LEMMA ReleaseStep ==
    ASSUME GatesSetting, GatesInv, NEW t \in Tasks, NEW q \in 0..Len(Program),
           pc' = [pc EXCEPT ![t] = q], waits' = [waits EXCEPT ![t] = 0],
           \A h \in Gates : q \in Within[h] => pc[t] \in Within[h],
           inside' = [inside EXCEPT ![t] =
                        [h \in Gates |-> IF q \in Within[h] THEN @[h] ELSE 0]],
           sems' = [h \in Gates |-> IF q \in Within[h] \/ inside[t][h] = 0 THEN sems[h]
                                    ELSE [sems[h] EXCEPT ![inside[t][h]].free = @ + 1]]
    PROVE  GatesInv'
<1>1. /\ pc'[t] = q /\ waits'[t] = 0
      /\ \A h \in Gates : inside'[t][h] = IF q \in Within[h] THEN inside[t][h] ELSE 0
      /\ \A u \in Tasks : u # t => inside'[u] = inside[u] /\ pc'[u] = pc[u] /\ waits'[u] = waits[u]
  BY DEF GatesInv, GatesTypeOK
<1>2. ASSUME NEW h \in Gates
      PROVE  /\ sems'[h] \in Seq(Semaphore) /\ Len(sems'[h]) = Len(sems[h])
             /\ Accounts(h, sems[h])'
  <2>1. CASE q \in Within[h] \/ inside[t][h] = 0
    <3>1. sems'[h] = sems[h] /\ \A u \in Tasks : inside'[u][h] = inside[u][h]
      BY <1>1, <2>1
    <3>2. sems[h] \in Seq(Semaphore)
      BY DEF GatesInv, GatesTypeOK
    <3> QED BY <3>1, <3>2, Untouched
  <2>2. CASE ~(q \in Within[h] \/ inside[t][h] = 0)
    <3>1. /\ inside'[t][h] = 0 /\ \A u \in Tasks : u # t => inside'[u][h] = inside[u][h]
          /\ sems'[h] = [sems[h] EXCEPT ![inside[t][h]].free = @ + 1]
      BY <1>1, <2>2
    <3> QED BY <2>2, <3>1, Leaves
  <2> QED BY <2>1, <2>2
<1>3. GatesTypeOK'
  <2>1. sems' \in [Gates -> Seq(Semaphore)]
    BY <1>2
  <2>2. pc' \in [Tasks -> 0..Len(Program)] /\ waits' \in [Tasks -> Nat]
    BY DEF GatesInv, GatesTypeOK
  <2>3. inside' \in [Tasks -> [Gates -> Nat]]
    BY DEF GatesInv, GatesTypeOK
  <2> QED BY <2>1, <2>2, <2>3 DEF GatesTypeOK
<1>4. GatePlaceInv'
  <2> SUFFICES ASSUME NEW u \in Tasks, NEW h \in Gates
               PROVE  /\ inside'[u][h] <= Len(sems'[h])
                      /\ inside'[u][h] # 0 <=> pc'[u] \in Within[h]
                      /\ waits'[u] # 0 /\ Program[pc'[u]] = <<"enter", h>> => waits'[u] <= Len(sems'[h])
                      /\ waits'[u] # 0 => pc'[u] # 0 /\ Program[pc'[u]] # <<"leave", h>>
    BY DEF GatePlaceInv, Gates
  <2>1. /\ inside[u][h] <= Len(sems[h])
        /\ inside[u][h] # 0 <=> pc[u] \in Within[h]
        /\ waits[u] # 0 /\ Program[pc[u]] = <<"enter", h>> => waits[u] <= Len(sems[h])
        /\ waits[u] # 0 => pc[u] # 0 /\ Program[pc[u]] # <<"leave", h>>
    BY DEF GatesInv, GatePlaceInv
  <2>2. Len(sems'[h]) = Len(sems[h]) /\ Len(sems[h]) \in Nat
    BY <1>2 DEF GatesInv, GatesTypeOK
  <2>3. CASE u # t
    BY <1>1, <2>1, <2>2, <2>3
  <2>4. CASE u = t
    BY <1>1, <2>1, <2>2, <2>4
  <2> QED BY <2>3, <2>4
<1> QED
  BY <1>2, <1>3, <1>4 DEF GatesInv

LEMMA EnterStep ==
    ASSUME GatesSetting, GatesInv, NEW t \in Tasks, NEW g \in Gates, Enter(t, g)
    PROVE  GatesInv'
<1> DEFINE made == Made(g)
           n == Len(made)
<1>1. /\ made \in Seq(Semaphore) /\ n >= Len(sems[g]) /\ n \in 1..Len(made) /\ n \in Nat
      /\ Accounts(g, made)
  BY MadeAccounts
<1>2. /\ pc[t] # 0 /\ Program[pc[t]] = <<"enter", g>> /\ waits[t] = 0
      /\ \/ /\ made[n].free > 0
            /\ sems' = [sems EXCEPT ![g] = [made EXCEPT ![n].free = @ - 1]]
            /\ inside' = [inside EXCEPT ![t][g] = n]
            /\ pc' = [pc EXCEPT ![t] = After(t)]
            /\ UNCHANGED waits
         \/ /\ sems' = [sems EXCEPT ![g] = [made EXCEPT ![n].bound = TRUE]]
            /\ waits' = [waits EXCEPT ![t] = n]
            /\ UNCHANGED <<pc, inside>>
  BY DEF Enter
<1> HIDE DEF made, n
<1>3. CASE made[n].free > 0 /\ sems' = [sems EXCEPT ![g] = [made EXCEPT ![n].free = @ - 1]]
           /\ inside' = [inside EXCEPT ![t][g] = n] /\ pc' = [pc EXCEPT ![t] = After(t)]
           /\ UNCHANGED waits
  <2>1. waits' = [waits EXCEPT ![t] = 0]
    BY <1>2, <1>3 DEF GatesInv, GatesTypeOK
  <2> QED BY <1>1, <1>2, <1>3, <2>1, AcquireStep DEF n
<1>4. CASE sems' = [sems EXCEPT ![g] = [made EXCEPT ![n].bound = TRUE]]
           /\ waits' = [waits EXCEPT ![t] = n] /\ UNCHANGED <<pc, inside>>
  <2> DEFINE b == [made EXCEPT ![n].bound = TRUE]
  <2>1. made[n] \in Semaphore
    BY <1>1
  <2>2. [made[n] EXCEPT !.bound = TRUE] \in Semaphore
        /\ [made[n] EXCEPT !.bound = TRUE].free = made[n].free
    BY <2>1 DEF Semaphore
  <2>3. /\ b \in Seq(Semaphore) /\ Len(b) = Len(made)
        /\ \A k \in 1..Len(made) : b[k].free = made[k].free
    BY <1>1, <2>2
  <2> HIDE DEF b
  <2>4. sems' = [sems EXCEPT ![g] = b] /\ inside' = inside /\ pc' = pc
    BY <1>4 DEF b
  <2>5. /\ sems'[g] = b /\ \A h \in Gates : h # g => sems'[h] = sems[h]
        /\ \A h \in Gates : Len(sems[h]) \in Nat
        /\ waits'[t] = n /\ \A u \in Tasks : u # t => waits'[u] = waits[u]
    BY <1>4, <2>4 DEF GatesInv, GatesTypeOK
  <2>6. GatesTypeOK'
    BY <1>1, <1>4, <2>3, <2>4 DEF GatesInv, GatesTypeOK
  <2>7. GatePlaceInv'
    <3> SUFFICES ASSUME NEW u \in Tasks, NEW h \in Gates
                 PROVE  /\ inside[u][h] <= Len(sems'[h])
                        /\ inside[u][h] # 0 <=> pc[u] \in Within[h]
                        /\ waits'[u] # 0 /\ Program[pc[u]] = <<"enter", h>> => waits'[u] <= Len(sems'[h])
                        /\ waits'[u] # 0 => pc[u] # 0 /\ Program[pc[u]] # <<"leave", h>>
      BY <2>4 DEF GatePlaceInv
    <3>1. /\ inside[u][h] <= Len(sems[h])
          /\ inside[u][h] # 0 <=> pc[u] \in Within[h]
          /\ waits[u] # 0 /\ Program[pc[u]] = <<"enter", h>> => waits[u] <= Len(sems[h])
          /\ waits[u] # 0 => pc[u] # 0 /\ Program[pc[u]] # <<"leave", h>>
          /\ inside[u][h] \in Nat /\ waits[u] \in Nat
      BY DEF GatesInv, GatePlaceInv, GatesTypeOK
    <3>2. Len(sems'[h]) >= Len(sems[h]) /\ Len(sems'[h]) \in Nat /\ Len(sems[h]) \in Nat
      BY <1>1, <2>3, <2>5 DEF n
    <3>3. CASE u # t
      BY <2>5, <3>1, <3>2, <3>3
    <3>4. CASE u = t
      <4>1. Program[pc[t]] = <<"enter", h>> => h = g
        BY <1>2
      <4>2. h = g => n <= Len(sems'[h])
        BY <1>1, <2>3, <2>5 DEF n
      <4> QED BY <1>2, <2>5, <3>1, <3>2, <3>4, <4>1, <4>2
    <3> QED BY <3>3, <3>4
  <2>8. ASSUME NEW h \in Gates PROVE Accounts(h, sems[h])'
    <3>1. \A k : Inside(h, k)' = Inside(h, k)
      BY <2>4 DEF Inside
    <3>2. CASE h = g
      BY <1>1, <2>3, <2>5, <3>1, <3>2 DEF Accounts
    <3>3. CASE h # g
      BY <2>4, <2>5, <3>3, Untouched
    <3> QED BY <3>2, <3>3
  <2> QED BY <2>6, <2>7, <2>8 DEF GatesInv
<1> QED
  BY <1>2, <1>3, <1>4

LEMMA GatesStep ==
    ASSUME GatesSetting, GatesInv, [GatesNext]_gates
    PROVE  GatesInv'
<1>1. ASSUME NEW t \in Tasks, StartDocument(t) PROVE GatesInv'
  <2>1. \A h \in Gates : 0 \notin Within[h] /\ 1 \notin Within[h]
    BY DEF Within, Gates
  <2>2. \A h \in Gates : inside[t][h] = 0
    BY <1>1, <2>1 DEF StartDocument, GatesInv, GatePlaceInv
  <2>3. waits[t] = 0
    BY <1>1 DEF StartDocument, GatesInv, GatePlaceInv, Gates
  <2>4. waits' = [waits EXCEPT ![t] = 0] /\ pc' = [pc EXCEPT ![t] = 1] /\ 1 \in 0..Len(Program)
    BY <1>1, <2>3 DEF StartDocument, GatesInv, GatesTypeOK, Program
  <2>5. inside' = [inside EXCEPT ![t] = [h \in Gates |-> IF 1 \in Within[h] THEN @[h] ELSE 0]]
    <3>1. inside[t] = [h \in Gates |-> IF 1 \in Within[h] THEN inside[t][h] ELSE 0]
      BY <2>1, <2>2 DEF GatesInv, GatesTypeOK
    <3> QED BY <1>1, <3>1 DEF StartDocument, GatesInv, GatesTypeOK
  <2>6. sems' = [h \in Gates |-> IF 1 \in Within[h] \/ inside[t][h] = 0 THEN sems[h]
                                 ELSE [sems[h] EXCEPT ![inside[t][h]].free = @ + 1]]
    BY <1>1, <2>2 DEF StartDocument, GatesInv, GatesTypeOK
  <2> QED BY <2>1, <2>4, <2>5, <2>6, ReleaseStep
<1>2. ASSUME NEW t \in Tasks, NEW g \in Gates, Wake(t, g) PROVE GatesInv'
  <2> DEFINE s == sems[g]
             n == waits[t]
  <2>1. /\ n # 0 /\ n \in Nat /\ pc[t] # 0 /\ n <= Len(s) /\ s \in Seq(Semaphore)
        /\ Program[pc[t]] = <<"enter", g>> /\ s[n].free > 0 /\ Accounts(g, s)
    BY <1>2 DEF Wake, GatesInv, GatePlaceInv, GatesTypeOK
  <2>2. n \in 1..Len(s) /\ Len(s) >= Len(sems[g])
    BY <2>1
  <2>3. sems' = [sems EXCEPT ![g] = [s EXCEPT ![n].free = @ - 1]]
    BY <1>2 DEF Wake
  <2> QED BY <1>2, <2>1, <2>2, <2>3, AcquireStep DEF Wake
<1>3. ASSUME NEW t \in Tasks, NEW g \in Gates, Leave(t, g) PROVE GatesInv'
  <2> DEFINE q == After(t)
  <2>1. /\ q \in 0..Len(Program) /\ q \notin Within[g] /\ pc[t] \in Within[g]
        /\ \A h \in Gates : h # g => (q \in Within[h] <=> pc[t] \in Within[h])
        /\ Program[pc[t]] = <<"leave", g>> /\ pc[t] # 0
    BY <1>3, AfterLeaving DEF Leave, GatesInv
  <2>2. /\ pc' = [pc EXCEPT ![t] = q] /\ inside' = [inside EXCEPT ![t][g] = 0]
        /\ sems' = [sems EXCEPT ![g][inside[t][g]].free = @ + 1] /\ waits' = waits
    BY <1>3 DEF Leave
  <2> HIDE DEF q
  <2>3. /\ inside[t][g] # 0
        /\ \A h \in Gates : h # g => (inside[t][h] # 0 <=> q \in Within[h])
    BY <2>1 DEF GatesInv, GatePlaceInv
  <2>4. waits[t] = 0
    BY <2>1 DEF GatesInv, GatePlaceInv
  <2>5. waits' = [waits EXCEPT ![t] = 0]
    BY <2>2, <2>4 DEF GatesInv, GatesTypeOK
  <2>6. inside' = [inside EXCEPT ![t] = [h \in Gates |-> IF q \in Within[h] THEN @[h] ELSE 0]]
    <3>1. [inside[t] EXCEPT ![g] = 0] = [h \in Gates |-> IF q \in Within[h] THEN inside[t][h] ELSE 0]
      BY <2>1, <2>3 DEF GatesInv, GatesTypeOK
    <3> QED BY <2>2, <3>1
  <2>7. sems' = [h \in Gates |-> IF q \in Within[h] \/ inside[t][h] = 0 THEN sems[h]
                                 ELSE [sems[h] EXCEPT ![inside[t][h]].free = @ + 1]]
    BY <2>1, <2>2, <2>3 DEF GatesInv, GatesTypeOK
  <2> QED BY <2>1, <2>2, <2>5, <2>6, <2>7, ReleaseStep, ZenonT(30)
<1>4. ASSUME NEW t \in Tasks, NEW g \in Gates, Skip(t, g) PROVE GatesInv'
  <2> DEFINE q == IF g = "embed" THEN 0 ELSE pc[t] + 2
  <2>1. /\ q \in 0..Len(Program)
        /\ \A h \in Gates : q \in Within[h] <=> pc[t] \in Within[h]
    <3>1. pc[t] \in 1..10 /\ Program[pc[t]] = <<"enter", g>> /\ g \in {"table", "embed"}
      BY <1>4 DEF Skip, GatesInv, GatesTypeOK, Program
    <3>2. (g = "table" /\ pc[t] = 6) \/ (g = "embed" /\ pc[t] = 9)
      BY <3>1 DEF Program
    <3>3. Len(Program) = 10
      BY DEF Program
    <3>4. CASE g = "table" /\ pc[t] = 6
      BY <3>3, <3>4 DEF Within, Gates
    <3>5. CASE g = "embed" /\ pc[t] = 9
      BY <3>3, <3>5 DEF Within, Gates
    <3> QED BY <3>2, <3>4, <3>5
  <2>2. pc' = [pc EXCEPT ![t] = q] /\ inside' = inside /\ sems' = sems /\ waits' = waits
        /\ waits[t] = 0
    BY <1>4 DEF Skip
  <2> HIDE DEF q
  <2>3. \A h \in Gates : inside[t][h] # 0 <=> q \in Within[h]
    BY <2>1 DEF GatesInv, GatePlaceInv
  <2>4. waits' = [waits EXCEPT ![t] = 0]
    BY <2>2 DEF GatesInv, GatesTypeOK
  <2>5. inside' = [inside EXCEPT ![t] = [h \in Gates |-> IF q \in Within[h] THEN @[h] ELSE 0]]
    <3>1. inside[t] = [h \in Gates |-> IF q \in Within[h] THEN inside[t][h] ELSE 0]
      BY <2>3 DEF GatesInv, GatesTypeOK
    <3> QED BY <2>2, <3>1 DEF GatesInv, GatesTypeOK
  <2>6. sems' = [h \in Gates |-> IF q \in Within[h] \/ inside[t][h] = 0 THEN sems[h]
                                 ELSE [sems[h] EXCEPT ![inside[t][h]].free = @ + 1]]
    BY <2>2, <2>3 DEF GatesInv, GatesTypeOK
  <2> QED BY <2>1, <2>2, <2>4, <2>5, <2>6, ReleaseStep
<1>5. ASSUME NEW t \in Tasks, Abort(t) PROVE GatesInv'
  <2>1. \A h \in Gates : 0 \notin Within[h]
    BY DEF Within, Gates
  <2>2. inside' = [inside EXCEPT ![t] = [h \in Gates |-> IF 0 \in Within[h] THEN @[h] ELSE 0]]
    BY <1>5, <2>1 DEF Abort
  <2>3. sems' = [h \in Gates |-> IF 0 \in Within[h] \/ inside[t][h] = 0 THEN sems[h]
                                 ELSE [sems[h] EXCEPT ![inside[t][h]].free = @ + 1]]
    BY <1>5, <2>1 DEF Abort
  <2>4. 0 \in 0..Len(Program)
    BY DEF Program
  <2> QED BY <1>5, <2>1, <2>2, <2>3, <2>4, ReleaseStep DEF Abort
<1>6. CASE UNCHANGED gates
  <2>1. UNCHANGED <<sems, pc, inside, waits>>
    BY <1>6 DEF gates
  <2>2. GatesTypeOK' /\ GatePlaceInv'
    BY <2>1 DEF GatesInv, GatesTypeOK, GatePlaceInv
  <2>3. \A g \in Gates : \A k : Inside(g, k)' = Inside(g, k)
    BY <2>1 DEF Inside
  <2>4. \A g \in Gates : Accounts(g, sems[g])'
    BY <2>1, <2>3 DEF GatesInv, Accounts
  <2> QED BY <2>2, <2>4 DEF GatesInv
<1> QED
  BY <1>1, <1>2, <1>3, <1>4, <1>5, <1>6, EnterStep DEF GatesNext

LEMMA GatesHold == GatesSetting => (GatesSpec => []GatesInv)
<1> SUFFICES ASSUME GatesSetting PROVE GatesSpec => []GatesInv
  OBVIOUS
<1>1. GatesInit => GatesInv
  <2> SUFFICES ASSUME GatesInit PROVE GatesInv
    OBVIOUS
  <2>1. Len(Program) = 10 /\ <<>> \in Seq(Semaphore) /\ Len(<<>>) = 0
    BY DEF Program
  <2>2. GatesTypeOK
    BY <2>1 DEF GatesInit, GatesTypeOK
  <2>3. GatePlaceInv
    BY <2>1 DEF GatesInit, GatePlaceInv, Within, Gates
  <2>4. \A g \in Gates : Accounts(g, sems[g])
    BY <2>1 DEF GatesInit, Accounts
  <2> QED BY <2>2, <2>3, <2>4 DEF GatesInv
<1> QED
  BY <1>1, GatesStep, PTL DEF GatesSpec

\* No semaphore lets more documents in than its limit, and none is lost or
\* returned twice, whatever is skipped, fails or times out inside the nested
\* gates (processing/concurrency.py, Semaphore.acquire and release): for any
\* tasks and limits, what a semaphore has left and who is inside make it up.
THEOREM SemaphoresAccount ==
    GatesSetting => (GatesSpec => [](\A g \in Gates : Accounts(g, sems[g])))
<1> SUFFICES ASSUME GatesSetting
             PROVE  GatesSpec => [](\A g \in Gates : Accounts(g, sems[g]))
  OBVIOUS
<1>1. GatesInv => \A g \in Gates : Accounts(g, sems[g])
  BY DEF GatesInv
<1> QED
  BY <1>1, GatesHold, PTL

\* The gates of which only one semaphore was ever made.
MadeOnceIsCapped ==
    \A g \in Gates : Len(sems[g]) <= 1 => Cardinality({t \in Tasks : inside[t][g] # 0}) <= Limit[g]

\* What the comment in concurrency.py promises (GatesAreCapped) fails only by
\* a semaphore that the gate's function made anew: as long as a gate has had
\* one, no more than its limit are inside.
THEOREM CappedWhileMadeOnce == GatesSetting => (GatesSpec => []MadeOnceIsCapped)
<1> SUFFICES ASSUME GatesSetting PROVE GatesSpec => []MadeOnceIsCapped
  OBVIOUS
<1>1. GatesInv => MadeOnceIsCapped
  <2> SUFFICES ASSUME GatesInv, NEW g \in Gates, Len(sems[g]) <= 1
               PROVE  Cardinality({t \in Tasks : inside[t][g] # 0}) <= Limit[g]
    BY DEF MadeOnceIsCapped
  <2> DEFINE In == {t \in Tasks : inside[t][g] # 0}
  <2>1. sems[g] \in Seq(Semaphore) /\ Limit[g] \in Nat
        /\ \A t \in Tasks : inside[t][g] \in Nat /\ inside[t][g] <= Len(sems[g])
    BY DEF GatesInv, GatesTypeOK, GatePlaceInv, GatesSetting
  <2>2. CASE Len(sems[g]) = 1
    <3>1. In = Inside(g, 1)
      BY <2>1, <2>2 DEF Inside
    <3>2. sems[g][1] \in Semaphore /\ sems[g][1].free + Cardinality(Inside(g, 1)) = Limit[g]
      BY <2>1, <2>2 DEF GatesInv, Accounts
    <3>3. sems[g][1].free \in Nat /\ Cardinality(Inside(g, 1)) \in Nat
      BY <3>2, InsideFinite DEF Semaphore
    <3> HIDE DEF In
    <3>4. Cardinality(In) = Cardinality(Inside(g, 1))
      BY <3>1
    <3>5. Cardinality(In) <= Limit[g]
      BY <2>1, <3>2, <3>3, <3>4
    <3> QED BY <3>5 DEF In
  <2>3. CASE Len(sems[g]) = 0
    <3>1. In = {}
      BY <2>1, <2>3
    <3> HIDE DEF In
    <3>2. Cardinality(In) <= Limit[g]
      BY <2>1, <3>1, FS_EmptySet
    <3> QED BY <3>2 DEF In
  <2>4. Len(sems[g]) = 0 \/ Len(sems[g]) = 1
    <3> DEFINE n == Len(sems[g])
    <3>1. n \in Nat /\ n <= 1
      BY <2>1
    <3> HIDE DEF n
    <3>2. n = 0 \/ n = 1
      BY <3>1
    <3> QED BY <3>2 DEF n
  <2> QED BY <2>2, <2>3, <2>4
<1> QED
  BY <1>1, GatesHold, PTL

=============================================================================
