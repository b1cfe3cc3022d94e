-------------------------- MODULE DepsManagerProofs --------------------------
(***************************************************************************)
(* Proofs about DepsManager, for every set of blocks, every parents        *)
(* relation and every set of requests.                                     *)
(***************************************************************************)
EXTENDS DepsManager, SequenceTheorems, TLAPS

-----------------------------------------------------------------------------
(* Sequences *)

\* What TaskQueue::push_back does to a queue.
LEMMA AppendFacts ==
  ASSUME NEW S, NEW s \in Seq(S), NEW e \in S
  PROVE  /\ Append(s, e) \in Seq(S)
         /\ Append(s, e) # <<>>
         /\ Len(s) \in Nat
         /\ Len(Append(s, e)) = Len(s) + 1
         /\ \A i \in 1..Len(s) : Append(s, e)[i] = s[i]
         /\ Append(s, e)[Len(s) + 1] = e
         /\ s # <<>> => Head(Append(s, e)) = Head(s)
<1>1. /\ Append(s, e) \in Seq(S)
      /\ Append(s, e) # <<>>
      /\ Len(s) \in Nat
      /\ Len(Append(s, e)) = Len(s) + 1
      /\ \A i \in 1..Len(s) : Append(s, e)[i] = s[i]
      /\ Append(s, e)[Len(s) + 1] = e
  BY AppendProperties
<1>2. s # <<>> => 1 \in 1..Len(s)
  OBVIOUS
<1> QED
  BY <1>1, <1>2

\* What TaskQueue::pop_front does to a queue.
LEMMA TailFacts ==
  ASSUME NEW S, NEW s \in Seq(S), s # <<>>
  PROVE  /\ Tail(s) \in Seq(S)
         /\ Len(s) \in Nat \ {0}
         /\ Len(Tail(s)) = Len(s) - 1
         /\ \A i \in 1..Len(Tail(s)) : Tail(s)[i] = s[i + 1]
         /\ Head(s) = s[1]
         /\ Head(s) \in S
         /\ Tail(s) # <<>> => Head(Tail(s)) = s[2]
  OBVIOUS

-----------------------------------------------------------------------------
(* The manager: every pending hash has one place *)

\* The front task of a group whose task was moved out is being processed.
TakenIsRunning ==
    \A h \in taken : tasks[h] # <<>> /\ Head(tasks[h]) \in running

\* All tasks of a group are about the hash of the group.
GroupsByHash ==
    \A h \in Block : \A k \in 1..Len(tasks[h]) : HashOf[tasks[h][k]] = h

\* What try_begin and end rely on.
ManagerInv ==
    /\ TypeOK
    /\ GroupsByHash
    /\ TakenIsRunning
    /\ ExpectationsHold
    /\ NoTaskLost

\* The place of a hash is kept when nothing about the hash changes.
LEMMA PlaceKept ==
  ASSUME NEW g \in Block,
         spawned'[g] = spawned[g],
         g \in taken' <=> g \in taken,
         \A q \in Block : dependents'[q][g] = dependents[q][g],
         Pending \subseteq Pending'
  PROVE  /\ InPool(g) => InPool(g)'
         /\ BeingProcessed(g) => BeingProcessed(g)'
         /\ BehindParent(g) => BehindParent(g)'
         /\ Absent(g) => Absent(g)'
<1>1. InPool(g) => InPool(g)'
  BY DEF InPool
<1>2. BeingProcessed(g) => BeingProcessed(g)'
  BY DEF BeingProcessed
<1>3. BehindParent(g) => BehindParent(g)'
  <2> SUFFICES ASSUME BehindParent(g) PROVE BehindParent(g)'
    OBVIOUS
  <2>1. PICK p \in Parents[g] \cap Pending :
           dependents[p][g] = 1 /\ \A q \in Block \ {p} : dependents[q][g] = 0
    BY DEF BehindParent
  <2>2. p \in Parents[g] \cap Pending' /\ p \in Block
    BY DEF Pending
  <2>3. dependents'[p][g] = 1 /\ \A q \in Block \ {p} : dependents'[q][g] = 0
    BY <2>1, <2>2
  <2>4. spawned'[g] = 0 /\ g \notin taken'
    BY DEF BehindParent
  <2> QED
    BY <2>2, <2>3, <2>4 DEF BehindParent
<1>4. Absent(g) => Absent(g)'
  BY DEF Absent
<1> QED
  BY <1>1, <1>2, <1>3, <1>4

LEMMA InitManager == Init => ManagerInv
<1> SUFFICES ASSUME Init PROVE ManagerInv
  OBVIOUS
<1>1. TypeOK
  BY DEF Init, TypeOK, NoDependents
<1>2. GroupsByHash /\ TakenIsRunning /\ ExpectationsHold
  BY DEF Init, GroupsByHash, TakenIsRunning, ExpectationsHold
<1>3. NoTaskLost
  BY DEF Init, NoTaskLost, Pending, NoDependents, Absent
<1> QED
  BY <1>1, <1>2, <1>3 DEF ManagerInv

\* Steps that leave the manager alone.
LEMMA ManagerUntouched ==
  ASSUME ManagerInv, TypeOK', UNCHANGED managerVars
  PROVE  ManagerInv'
<1>1. Pending' = Pending
  BY DEF Pending, managerVars
<1>2. GroupsByHash' /\ TakenIsRunning' /\ ExpectationsHold'
  BY <1>1 DEF ManagerInv, GroupsByHash, TakenIsRunning, ExpectationsHold, managerVars
<1>3. NoTaskLost'
  BY <1>1, PlaceKept DEF ManagerInv, NoTaskLost, managerVars
<1> QED
  BY <1>2, <1>3 DEF ManagerInv

LEMMA SubmitManager ==
  ASSUME ManagerInv, NEW m \in Task \cup {Exit}, Submit(m)
  PROVE  ManagerInv'
<1>1. TypeOK'
  BY AppendFacts DEF Submit, ManagerInv, TypeOK, managerVars
<1> QED
  BY <1>1, ManagerUntouched DEF Submit

LEMMA ReceiveExitManager ==
  ASSUME ManagerInv, ReceiveExit
  PROVE  ManagerInv'
<1>1. TypeOK'
  BY DEF ReceiveExit, ManagerInv, TypeOK, managerVars
<1> QED
  BY <1>1, ManagerUntouched DEF ReceiveExit

LEMMA ForwardExitManager ==
  ASSUME ManagerInv, ForwardExit
  PROVE  ManagerInv'
<1>1. TypeOK'
  BY DEF ForwardExit, ManagerInv, TypeOK, managerVars
<1> QED
  BY <1>1, ManagerUntouched DEF ForwardExit

LEMMA ReceiveTaskManager ==
  ASSUME ManagerInv, ReceiveTask
  PROVE  ManagerInv'
<1> DEFINE t == chan[pos + 1]
           h == HashOf[t]
<1>1. t \in Task /\ h \in Block
  BY HashOfAssumption DEF ManagerInv, TypeOK, ReceiveTask
<1>2. /\ tasks' = [tasks EXCEPT ![h] = Append(tasks[h], t)]
      /\ spawned' = IF h \in Pending THEN spawned ELSE [spawned EXCEPT ![h] = spawned[h] + 1]
      /\ UNCHANGED <<taken, dependents, running, done>>
      /\ HashOf[t] = h
  BY DEF ReceiveTask, Register
<1>3. pos' \in 0..Len(chan') /\ UNCHANGED <<chan, worker>>
  BY DEF ReceiveTask, ManagerInv, TypeOK
<1> HIDE DEF t, h
<1>4. /\ tasks' \in [Block -> Seq(Task)]
      /\ tasks'[h] = Append(tasks[h], t)
      /\ \A g \in Block : g # h => tasks'[g] = tasks[g]
  BY <1>1, <1>2 DEF ManagerInv, TypeOK
<1>5. /\ spawned' \in [Block -> Nat]
      /\ \A g \in Block : spawned'[g] = IF g = h /\ h \notin Pending THEN spawned[g] + 1
                                                                   ELSE spawned[g]
  BY <1>1, <1>2 DEF ManagerInv, TypeOK
<1>6. TypeOK'
  BY <1>2, <1>3, <1>4, <1>5 DEF ManagerInv, TypeOK
<1>7. tasks[h] \in Seq(Task)
  BY <1>1 DEF ManagerInv, TypeOK
<1>8. /\ Len(tasks[h]) \in Nat
      /\ Len(tasks'[h]) = Len(tasks[h]) + 1
      /\ \A k \in 1..Len(tasks[h]) : tasks'[h][k] = tasks[h][k]
      /\ tasks'[h][Len(tasks[h]) + 1] = t
      /\ tasks[h] # <<>> => Head(tasks'[h]) = Head(tasks[h])
      /\ tasks'[h] # <<>>
  BY <1>1, <1>4, <1>7, AppendFacts
<1>9. GroupsByHash'
  BY <1>1, <1>2, <1>4, <1>8 DEF ManagerInv, GroupsByHash
<1>10. \A g \in Block : g \in Pending' <=> g \in Pending \/ g = h
  BY <1>1, <1>4, <1>8 DEF Pending
<1>11. TakenIsRunning'
  BY <1>1, <1>2, <1>4, <1>8 DEF ManagerInv, TypeOK, TakenIsRunning
<1>12. h \notin Pending => Absent(h)
  BY <1>1 DEF ManagerInv, NoTaskLost
<1>13. ExpectationsHold'
  <2>1. \A g \in Block : spawned'[g] > 0 => g \in Pending' /\ g \notin taken'
    BY <1>1, <1>2, <1>5, <1>10, <1>12 DEF ManagerInv, TypeOK, ExpectationsHold, Absent
  <2>2. ASSUME NEW u \in running
        PROVE  HashOf[u] \in Pending' /\ HashOf[u] \in taken' /\ Head(tasks'[HashOf[u]]) = u
    <3>1. HashOf[u] \in Pending /\ HashOf[u] \in taken /\ Head(tasks[HashOf[u]]) = u
      BY <2>2 DEF ManagerInv, ExpectationsHold
    <3> QED
      BY <3>1, <1>2, <1>4, <1>8, <1>10 DEF Pending
  <2> QED
    BY <1>2, <2>1, <2>2 DEF ExpectationsHold
<1>14. NoTaskLost'
  <2> SUFFICES ASSUME NEW g \in Block
               PROVE  IF g \in Pending'
                      THEN InPool(g)' \/ BeingProcessed(g)' \/ BehindParent(g)'
                      ELSE Absent(g)' /\ \A d \in Block : dependents'[g][d] = 0
    BY DEF NoTaskLost
  <2>1. CASE g = h /\ h \notin Pending
    BY <2>1, <1>1, <1>2, <1>5, <1>10, <1>12 DEF InPool, Absent
  <2>2. CASE g # h \/ h \in Pending
    <3>1. spawned'[g] = spawned[g] /\ (g \in Pending' <=> g \in Pending) /\ Pending \subseteq Pending'
      BY <2>2, <1>1, <1>5, <1>10 DEF Pending
    <3> QED
      BY <3>1, <1>2, PlaceKept DEF ManagerInv, NoTaskLost
  <2> QED
    BY <2>1, <2>2
<1> QED
  BY <1>6, <1>9, <1>11, <1>13, <1>14 DEF ManagerInv

LEMMA DeferManager ==
  ASSUME ManagerInv, NEW h \in Block, NEW p \in Block,
         spawned[h] > 0, spawned' = [spawned EXCEPT ![h] = @ - 1],
         DeferTo(h, p), UNCHANGED <<chan, pos, worker>>
  PROVE  ManagerInv'
<1>1. /\ dependents' \in [Block -> [Block -> Nat]]
      /\ \A q, g \in Block : dependents'[q][g] = IF q = p /\ g = h THEN dependents[q][g] + 1
                                                              ELSE dependents[q][g]
  <2>1. dependents' = [dependents EXCEPT ![p] = [dependents[p] EXCEPT ![h] = dependents[p][h] + 1]]
    BY DEF DeferTo
  <2>2. [dependents[p] EXCEPT ![h] = dependents[p][h] + 1] \in [Block -> Nat]
    BY DEF ManagerInv, TypeOK
  <2> QED
    BY <2>1, <2>2 DEF ManagerInv, TypeOK
<1>2. /\ spawned' \in [Block -> Nat]
      /\ \A g \in Block : spawned'[g] = IF g = h THEN spawned[g] - 1 ELSE spawned[g]
  BY DEF ManagerInv, TypeOK
<1>3. UNCHANGED <<tasks, taken, running, done>> /\ p \in Parents[h] \cap Pending
  BY DEF DeferTo
<1>4. TypeOK'
  BY <1>1, <1>2, <1>3 DEF ManagerInv, TypeOK
<1>5. GroupsByHash' /\ TakenIsRunning'
  BY <1>3 DEF ManagerInv, GroupsByHash, TakenIsRunning
<1>6. Pending' = Pending
  BY <1>3 DEF Pending
<1>7. ExpectationsHold'
  BY <1>2, <1>3, <1>6 DEF ManagerInv, TypeOK, ExpectationsHold
<1>8. h \in Pending /\ InPool(h)
  BY DEF ManagerInv, TypeOK, NoTaskLost, BeingProcessed, BehindParent, Absent
<1>9. NoTaskLost'
  <2> SUFFICES ASSUME NEW g \in Block
               PROVE  IF g \in Pending
                      THEN InPool(g)' \/ BeingProcessed(g)' \/ BehindParent(g)'
                      ELSE Absent(g)' /\ \A d \in Block : dependents'[g][d] = 0
    BY <1>6 DEF NoTaskLost
  <2>1. CASE g = h
    <3>1. spawned'[h] = 0 /\ h \notin taken'
      BY <1>2, <1>3, <1>8 DEF InPool
    <3>2. dependents'[p][h] = 1 /\ \A q \in Block \ {p} : dependents'[q][h] = 0
      BY <1>1, <1>8 DEF InPool
    <3> QED
      BY <2>1, <3>1, <3>2, <1>3, <1>6, <1>8 DEF BehindParent
  <2>2. CASE g # h
    <3>1. spawned'[g] = spawned[g] /\ \A q \in Block : dependents'[q][g] = dependents[q][g]
      BY <2>2, <1>1, <1>2
    <3>2. g \notin Pending => \A d \in Block : dependents'[g][d] = dependents[g][d]
      BY <1>1, <1>3
    <3> QED
      BY <3>1, <3>2, <1>3, <1>6, PlaceKept DEF ManagerInv, NoTaskLost
  <2> QED
    BY <2>1, <2>2
<1> QED
  BY <1>4, <1>5, <1>7, <1>9 DEF ManagerInv

LEMMA TakeManager ==
  ASSUME ManagerInv, NEW h \in Block,
         spawned[h] > 0, spawned' = [spawned EXCEPT ![h] = @ - 1],
         Take(h), UNCHANGED <<chan, pos, worker>>
  PROVE  ManagerInv'
<1>1. h \in Pending /\ InPool(h)
  BY DEF ManagerInv, TypeOK, NoTaskLost, BeingProcessed, BehindParent, Absent
<1>2. /\ spawned' \in [Block -> Nat]
      /\ \A g \in Block : spawned'[g] = IF g = h THEN spawned[g] - 1 ELSE spawned[g]
  BY DEF ManagerInv, TypeOK
<1>3. /\ UNCHANGED <<tasks, dependents, done>>
      /\ taken' = taken \cup {h}
      /\ running' = running \cup {Head(tasks[h])}
  BY DEF Take
<1>4. tasks[h] \in Seq(Task) /\ tasks[h] # <<>>
  BY <1>1 DEF ManagerInv, TypeOK, Pending
<1>5. Head(tasks[h]) \in Task /\ HashOf[Head(tasks[h])] = h
  BY <1>4, TailFacts DEF ManagerInv, GroupsByHash
<1>6. TypeOK'
  BY <1>2, <1>3, <1>5 DEF ManagerInv, TypeOK
<1>7. GroupsByHash' /\ TakenIsRunning'
  BY <1>3, <1>4 DEF ManagerInv, GroupsByHash, TakenIsRunning
<1>8. Pending' = Pending
  BY <1>3 DEF Pending
<1>9. ExpectationsHold'
  BY <1>1, <1>2, <1>3, <1>5, <1>8 DEF ManagerInv, TypeOK, ExpectationsHold, InPool
<1>10. NoTaskLost'
  <2> SUFFICES ASSUME NEW g \in Block
               PROVE  IF g \in Pending
                      THEN InPool(g)' \/ BeingProcessed(g)' \/ BehindParent(g)'
                      ELSE Absent(g)' /\ \A d \in Block : dependents'[g][d] = 0
    BY <1>8 DEF NoTaskLost
  <2>1. CASE g = h
    BY <2>1, <1>1, <1>2, <1>3 DEF InPool, BeingProcessed
  <2>2. CASE g # h
    <3>1. spawned'[g] = spawned[g] /\ (g \in taken' <=> g \in taken)
      BY <2>2, <1>2, <1>3
    <3> QED
      BY <3>1, <1>3, <1>8, PlaceKept DEF ManagerInv, NoTaskLost
  <2> QED
    BY <2>1, <2>2
<1> QED
  BY <1>6, <1>7, <1>9, <1>10 DEF ManagerInv

LEMMA BeginManager ==
  ASSUME ManagerInv, NEW h \in Block, Begin(h)
  PROVE  ManagerInv'
  BY TakeManager, DeferManager DEF Begin, TryBegin

\* end: the popped task leaves the group and every dependent of a removed
\* group is back in the pool.
LEMMA EndManager ==
  ASSUME ManagerInv, NEW t \in Task, End(t)
  PROVE  ManagerInv'
<1> DEFINE h == HashOf[t]
           rest == Tail(tasks[h])
<1>1. /\ t \in running /\ h \in Block
      /\ h \in Pending /\ h \in taken /\ Head(tasks[h]) = t
  BY HashOfAssumption DEF ManagerInv, ExpectationsHold, End
<1>2. /\ tasks' = [tasks EXCEPT ![h] = rest]
      /\ taken' = taken \ {h}
      /\ running' = running \ {t}
      /\ done' = done \cup {t}
      /\ UNCHANGED <<chan, pos>>
      /\ worker' \in {worker, "idle"}
  BY DEF End, PopFront
<1>4. /\ rest = <<>> => /\ spawned' = [d \in Block |-> spawned[d] + dependents[h][d]]
                        /\ dependents' = [dependents EXCEPT ![h] = NoDependents]
      /\ rest # <<>> => /\ spawned' = [spawned EXCEPT ![h] = spawned[h] + 1]
                        /\ dependents' = dependents
  BY DEF End, PopFront
<1>5. tasks[h] \in Seq(Task) /\ tasks[h] # <<>>
  BY <1>1 DEF ManagerInv, TypeOK, Pending
<1>6. /\ rest \in Seq(Task)
      /\ Len(tasks[h]) \in Nat \ {0}
      /\ Len(rest) = Len(tasks[h]) - 1
      /\ \A k \in 1..Len(rest) : rest[k] = tasks[h][k + 1]
  BY <1>5, TailFacts
<1> HIDE DEF h, rest
<1>7. /\ tasks' \in [Block -> Seq(Task)]
      /\ tasks'[h] = rest
      /\ \A g \in Block : g # h => tasks'[g] = tasks[g]
  BY <1>1, <1>2, <1>6 DEF ManagerInv, TypeOK
<1>8. /\ spawned' \in [Block -> Nat]
      /\ rest = <<>> => \A g \in Block : spawned'[g] = spawned[g] + dependents[h][g]
      /\ rest # <<>> => \A g \in Block : spawned'[g] = IF g = h THEN spawned[g] + 1 ELSE spawned[g]
  <2>1. dependents[h] \in [Block -> Nat]
    BY <1>1 DEF ManagerInv, TypeOK
  <2>2. spawned \in [Block -> Nat]
    BY DEF ManagerInv, TypeOK
  <2>3. CASE rest = <<>>
    <3>1. spawned' = [d \in Block |-> spawned[d] + dependents[h][d]]
      BY <1>4, <2>3
    <3> QED
      BY <2>1, <2>2, <2>3, <3>1
  <2>4. CASE rest # <<>>
    <3>1. spawned' = [spawned EXCEPT ![h] = spawned[h] + 1]
      BY <1>4, <2>4
    <3> QED
      BY <1>1, <2>2, <2>4, <3>1
  <2> QED
    BY <2>3, <2>4
<1>9. /\ dependents' \in [Block -> [Block -> Nat]]
      /\ \A q \in Block : q # h \/ rest # <<>> => dependents'[q] = dependents[q]
      /\ rest = <<>> => \A g \in Block : dependents'[h][g] = 0
  <2>1. dependents \in [Block -> [Block -> Nat]]
    BY DEF ManagerInv, TypeOK
  <2>2. NoDependents \in [Block -> Nat] /\ \A g \in Block : NoDependents[g] = 0
    BY DEF NoDependents
  <2>3. CASE rest = <<>>
    <3>1. dependents' = [dependents EXCEPT ![h] = NoDependents]
      BY <1>4, <2>3
    <3> QED
      BY <1>1, <2>1, <2>2, <2>3, <3>1
  <2>4. CASE rest # <<>>
    BY <1>4, <2>1, <2>4
  <2> QED
    BY <2>3, <2>4
<1>10. TypeOK'
  BY <1>2, <1>7, <1>8, <1>9 DEF ManagerInv, TypeOK
<1>11. GroupsByHash'
  BY <1>1, <1>6, <1>7 DEF ManagerInv, GroupsByHash
<1>12. \A g \in Block : g \in Pending' <=> IF g = h THEN rest # <<>> ELSE g \in Pending
  BY <1>7 DEF Pending
<1>13. \A u \in running : u # t => HashOf[u] # h
  BY <1>1 DEF ManagerInv, ExpectationsHold, h
<1>14. \A g \in taken' : g \in Block /\ g # h /\ g \in taken
  BY <1>2 DEF ManagerInv, TypeOK
<1>15. TakenIsRunning'
  <2> SUFFICES ASSUME NEW g \in taken' PROVE tasks'[g] # <<>> /\ Head(tasks'[g]) \in running'
    BY DEF TakenIsRunning
  <2>1. tasks'[g] = tasks[g] /\ tasks[g] # <<>> /\ Head(tasks[g]) \in running
    BY <1>7, <1>14 DEF ManagerInv, TakenIsRunning
  <2>2. HashOf[Head(tasks[g])] = g
    <3>1. tasks[g] \in Seq(Task) /\ g \in Block
      BY <1>14 DEF ManagerInv, TypeOK
    <3>2. Head(tasks[g]) = tasks[g][1] /\ 1 \in 1..Len(tasks[g])
      BY <2>1, <3>1, TailFacts
    <3> QED
      BY <3>1, <3>2 DEF ManagerInv, GroupsByHash
  <2>3. Head(tasks[g]) # t
    BY <2>2, <1>14 DEF h
  <2> QED
    BY <2>1, <2>3, <1>2
<1>16. BeingProcessed(h)
  BY <1>1 DEF ManagerInv, NoTaskLost, InPool, BehindParent
<1>17. \A g \in Block : g # h => dependents[h][g] \in {0, 1}
                     /\ (dependents[h][g] = 1 => BehindParent(g) /\ g \in Pending)
  <2> SUFFICES ASSUME NEW g \in Block, g # h
               PROVE  /\ dependents[h][g] \in {0, 1}
                      /\ dependents[h][g] = 1 => BehindParent(g) /\ g \in Pending
    OBVIOUS
  <2>1. CASE g \in Pending /\ BehindParent(g)
    BY <2>1, <1>1 DEF BehindParent
  <2>2. CASE ~ (g \in Pending /\ BehindParent(g))
    BY <2>2, <1>1 DEF ManagerInv, NoTaskLost, InPool, BeingProcessed, Absent
  <2> QED
    BY <2>1, <2>2
<1>18. ExpectationsHold'
  <2>1. ASSUME NEW g \in Block, spawned'[g] > 0
        PROVE  g \in Pending' /\ g \notin taken'
    <3>1. CASE g = h
      BY <3>1, <2>1, <1>1, <1>2, <1>8, <1>12, <1>16 DEF BeingProcessed
    <3>2. CASE g # h /\ spawned[g] > 0
      BY <3>2, <1>2, <1>12 DEF ManagerInv, ExpectationsHold
    <3>3. CASE g # h /\ ~ (spawned[g] > 0)
      <4>1. dependents[h][g] = 1
        BY <3>3, <2>1, <1>8, <1>17 DEF ManagerInv, TypeOK
      <4> QED
        BY <4>1, <3>3, <1>2, <1>12, <1>17 DEF BehindParent
    <3> QED
      BY <3>1, <3>2, <3>3
  <2>2. ASSUME NEW u \in running'
        PROVE  HashOf[u] \in Pending' /\ HashOf[u] \in taken' /\ Head(tasks'[HashOf[u]]) = u
    <3>1. u \in running /\ u # t /\ HashOf[u] # h /\ HashOf[u] \in Block
      BY <2>2, <1>2, <1>13, HashOfAssumption DEF ManagerInv, TypeOK
    <3>2. HashOf[u] \in Pending /\ HashOf[u] \in taken /\ Head(tasks[HashOf[u]]) = u
      BY <3>1 DEF ManagerInv, ExpectationsHold
    <3> QED
      BY <3>1, <3>2, <1>2, <1>7, <1>12
  <2> QED
    BY <2>1, <2>2 DEF ExpectationsHold
<1>19. NoTaskLost'
  <2> SUFFICES ASSUME NEW g \in Block
               PROVE  IF g \in Pending'
                      THEN InPool(g)' \/ BeingProcessed(g)' \/ BehindParent(g)'
                      ELSE Absent(g)' /\ \A d \in Block : dependents'[g][d] = 0
    BY DEF NoTaskLost
  <2>1. CASE g = h /\ rest # <<>>
    BY <2>1, <1>2, <1>4, <1>8, <1>12, <1>16 DEF InPool, BeingProcessed
  <2>2. CASE g = h /\ rest = <<>>
    <3>1. spawned'[h] = 0 /\ h \notin taken'
      BY <2>2, <1>1, <1>2, <1>8, <1>16 DEF BeingProcessed
    <3>2. \A p \in Block : dependents'[p][h] = 0
      BY <2>2, <1>1, <1>9, <1>16 DEF BeingProcessed
    <3> QED
      BY <2>2, <3>1, <3>2, <1>9, <1>12 DEF Absent
  <2>3. CASE g # h /\ rest = <<>> /\ dependents[h][g] = 1
    <3>1. BehindParent(g) /\ g \in Pending
      BY <2>3, <1>17
    <3>2. \A q \in Block \ {h} : dependents[q][g] = 0
      BY <2>3, <3>1, <1>1 DEF BehindParent
    <3>3. \A q \in Block : dependents'[q][g] = 0
      BY <2>3, <3>2, <1>9
    <3>4. spawned'[g] = 1 /\ g \notin taken'
      BY <2>3, <3>1, <1>2, <1>8 DEF BehindParent
    <3> QED
      BY <2>3, <3>1, <3>3, <3>4, <1>12 DEF InPool
  <2>4. CASE g # h /\ ~ (rest = <<>> /\ dependents[h][g] = 1)
    <3>1. spawned'[g] = spawned[g]
      BY <2>4, <1>8, <1>17 DEF ManagerInv, TypeOK
    <3>2. \A q \in Block : dependents'[q][g] = dependents[q][g]
      BY <2>4, <1>9, <1>17
    <3>3. g \in taken' <=> g \in taken
      BY <2>4, <1>2
    <3>4. g \in Pending' <=> g \in Pending
      BY <2>4, <1>12
    <3>5. CASE g \notin Pending
      <4>1. Absent(g) /\ \A d \in Block : dependents[g][d] = 0
        BY <3>5 DEF ManagerInv, NoTaskLost
      <4>2. \A d \in Block : dependents'[g][d] = 0
        BY <4>1, <2>4, <1>9
      <4>3. Absent(g)'
        BY <4>1, <3>1, <3>2, <3>3 DEF Absent
      <4> QED
        BY <3>4, <3>5, <4>2, <4>3
    <3>6. CASE g \in Pending /\ (InPool(g) \/ BeingProcessed(g))
      BY <3>6, <3>1, <3>2, <3>3, <3>4 DEF InPool, BeingProcessed
    <3>7. CASE g \in Pending /\ BehindParent(g)
      <4>1. PICK p \in Parents[g] \cap Pending :
               dependents[p][g] = 1 /\ \A q \in Block \ {p} : dependents[q][g] = 0
        BY <3>7 DEF BehindParent
      <4>2. p \in Pending'
        BY <4>1, <2>4, <1>12 DEF Pending
      <4>3. dependents'[p][g] = 1 /\ \A q \in Block \ {p} : dependents'[q][g] = 0
        BY <4>1, <3>2 DEF Pending
      <4>4. spawned'[g] = 0 /\ g \notin taken'
        BY <3>7, <3>1, <3>3 DEF BehindParent
      <4> QED
        BY <4>1, <4>2, <4>3, <4>4, <3>4, <3>7 DEF BehindParent
    <3> QED
      BY <3>5, <3>6, <3>7 DEF ManagerInv, NoTaskLost
  <2> QED
    BY <2>1, <2>2, <2>3, <2>4, <1>17
<1> QED
  BY <1>10, <1>11, <1>15, <1>18, <1>19 DEF ManagerInv

LEMMA NextManager ==
  ASSUME ManagerInv, [Next]_vars
  PROVE  ManagerInv'
<1>1. CASE UNCHANGED vars
  <2>1. TypeOK'
    BY <1>1 DEF ManagerInv, TypeOK, vars, managerVars
  <2> QED
    BY <2>1, <1>1, ManagerUntouched DEF vars, managerVars
<1>2. CASE Terminated
  BY <1>1, <1>2 DEF Terminated
<1> QED
  BY <1>1, <1>2, SubmitManager, ReceiveTaskManager, ReceiveExitManager, BeginManager, EndManager,
     ForwardExitManager DEF Next

\* The place of every task is kept in all reachable states, so no wake-up is
\* lost or doubled and the expectations of try_begin and end never fail.
THEOREM ManagerCorrect == Spec => [](TypeOK /\ ExpectationsHold /\ NoTaskLost)
<1>1. ManagerInv => TypeOK /\ ExpectationsHold /\ NoTaskLost
  BY DEF ManagerInv
<1> QED
  BY <1>1, InitManager, NextManager, PTL DEF Spec

-----------------------------------------------------------------------------
(* The order in which tasks are handed over *)

\* Task t waits in, or is at the front of, the group of its hash.
Queued(t) == \E k \in 1..Len(tasks[HashOf[t]]) : tasks[HashOf[t]][k] = t

\* Every request is sent once.
SentOnce ==
    \A i, j \in 1..Len(chan) : chan[i] = chan[j] => i = j

\* The tasks received so far are those in a group and those handed over.
Accounted ==
    \A t \in Task : (\E i \in 1..pos : chan[i] = t) <=> (t \in done \/ Queued(t))

\* No task is both in a group and handed over.
NotTwice == \A t \in done : ~ Queued(t)

\* A group holds its tasks in the order in which they were sent.
GroupsInOrder ==
    \A h \in Block : \A k, l \in 1..Len(tasks[h]) :
        k < l => Stage!SentBefore(tasks[h][k], tasks[h][l])

\* The worker stops receiving at the exit message, and is past wait_for_idle
\* only when no group is left.
WorkerInv ==
    /\ worker = "recv" => \A i \in 1..pos : chan[i] # Exit
    /\ worker # "recv" => /\ pos \in 1..Len(chan) /\ chan[pos] = Exit
                         /\ \A i \in 1..pos : i # pos => chan[i] # Exit
    /\ worker \in {"idle", "exited"} => Pending = {}

OrderInv ==
    /\ SentOnce
    /\ Accounted
    /\ NotTwice
    /\ GroupsInOrder
    /\ WorkerInv
    /\ HandoverOrder

\* A running task is the front of its group.
LEMMA RunningIsQueued ==
  ASSUME ManagerInv, NEW t \in running
  PROVE  Queued(t) /\ t \in Task
<1> DEFINE h == HashOf[t]
<1>1. t \in Task /\ h \in Block /\ tasks[h] # <<>> /\ Head(tasks[h]) = t /\ tasks[h] \in Seq(Task)
  BY HashOfAssumption DEF ManagerInv, TypeOK, ExpectationsHold, Pending
<1>2. tasks[h][1] = t /\ 1 \in 1..Len(tasks[h])
  BY <1>1, TailFacts
<1> QED
  BY <1>1, <1>2 DEF Queued

\* A task that runs or is handed over has been received.
LEMMA BegunIsReceived ==
  ASSUME ManagerInv, OrderInv, NEW t \in running \cup done
  PROVE  t \in Task /\ \E i \in 1..pos : chan[i] = t
  BY RunningIsQueued DEF ManagerInv, TypeOK, OrderInv, Accounted

\* The order of sending, restricted to messages already sent, never changes.
LEMMA SubmitKeepsOrder ==
  ASSUME ManagerInv, SentOnce, NEW m \in Task \cup {Exit}, Submit(m), NEW x, NEW y
  PROVE  /\ Stage!SentBefore(x, y) => Stage!SentBefore(x, y)'
         /\ (\E i \in 1..Len(chan) : chan[i] = y) /\ Stage!SentBefore(x, y)' => Stage!SentBefore(x, y)
<1>1. /\ Len(chan) \in Nat /\ Len(chan') = Len(chan) + 1
      /\ \A i \in 1..Len(chan) : chan'[i] = chan[i]
      /\ chan'[Len(chan) + 1] = m
      /\ \A i \in 1..Len(chan) : chan[i] # m
  BY AppendFacts DEF Submit, ManagerInv, TypeOK
<1>2. Stage!SentBefore(x, y) => Stage!SentBefore(x, y)'
  BY <1>1 DEF Stage!SentBefore
<1>3. ASSUME NEW k \in 1..Len(chan), chan[k] = y, Stage!SentBefore(x, y)'
      PROVE  Stage!SentBefore(x, y)
  <2>1. PICK i, j \in 1..Len(chan') : i < j /\ chan'[i] = x /\ chan'[j] = y
    BY <1>3 DEF Stage!SentBefore
  <2>2. j \in 1..Len(chan) /\ i \in 1..Len(chan)
    BY <1>1, <1>3, <2>1
  <2> QED
    BY <1>1, <2>1, <2>2 DEF Stage!SentBefore
<1> QED
  BY <1>2, <1>3

LEMMA InitOrder == Init => OrderInv
<1> SUFFICES ASSUME Init PROVE OrderInv
  OBVIOUS
<1>1. SentOnce /\ NotTwice /\ HandoverOrder
  BY DEF Init, SentOnce, NotTwice, HandoverOrder
<1>2. Accounted
  BY HashOfAssumption DEF Init, Accounted, Queued
<1>3. GroupsInOrder
  BY DEF Init, GroupsInOrder
<1>4. WorkerInv
  BY DEF Init, WorkerInv
<1> QED
  BY <1>1, <1>2, <1>3, <1>4 DEF OrderInv

LEMMA SubmitOrder ==
  ASSUME ManagerInv, OrderInv, NEW m \in Task \cup {Exit}, Submit(m)
  PROVE  OrderInv'
<1>1. /\ Len(chan) \in Nat /\ Len(chan') = Len(chan) + 1
      /\ \A i \in 1..Len(chan) : chan'[i] = chan[i]
      /\ chan'[Len(chan) + 1] = m
      /\ \A i \in 1..Len(chan) : chan[i] # m
      /\ pos \in 0..Len(chan)
  BY AppendFacts DEF Submit, ManagerInv, TypeOK
<1>2. UNCHANGED <<pos, worker, tasks, taken, dependents, spawned, running, done>>
  BY DEF Submit, managerVars
<1>3. SentOnce'
  BY <1>1 DEF OrderInv, SentOnce
<1>4. Accounted' /\ NotTwice'
  BY <1>1, <1>2 DEF OrderInv, Accounted, NotTwice, Queued
<1>5. GroupsInOrder'
  BY <1>2, SubmitKeepsOrder DEF OrderInv, GroupsInOrder
<1>6. WorkerInv'
  BY <1>1, <1>2 DEF OrderInv, WorkerInv, Pending
<1>7. HandoverOrder'
  <2> SUFFICES ASSUME NEW t \in running \cup done, NEW u \in Task, Stage!Precedes(u, t)'
               PROVE  u \in done
    BY <1>2 DEF HandoverOrder
  <2>1. \E i \in 1..Len(chan) : chan[i] = t
    BY <1>1, BegunIsReceived
  <2>2. Stage!Precedes(u, t)
    BY <2>1, SubmitKeepsOrder DEF Stage!Precedes, OrderInv
  <2> QED
    BY <2>2 DEF OrderInv, HandoverOrder
<1> QED
  BY <1>3, <1>4, <1>5, <1>6, <1>7 DEF OrderInv

LEMMA ReceiveTaskOrder ==
  ASSUME ManagerInv, OrderInv, ReceiveTask
  PROVE  OrderInv'
<1> DEFINE t == chan[pos + 1]
           h == HashOf[t]
<1>1. t \in Task /\ h \in Block /\ t # Exit
  BY HashOfAssumption DEF ManagerInv, TypeOK, ReceiveTask
<1>2. /\ tasks' = [tasks EXCEPT ![h] = Append(tasks[h], t)]
      /\ UNCHANGED <<chan, worker, taken, dependents, running, done>>
      /\ pos' = pos + 1 /\ worker = "recv"
      /\ pos \in 0..Len(chan) /\ pos + 1 \in 1..Len(chan) /\ Len(chan) \in Nat
  BY DEF ReceiveTask, Register, ManagerInv, TypeOK
<1>3. chan[pos + 1] = t /\ HashOf[t] = h
  OBVIOUS
<1> HIDE DEF t, h
<1>4. /\ tasks'[h] = Append(tasks[h], t)
      /\ \A g \in Block : g # h => tasks'[g] = tasks[g]
      /\ tasks[h] \in Seq(Task)
  BY <1>1, <1>2 DEF ManagerInv, TypeOK
<1>5. /\ Len(tasks[h]) \in Nat
      /\ Len(tasks'[h]) = Len(tasks[h]) + 1
      /\ \A k \in 1..Len(tasks[h]) : tasks'[h][k] = tasks[h][k]
      /\ tasks'[h][Len(tasks[h]) + 1] = t
  BY <1>1, <1>4, AppendFacts
<1>6. \A i \in 1..pos : chan[i] # t
  BY <1>2, <1>3 DEF OrderInv, SentOnce
<1>7. \A u \in Task : Queued(u)' <=> Queued(u) \/ u = t
  <2> SUFFICES ASSUME NEW u \in Task PROVE Queued(u)' <=> Queued(u) \/ u = t
    OBVIOUS
  <2>1. CASE HashOf[u] = h
    BY <2>1, <1>3, <1>5 DEF Queued
  <2>2. CASE HashOf[u] # h
    BY <2>2, <1>3, <1>4, HashOfAssumption DEF Queued
  <2> QED
    BY <2>1, <2>2
<1>8. SentOnce'
  BY <1>2 DEF OrderInv, SentOnce
<1>9. Accounted'
  <2>1. \A u \in Task : (\E i \in 1..pos' : chan'[i] = u) <=> (\E i \in 1..pos : chan[i] = u) \/ u = t
    BY <1>2, <1>3
  <2> QED
    BY <2>1, <1>2, <1>7 DEF OrderInv, Accounted
<1>10. NotTwice'
  <2>1. t \notin done
    BY <1>1, <1>6 DEF OrderInv, Accounted
  <2> QED
    BY <2>1, <1>2, <1>7 DEF OrderInv, NotTwice, ManagerInv, TypeOK
<1>11. GroupsInOrder'
  <2> SUFFICES ASSUME NEW g \in Block, NEW k \in 1..Len(tasks'[g]), NEW l \in 1..Len(tasks'[g]), k < l
               PROVE  \E i, j \in 1..Len(chan) : i < j /\ chan[i] = tasks'[g][k] /\ chan[j] = tasks'[g][l]
    <3>1. chan' = chan
      BY <1>2
    <3> QED
      BY <3>1 DEF GroupsInOrder, Stage!SentBefore
  <2>1. CASE g # h
    BY <2>1, <1>2, <1>4 DEF OrderInv, GroupsInOrder, Stage!SentBefore
  <2>2. CASE g = h /\ l # Len(tasks[h]) + 1
    <3>1. k \in 1..Len(tasks[h]) /\ l \in 1..Len(tasks[h])
      BY <2>2, <1>5
    <3>2. tasks'[g][k] = tasks[h][k] /\ tasks'[g][l] = tasks[h][l]
      BY <3>1, <2>2, <1>5
    <3>3. Stage!SentBefore(tasks[h][k], tasks[h][l])
      BY <3>1, <1>1 DEF OrderInv, GroupsInOrder
    <3> QED
      BY <3>2, <3>3 DEF Stage!SentBefore
  <2>3. CASE g = h /\ l = Len(tasks[h]) + 1
    <3>1. k \in 1..Len(tasks[h]) /\ tasks'[g][k] = tasks[h][k] /\ tasks'[g][l] = t
      BY <2>3, <1>5
    <3>2. tasks[h][k] \in Task /\ HashOf[tasks[h][k]] = h
      BY <3>1, <1>1, <1>4 DEF ManagerInv, GroupsByHash
    <3>3. Queued(tasks[h][k])
      BY <3>1, <3>2 DEF Queued
    <3>4. PICK i \in 1..pos : chan[i] = tasks[h][k]
      BY <3>2, <3>3 DEF OrderInv, Accounted
    <3>5. i \in 1..Len(chan) /\ i < pos + 1
      BY <3>4, <1>2
    <3> QED
      BY <3>1, <3>4, <3>5, <1>2, <1>3
  <2> QED
    BY <2>1, <2>2, <2>3
<1>12. WorkerInv'
  BY <1>1, <1>2, <1>3 DEF OrderInv, WorkerInv
<1>13. HandoverOrder'
  BY <1>2 DEF OrderInv, HandoverOrder, Stage!Precedes, Stage!SentBefore
<1> QED
  BY <1>8, <1>9, <1>10, <1>11, <1>12, <1>13 DEF OrderInv

LEMMA ReceiveExitOrder ==
  ASSUME ManagerInv, OrderInv, ReceiveExit
  PROVE  OrderInv'
<1>1. /\ UNCHANGED <<chan, tasks, taken, dependents, spawned, running, done>>
      /\ pos' = pos + 1 /\ chan[pos + 1] = Exit /\ worker = "recv"
      /\ worker' = IF Pending = {} THEN "idle" ELSE "waiting"
      /\ pos \in 0..Len(chan) /\ pos + 1 \in 1..Len(chan) /\ Len(chan) \in Nat
  BY DEF ReceiveExit, managerVars, ManagerInv, TypeOK
<1>2. SentOnce' /\ NotTwice' /\ GroupsInOrder' /\ HandoverOrder'
  BY <1>1 DEF OrderInv, SentOnce, NotTwice, Queued, GroupsInOrder, HandoverOrder, Stage!Precedes,
              Stage!SentBefore
<1>3. Accounted'
  <2>1. \A u \in Task : (\E i \in 1..pos' : chan'[i] = u) <=> (\E i \in 1..pos : chan[i] = u)
    BY <1>1, ExitAssumption
  <2> QED
    BY <1>1, <2>1 DEF OrderInv, Accounted, Queued
<1>4. Pending' = Pending
  BY <1>1 DEF Pending
<1>5. WorkerInv'
  BY <1>1, <1>4 DEF OrderInv, WorkerInv, SentOnce
<1> QED
  BY <1>2, <1>3, <1>5 DEF OrderInv

LEMMA ForwardExitOrder ==
  ASSUME ManagerInv, OrderInv, ForwardExit
  PROVE  OrderInv'
<1>1. /\ UNCHANGED <<chan, pos, tasks, taken, dependents, spawned, running, done>>
      /\ worker = "idle" /\ worker' = "exited"
  BY DEF ForwardExit, managerVars
<1>2. SentOnce' /\ NotTwice' /\ GroupsInOrder' /\ HandoverOrder' /\ Accounted'
  BY <1>1 DEF OrderInv, SentOnce, NotTwice, Queued, Accounted, GroupsInOrder, HandoverOrder,
              Stage!Precedes, Stage!SentBefore
<1>3. WorkerInv'
  BY <1>1 DEF OrderInv, WorkerInv, Pending
<1> QED
  BY <1>2, <1>3 DEF OrderInv

\* try_begin takes a task only when everything it depends on is over.
LEMMA TakeRespectsOrder ==
  ASSUME ManagerInv, OrderInv, NEW h \in Block, spawned[h] > 0, Take(h)
  PROVE  LET t == Head(tasks[h]) IN
         /\ t \in Task /\ HashOf[t] = h /\ Queued(t)
         /\ t \notin running \cup done
         /\ \E i \in 1..pos : chan[i] = t
         /\ \A u \in Task : Stage!Precedes(u, t) => u \in done
<1> DEFINE t == Head(tasks[h])
<1>1. h \in Pending /\ h \notin taken
  BY DEF ManagerInv, ExpectationsHold
<1>2. tasks[h] \in Seq(Task) /\ tasks[h] # <<>>
  BY <1>1 DEF ManagerInv, TypeOK, Pending
<1>3. t \in Task /\ t = tasks[h][1] /\ Len(tasks[h]) \in Nat \ {0}
  BY <1>2, TailFacts
<1>4. HashOf[t] = h
  BY <1>3 DEF ManagerInv, GroupsByHash
<1>5. Queued(t)
  BY <1>3, <1>4 DEF Queued
<1>6. t \notin running \cup done
  BY <1>1, <1>3, <1>4, <1>5 DEF ManagerInv, ExpectationsHold, OrderInv, NotTwice
<1>7. PICK j \in 1..pos : chan[j] = t
  BY <1>3, <1>5 DEF OrderInv, Accounted
<1>8. ASSUME NEW u \in Task, Stage!Precedes(u, t)
      PROVE  u \in done
  <2>1. PICK i, k \in 1..Len(chan) : i < k /\ chan[i] = u /\ chan[k] = t
    BY <1>8 DEF Stage!Precedes, Stage!SentBefore
  <2>2. j \in 1..Len(chan) /\ pos \in Nat /\ Len(chan) \in Nat
    BY <1>7 DEF ManagerInv, TypeOK
  <2>3. k = j
    BY <1>7, <2>1, <2>2 DEF OrderInv, SentOnce
  <2>4. i \in 1..pos
    BY <2>1, <2>2, <2>3
  <2>5. u \in done \/ Queued(u)
    BY <2>1, <2>4 DEF OrderInv, Accounted
  <2>6. HashOf[u] \in Parents[h] \/ HashOf[u] = h
    BY <1>4, <1>8 DEF Stage!Precedes
  <2>7. HashOf[u] \in Parents[h] => ~ Queued(u)
    <3> SUFFICES ASSUME HashOf[u] \in Parents[h], Queued(u) PROVE FALSE
      OBVIOUS
    <3>1. HashOf[u] \in Block /\ tasks[HashOf[u]] \in Seq(Task)
      BY HashOfAssumption DEF ManagerInv, TypeOK
    <3>2. tasks[HashOf[u]] # <<>>
      BY <3>1 DEF Queued
    <3> QED
      BY <3>1, <3>2 DEF Take, Pending
  <2>8. HashOf[u] = h => ~ Queued(u)
    <3> SUFFICES ASSUME HashOf[u] = h, NEW n \in 1..Len(tasks[h]), tasks[h][n] = u PROVE FALSE
      BY DEF Queued
    <3>1. n # 1
      BY <1>3, <1>7, <2>1, <2>2, <2>3, <2>4 DEF OrderInv, SentOnce
    <3>2. Stage!SentBefore(t, u)
      BY <1>3, <3>1 DEF OrderInv, GroupsInOrder
    <3>3. PICK a, b \in 1..Len(chan) : a < b /\ chan[a] = t /\ chan[b] = u
      BY <3>2 DEF Stage!SentBefore
    <3>4. a = k /\ b = i
      BY <2>1, <3>3 DEF OrderInv, SentOnce
    <3> QED
      BY <2>1, <3>3, <3>4
  <2> QED
    BY <2>5, <2>6, <2>7, <2>8
<1> QED
  BY <1>3, <1>4, <1>5, <1>6, <1>7, <1>8

LEMMA BeginOrder ==
  ASSUME ManagerInv, OrderInv, NEW h \in Block, Begin(h)
  PROVE  OrderInv'
<1>1. UNCHANGED <<chan, pos, worker, tasks, done>>
  BY DEF Begin, TryBegin, Take, DeferTo
<1>2. SentOnce' /\ NotTwice' /\ GroupsInOrder' /\ Accounted'
  BY <1>1 DEF OrderInv, SentOnce, NotTwice, Queued, Accounted, GroupsInOrder, Stage!SentBefore
<1>3. WorkerInv'
  BY <1>1 DEF OrderInv, WorkerInv, Pending
<1>4. HandoverOrder'
  <2> SUFFICES ASSUME NEW t \in running' \cup done', NEW u \in Task, Stage!Precedes(u, t)'
               PROVE  u \in done
    BY <1>1 DEF HandoverOrder
  <2>1. Stage!Precedes(u, t)
    BY <1>1 DEF Stage!Precedes, Stage!SentBefore
  <2>2. CASE t \in running \cup done
    BY <2>1, <2>2 DEF OrderInv, HandoverOrder
  <2>3. CASE t \notin running \cup done
    <3>1. Take(h) /\ spawned[h] > 0 /\ t = Head(tasks[h])
      BY <2>3, <1>1 DEF Begin, TryBegin, Take, DeferTo
    <3> QED
      BY <2>1, <3>1, TakeRespectsOrder
  <2> QED
    BY <2>2, <2>3
<1> QED
  BY <1>2, <1>3, <1>4 DEF OrderInv

LEMMA EndOrder ==
  ASSUME ManagerInv, OrderInv, NEW t \in Task, End(t)
  PROVE  OrderInv'
<1> DEFINE h == HashOf[t]
           rest == Tail(tasks[h])
<1>1. /\ t \in running /\ h \in Block
      /\ h \in Pending /\ Head(tasks[h]) = t
  BY HashOfAssumption DEF ManagerInv, ExpectationsHold, End
<1>2. /\ tasks' = [tasks EXCEPT ![h] = rest]
      /\ running' = running \ {t}
      /\ done' = done \cup {t}
      /\ chan' = chan /\ pos' = pos
  BY DEF End, PopFront
<1>3. tasks[h] \in Seq(Task) /\ tasks[h] # <<>>
  BY <1>1 DEF ManagerInv, TypeOK, Pending
<1>4. /\ rest \in Seq(Task)
      /\ Len(tasks[h]) \in Nat \ {0}
      /\ Len(rest) = Len(tasks[h]) - 1
      /\ \A k \in 1..Len(rest) : rest[k] = tasks[h][k + 1]
      /\ tasks[h][1] = t
  BY <1>1, <1>3, TailFacts
<1>5. HashOf[t] = h
  OBVIOUS
<1> HIDE DEF h, rest
<1>6. /\ tasks'[h] = rest
      /\ \A g \in Block : g # h => tasks'[g] = tasks[g]
  BY <1>1, <1>2 DEF ManagerInv, TypeOK
<1>7. SentOnce'
  BY <1>2 DEF OrderInv, SentOnce
<1>8. \A k \in 1..Len(tasks[h]) : k # 1 => tasks[h][k] # t
  <2> SUFFICES ASSUME NEW k \in 1..Len(tasks[h]), k # 1, tasks[h][k] = t PROVE FALSE
    OBVIOUS
  <2>1. 1 \in 1..Len(tasks[h]) /\ 1 < k
    BY <1>4
  <2>2. Stage!SentBefore(tasks[h][1], tasks[h][k])
    BY <1>1, <2>1 DEF OrderInv, GroupsInOrder
  <2>3. Stage!SentBefore(t, t)
    BY <1>4, <2>2
  <2> QED
    BY <2>3 DEF OrderInv, SentOnce, Stage!SentBefore
<1>9. \A u \in Task : Queued(u)' <=> Queued(u) /\ u # t
  <2> SUFFICES ASSUME NEW u \in Task PROVE Queued(u)' <=> Queued(u) /\ u # t
    OBVIOUS
  <2>1. CASE HashOf[u] = h
    <3>1. Queued(u) <=> \E k \in 1..Len(tasks[h]) : tasks[h][k] = u
      BY <2>1 DEF Queued
    <3>2. Queued(u)' <=> \E k \in 1..Len(rest) : rest[k] = u
      BY <2>1, <1>6 DEF Queued
    <3>3. ASSUME NEW k \in 1..Len(rest), rest[k] = u
          PROVE  Queued(u) /\ u # t
      <4>1. k + 1 \in 1..Len(tasks[h]) /\ k + 1 # 1 /\ tasks[h][k + 1] = u
        BY <3>3, <1>4
      <4> QED
        BY <4>1, <3>1, <1>8
    <3>4. ASSUME NEW k \in 1..Len(tasks[h]), tasks[h][k] = u, u # t
          PROVE  \E n \in 1..Len(rest) : rest[n] = u
      <4>1. k # 1 /\ k - 1 \in 1..Len(rest) /\ rest[k - 1] = u
        BY <3>4, <1>4
      <4> QED
        BY <4>1
    <3> QED
      BY <3>1, <3>2, <3>3, <3>4
  <2>2. CASE HashOf[u] # h
    <3>1. tasks'[HashOf[u]] = tasks[HashOf[u]] /\ u # t
      BY <2>2, <1>5, <1>6, HashOfAssumption
    <3> QED
      BY <3>1 DEF Queued
  <2> QED
    BY <2>1, <2>2
<1>10. Queued(t)
  BY <1>4, <1>5 DEF Queued
<1>11. Accounted'
  BY <1>2, <1>9, <1>10 DEF OrderInv, Accounted
<1>12. NotTwice'
  BY <1>2, <1>9 DEF OrderInv, NotTwice, ManagerInv, TypeOK
<1>13. GroupsInOrder'
  <2> SUFFICES ASSUME NEW g \in Block, NEW k \in 1..Len(tasks'[g]), NEW l \in 1..Len(tasks'[g]), k < l
               PROVE  \E i, j \in 1..Len(chan) : i < j /\ chan[i] = tasks'[g][k] /\ chan[j] = tasks'[g][l]
    <3>1. chan' = chan
      BY <1>2
    <3> QED
      BY <3>1 DEF GroupsInOrder, Stage!SentBefore
  <2>1. CASE g # h
    <3>1. tasks'[g] = tasks[g]
      BY <2>1, <1>6
    <3>2. Stage!SentBefore(tasks[g][k], tasks[g][l])
      BY <3>1 DEF OrderInv, GroupsInOrder
    <3> QED
      BY <3>1, <3>2 DEF Stage!SentBefore
  <2>2. CASE g = h
    <3>1. /\ k + 1 \in 1..Len(tasks[h]) /\ l + 1 \in 1..Len(tasks[h]) /\ k + 1 < l + 1
          /\ tasks'[g][k] = tasks[h][k + 1] /\ tasks'[g][l] = tasks[h][l + 1]
      BY <2>2, <1>4, <1>6
    <3>2. Stage!SentBefore(tasks[h][k + 1], tasks[h][l + 1])
      BY <3>1, <1>1 DEF OrderInv, GroupsInOrder
    <3> QED
      BY <3>1, <3>2 DEF Stage!SentBefore
  <2> QED
    BY <2>1, <2>2
<1>14. WorkerInv'
  <2>1. worker' = IF worker = "waiting" /\ \A g \in Block : tasks'[g] = <<>> THEN "idle" ELSE worker
    BY DEF End
  <2>2. worker \notin {"idle", "exited"}
    BY <1>1 DEF OrderInv, WorkerInv
  <2> QED
    BY <1>2, <2>1, <2>2 DEF OrderInv, WorkerInv, Pending
<1>15. HandoverOrder'
  <2>1. running' \cup done' = running \cup done
    BY <1>1, <1>2
  <2> QED
    BY <1>2, <2>1 DEF OrderInv, HandoverOrder, Stage!Precedes, Stage!SentBefore
<1> QED
  BY <1>7, <1>11, <1>12, <1>13, <1>14, <1>15 DEF OrderInv

LEMMA NextOrder ==
  ASSUME ManagerInv, OrderInv, [Next]_vars
  PROVE  OrderInv'
<1>1. CASE UNCHANGED vars
  BY <1>1 DEF vars, managerVars, OrderInv, SentOnce, Accounted, NotTwice, Queued, GroupsInOrder,
              WorkerInv, Pending, HandoverOrder, Stage!Precedes, Stage!SentBefore
<1>2. CASE Terminated
  BY <1>1, <1>2 DEF Terminated
<1> QED
  BY <1>1, <1>2, SubmitOrder, ReceiveTaskOrder, ReceiveExitOrder, BeginOrder, EndOrder,
     ForwardExitOrder DEF Next

\* After wait_for_idle nothing is pending, in the pool or running, and every
\* task sent before the exit message is over.
LEMMA IdleFollows ==
  ASSUME ManagerInv, OrderInv
  PROVE  IdleMeansDone
<1> SUFFICES ASSUME worker \in {"idle", "exited"}
             PROVE  /\ Pending = {}
                    /\ running = {}
                    /\ \A h \in Block : spawned[h] = 0
                    /\ \A t \in Task : Stage!SentBefore(t, Exit) => t \in done
  BY DEF IdleMeansDone
<1>1. Pending = {}
  BY DEF OrderInv, WorkerInv
<1>2. running = {}
  BY <1>1 DEF ManagerInv, ExpectationsHold
<1>3. \A h \in Block : spawned[h] = 0
  BY <1>1 DEF ManagerInv, NoTaskLost, Absent
<1>4. ASSUME NEW t \in Task, Stage!SentBefore(t, Exit)
      PROVE  t \in done
  <2>1. PICK i, j \in 1..Len(chan) : i < j /\ chan[i] = t /\ chan[j] = Exit
    BY <1>4 DEF Stage!SentBefore
  <2>2. pos \in 1..Len(chan) /\ chan[pos] = Exit
    BY DEF OrderInv, WorkerInv
  <2>3. i \in 1..pos
    BY <2>1, <2>2 DEF OrderInv, SentOnce
  <2>4. t \in done \/ Queued(t)
    BY <2>1, <2>3 DEF OrderInv, Accounted
  <2>5. tasks[HashOf[t]] = <<>>
    BY <1>1, HashOfAssumption DEF Pending
  <2> QED
    BY <2>4, <2>5 DEF Queued
<1> QED
  BY <1>1, <1>2, <1>3, <1>4

\* Tasks are handed over in dependency order, and the station is empty when
\* its worker has returned from wait_for_idle.
THEOREM HandoverCorrect == Spec => [](HandoverOrder /\ IdleMeansDone)
<1>1. ManagerInv /\ OrderInv => HandoverOrder /\ IdleMeansDone
  BY IdleFollows DEF OrderInv
<1>2. Init => ManagerInv /\ OrderInv
  BY InitManager, InitOrder
<1>3. ManagerInv /\ OrderInv /\ [Next]_vars => (ManagerInv /\ OrderInv)'
  BY NextManager, NextOrder
<1> QED
  BY <1>1, <1>2, <1>3, PTL DEF Spec

\* Only one thread at a time owns a block.
THEOREM OwnershipCorrect == Spec => []SingleOwner
<1>1. ManagerInv => SingleOwner
  BY DEF ManagerInv, ExpectationsHold, SingleOwner
<1> QED
  BY <1>1, InitManager, NextManager, PTL DEF Spec

\* Every step of the station is a step of its promise, or invisible to it.
LEMMA StepIsStageStep ==
  ASSUME ManagerInv, OrderInv, [Next]_vars
  PROVE  [Stage!StageNext]_(Stage!stageVars)
<1> USE DEF Stage!stageVars
<1>1. ASSUME NEW m \in Task \cup {Exit}, Submit(m) PROVE Stage!Send(m)
  BY <1>1 DEF Submit, managerVars, Stage!Send
<1>2. CASE ReceiveTask
  BY <1>2 DEF ReceiveTask, Register
<1>3. CASE ReceiveExit
  BY <1>3 DEF ReceiveExit, managerVars
<1>4. ASSUME NEW h \in Block, Begin(h)
      PROVE  (\E t \in Task : Stage!Start(t)) \/ UNCHANGED Stage!stageVars
  <2>1. CASE \E p \in Block : DeferTo(h, p)
    BY <1>4, <2>1 DEF Begin, DeferTo
  <2>2. CASE Take(h)
    <3> DEFINE t == Head(tasks[h])
    <3>1. spawned[h] > 0 /\ UNCHANGED <<chan, done, worker>> /\ running' = running \cup {t}
      BY <1>4, <2>2 DEF Begin, TryBegin, Take
    <3>2. /\ t \in Task
          /\ t \notin running \cup done
          /\ \E i \in 1..pos : chan[i] = t
          /\ \A u \in Task : Stage!Precedes(u, t) => u \in done
      BY <2>2, <3>1, TakeRespectsOrder
    <3> HIDE DEF t
    <3>3. PICK j \in 1..pos : chan[j] = t
      BY <3>2
    <3>4. j \in 1..Len(chan) /\ pos \in 0..Len(chan) /\ Len(chan) \in Nat
      BY <3>3 DEF ManagerInv, TypeOK
    <3>5. ~ Stage!SentBefore(Exit, t)
      <4> SUFFICES ASSUME NEW a \in 1..Len(chan), NEW b \in 1..Len(chan),
                          a < b, chan[a] = Exit, chan[b] = t
                   PROVE  FALSE
        BY DEF Stage!SentBefore
      <4>1. b = j
        BY <3>3, <3>4 DEF OrderInv, SentOnce
      <4>2. a \in 1..pos /\ a # pos
        BY <3>3, <3>4, <4>1
      <4> QED
        BY <4>2 DEF OrderInv, WorkerInv
    <3>6. Stage!Start(t)
      BY <3>1, <3>2, <3>3, <3>4, <3>5 DEF Stage!Start
    <3> QED
      BY <3>2, <3>6
  <2> QED
    BY <1>4, <2>1, <2>2 DEF Begin, TryBegin
<1>5. ASSUME NEW t \in Task, End(t) PROVE Stage!HandOver(t)
  <2>1. (worker = "exited") = (worker' = "exited")
    BY <1>5 DEF End
  <2> QED
    BY <1>5, <2>1 DEF End, Stage!HandOver
<1>6. CASE ForwardExit
  <2>1. worker = "idle" /\ worker' = "exited" /\ UNCHANGED <<chan, running, done>>
    BY <1>6 DEF ForwardExit, managerVars
  <2>2. \E i \in 1..Len(chan) : chan[i] = Exit
    BY <2>1 DEF OrderInv, WorkerInv
  <2>3. \A t \in Task : Stage!SentBefore(t, Exit) => t \in done
    BY <2>1, IdleFollows DEF IdleMeansDone
  <2>4. Stage!PassExit
    BY <2>1, <2>2, <2>3 DEF Stage!PassExit
  <2> QED
    BY <2>4 DEF Stage!StageNext
<1>7. CASE Terminated \/ UNCHANGED vars
  BY <1>7 DEF Terminated, vars, managerVars
<1> QED
  BY <1>1, <1>2, <1>3, <1>4, <1>5, <1>6, <1>7 DEF Next, Stage!StageNext

\* The worker, the dependency manager and the thread pool together keep the
\* promise of a pipeline station, which BlockPipeline builds on.
THEOREM StageImplemented == Spec => ImplementsStage
<1>1. Init => Stage!StageInit
  BY DEF Init, Stage!StageInit
<1>2. Init => ManagerInv /\ OrderInv
  BY InitManager, InitOrder
<1>3. ManagerInv /\ OrderInv /\ [Next]_vars => (ManagerInv /\ OrderInv)'
  BY NextManager, NextOrder
<1>4. ManagerInv /\ OrderInv /\ [Next]_vars => [Stage!StageNext]_(Stage!stageVars)
  BY StepIsStageStep
<1> QED
  BY <1>1, <1>2, <1>3, <1>4, PTL DEF Spec, ImplementsStage, Stage!StageSpec
=============================================================================
