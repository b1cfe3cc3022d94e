-------------------------- MODULE SessionLockProofs --------------------------
(***************************************************************************)
(* Proofs about SessionLock, for every set of readers, every set of        *)
(* writers and every number of calls.                                      *)
(***************************************************************************)
EXTENDS SessionLock, FiniteSetTheorems, TLAPS

Holding == {"drop", "in"}

HoldingReaders == {r \in Reader : Holds(r)}

\* A writer has taken every permit and leaves none to anyone else.
WriterAccount ==
    \A w \in Writer : Holds(w) => counter = 0 /\ \A p \in Process \ {w} : ~Holds(p)

\* Otherwise a permit is missing for every reader inside.
ReaderAccount ==
    (\A w \in Writer : ~Holds(w)) => counter = MaxPermits - Cardinality(HoldingReaders)

\* The inductive invariant behind mutual exclusion.
LockInv == TypeOK /\ WriterAccount /\ ReaderAccount

\* The inductive invariant behind the absence of lost wakeups.
WakeInv == LockInv /\ NoLostWakeup /\ ReaderSleepsForWriter

-----------------------------------------------------------------------------
(* The counter *)

\* What is known of the readers inside: fewer than MAX_PERMITS.
LEMMA ReadersInside ==
  /\ IsFiniteSet(HoldingReaders)
  /\ Cardinality(HoldingReaders) \in Nat
  /\ Cardinality(HoldingReaders) < MaxPermits
  /\ MaxPermits \in Nat \ {0}
  /\ Cardinality(HoldingReaders) = 0 <=> HoldingReaders = {}
<1>1. HoldingReaders \in SUBSET Reader
  BY DEF HoldingReaders
<1>2. IsFiniteSet(Reader) /\ MaxPermits \in Nat /\ Cardinality(Reader) < MaxPermits
  BY PermitsAssumption
<1>3. Cardinality(Reader) \in Nat
  BY <1>2, FS_CardinalityType
<1>4. IsFiniteSet(HoldingReaders) /\ Cardinality(HoldingReaders) <= Cardinality(Reader)
  BY <1>1, <1>2, FS_Subset
<1>5. Cardinality(HoldingReaders) \in Nat
  BY <1>4, FS_CardinalityType
<1>6. Cardinality(HoldingReaders) = 0 <=> HoldingReaders = {}
  BY <1>4, FS_EmptySet
<1> QED
  BY <1>2, <1>3, <1>4, <1>5, <1>6

\* The counter is zero exactly while a writer holds the lock.
LEMMA EmptyCounter ==
  ASSUME LockInv
  PROVE  counter = 0 <=> \E w \in Writer : Holds(w)
<1>1. CASE \E w \in Writer : Holds(w)
  BY <1>1 DEF LockInv, WriterAccount
<1>2. CASE \A w \in Writer : ~Holds(w)
  BY <1>2, ReadersInside DEF LockInv, ReaderAccount
<1> QED
  BY <1>1, <1>2

\* A step that moves one process and leaves the counter alone.
LEMMA AccountKept ==
  ASSUME LockInv, NEW p \in Process, NEW x,
         pc' = [pc EXCEPT ![p] = x], counter' = counter,
         pc[p] \in Holding <=> x \in Holding
  PROVE  (WriterAccount /\ ReaderAccount)'
<1>1. \A q \in Process : Holds(q)' <=> Holds(q)
  BY DEF LockInv, TypeOK, Holds, Holding
<1>2. HoldingReaders' = HoldingReaders
  BY <1>1 DEF HoldingReaders, Process
<1>3. WriterAccount'
  BY <1>1 DEF LockInv, WriterAccount, Process
<1>4. ReaderAccount'
  BY <1>1, <1>2 DEF LockInv, ReaderAccount, Process
<1> QED
  BY <1>3, <1>4

\* try_acquire takes the permits of a reader or of a writer.
LEMMA Acquired ==
  ASSUME LockInv, NEW p \in Process, NEW x \in Holding,
         ~Holds(p), TryAcquire(p), pc' = [pc EXCEPT ![p] = x]
  PROVE  /\ (WriterAccount /\ ReaderAccount)'
         /\ counter' \in 0..MaxPermits
<1>1. Holds(p)' /\ \A q \in Process \ {p} : Holds(q)' <=> Holds(q)
  BY DEF LockInv, TypeOK, Holds, Holding
<1>2. counter \in Nat /\ counter >= Permits(p) /\ counter' = counter - Permits(p)
  BY DEF LockInv, TypeOK, TryAcquire
<1>3. \A w \in Writer : ~Holds(w)
  BY <1>2, EmptyCounter, ReadersInside DEF Permits
<1>4. counter = MaxPermits - Cardinality(HoldingReaders)
  BY <1>3 DEF LockInv, ReaderAccount
<1>5. CASE p \in Writer
  <2>1. Permits(p) = MaxPermits
    BY <1>5 DEF Permits
  <2>2. HoldingReaders = {}
    BY <1>2, <1>4, <2>1, ReadersInside
  <2>3. counter' = 0
    BY <1>2, <1>4, <2>1, ReadersInside
  <2>4. \A q \in Process \ {p} : ~Holds(q)'
    BY <1>1, <1>3, <2>2 DEF HoldingReaders, Process
  <2>5. \A w \in Writer : Holds(w)' => w = p
    BY <2>4 DEF Process
  <2>6. WriterAccount'
    BY <2>3, <2>4, <2>5 DEF WriterAccount
  <2>7. ReaderAccount'
    BY <1>1, <1>5 DEF ReaderAccount
  <2> QED
    BY <2>3, <2>6, <2>7, ReadersInside
<1>6. CASE p \in Reader
  <2>1. p \notin Writer /\ Permits(p) = 1
    BY <1>6, PermitsAssumption DEF Permits
  <2>2. \A w \in Writer : ~Holds(w)'
    BY <1>1, <1>3, <2>1 DEF Process
  <2>3. HoldingReaders' = HoldingReaders \cup {p} /\ p \notin HoldingReaders
    BY <1>1, <1>6 DEF HoldingReaders, Process
  <2>4. Cardinality(HoldingReaders') = Cardinality(HoldingReaders) + 1
    BY <2>3, ReadersInside, FS_AddElement
  <2>5. counter' = MaxPermits - Cardinality(HoldingReaders')
    BY <1>2, <1>4, <2>1, <2>4, ReadersInside
  <2> QED
    BY <1>2, <1>4, <2>1, <2>2, <2>5, ReadersInside DEF WriterAccount, ReaderAccount
<1> QED
  BY <1>5, <1>6 DEF Process

\* A guard is dropped: its permits are given back.
LEMMA Released ==
  ASSUME LockInv, NEW p \in Process, NEW x, x \notin Holding,
         Holds(p), counter' = counter + Permits(p), pc' = [pc EXCEPT ![p] = x]
  PROVE  /\ (WriterAccount /\ ReaderAccount)'
         /\ counter' \in 0..MaxPermits
<1>1. ~Holds(p)' /\ \A q \in Process \ {p} : Holds(q)' <=> Holds(q)
  BY DEF LockInv, TypeOK, Holds, Holding
<1>2. CASE p \in Writer
  <2>1. counter = 0 /\ \A q \in Process \ {p} : ~Holds(q)
    BY <1>2 DEF LockInv, WriterAccount
  <2>2. counter' = MaxPermits
    BY <1>2, <2>1, ReadersInside DEF Permits
  <2>3. \A q \in Process : ~Holds(q)'
    BY <1>1, <2>1
  <2>4. HoldingReaders' = {}
    BY <2>3 DEF HoldingReaders, Process
  <2>5. Cardinality(HoldingReaders') = 0
    BY <2>4, FS_EmptySet
  <2> QED
    BY <2>2, <2>3, <2>5, ReadersInside DEF WriterAccount, ReaderAccount, Process
<1>3. CASE p \in Reader
  <2>1. p \notin Writer /\ Permits(p) = 1
    BY <1>3, PermitsAssumption DEF Permits
  <2>2. \A w \in Writer : ~Holds(w)
    BY <1>3, <2>1 DEF LockInv, WriterAccount, Process
  <2>3. \A w \in Writer : ~Holds(w)'
    BY <1>1, <2>1, <2>2 DEF Process
  <2>4. HoldingReaders' = HoldingReaders \ {p} /\ p \in HoldingReaders
    BY <1>1, <1>3 DEF HoldingReaders, Process
  <2>5. Cardinality(HoldingReaders') = Cardinality(HoldingReaders) - 1
    BY <2>4, ReadersInside, FS_RemoveElement
  <2>6. counter = MaxPermits - Cardinality(HoldingReaders) /\ HoldingReaders # {}
    BY <2>2, <2>4 DEF LockInv, ReaderAccount
  <2>7. counter' = MaxPermits - Cardinality(HoldingReaders')
    BY <2>1, <2>5, <2>6, ReadersInside
  <2>8. counter' \in 0..MaxPermits
    BY <2>1, <2>6, ReadersInside
  <2> QED
    BY <2>3, <2>7, <2>8 DEF WriterAccount, ReaderAccount
<1> QED
  BY <1>2, <1>3 DEF Process

-----------------------------------------------------------------------------
(* Mutual exclusion *)

LEMMA LockInvInit ==
  Init => LockInv
<1> SUFFICES ASSUME Init PROVE LockInv
  OBVIOUS
<1>1. \A p \in Process : ~Holds(p)
  BY DEF Init, Holds
<1>2. HoldingReaders = {}
  BY <1>1 DEF HoldingReaders, Process
<1>3. TypeOK
  BY ReadersInside, CallsAssumption DEF Init, TypeOK, Place, Process
<1> QED
  BY <1>1, <1>2, <1>3, ReadersInside DEF Init, LockInv, WriterAccount, ReaderAccount, Process

\* An entry is notified by Event::notify only if it is in the list.
LEMMA NotifiedListen ==
  ASSUME NEW L, NEW M \in SUBSET L, NotifyOne(L, M)
  PROVE  notified' \subseteq L
  BY DEF NotifyOne

LEMMA LockInvStep ==
  LockInv /\ [Next]_vars => LockInv'
<1> SUFFICES ASSUME LockInv, [Next]_vars PROVE LockInv'
  OBVIOUS
<1> USE DEF LockInv
<1>1. ASSUME NEW p \in Process, Call(p) PROVE LockInv'
  <2>1. (WriterAccount /\ ReaderAccount)'
    BY <1>1, AccountKept DEF Call, Goto, Holding
  <2>2. TypeOK'
    BY <1>1, CallsAssumption DEF Call, Goto, TypeOK, Place
  <2> QED
    BY <2>1, <2>2
<1>2. ASSUME NEW p \in Process, Try(p) PROVE LockInv'
  <2>1. CASE TryAcquire(p) /\ Goto(p, "in")
    <3>1. (WriterAccount /\ ReaderAccount)' /\ counter' \in 0..MaxPermits
      BY <1>2, <2>1, Acquired DEF Try, Goto, Holding, Holds
    <3> QED
      BY <1>2, <2>1, <3>1 DEF Try, Goto, TypeOK, Place
  <2>2. CASE TryAcquireFails(p) /\ Goto(p, "listen")
    <3>1. (WriterAccount /\ ReaderAccount)'
      BY <1>2, <2>2, AccountKept DEF Try, TryAcquireFails, Goto, Holding
    <3> QED
      BY <1>2, <2>2, <3>1 DEF Try, TryAcquireFails, Goto, TypeOK, Place
  <2> QED
    BY <1>2, <2>1, <2>2 DEF Try
<1>3. ASSUME NEW p \in Process, Listen(p) PROVE LockInv'
  <2>1. (WriterAccount /\ ReaderAccount)'
    BY <1>3, AccountKept DEF Listen, Goto, Holding
  <2>2. TypeOK'
    BY <1>3 DEF Listen, Goto, TypeOK, Place
  <2> QED
    BY <2>1, <2>2
<1>4. ASSUME NEW p \in Process, Retry(p) PROVE LockInv'
  <2>1. CASE TryAcquire(p) /\ Goto(p, "drop")
    <3>1. (WriterAccount /\ ReaderAccount)' /\ counter' \in 0..MaxPermits
      BY <1>4, <2>1, Acquired DEF Retry, Goto, Holding, Holds
    <3> QED
      BY <1>4, <2>1, <3>1 DEF Retry, Goto, TypeOK, Place
  <2>2. CASE TryAcquireFails(p) /\ Goto(p, "wait")
    <3>1. (WriterAccount /\ ReaderAccount)'
      BY <1>4, <2>2, AccountKept DEF Retry, TryAcquireFails, Goto, Holding
    <3> QED
      BY <1>4, <2>2, <3>1 DEF Retry, TryAcquireFails, Goto, TypeOK, Place
  <2> QED
    BY <1>4, <2>1, <2>2 DEF Retry
<1>5. ASSUME NEW p \in Process, DropListener(p) PROVE LockInv'
  <2>1. (WriterAccount /\ ReaderAccount)'
    BY <1>5, AccountKept DEF DropListener, Goto, Holding
  <2>2. notified' \subseteq listening \ {p}
    <3>1. notified \subseteq listening
      BY DEF TypeOK
    <3>2. CASE p \in notified
      <4>1. NotifyOne(listening \ {p}, notified \ {p})
        BY <1>5, <3>2 DEF DropListener
      <4> QED
        BY <3>1, <4>1, NotifiedListen
    <3>3. CASE p \notin notified
      BY <1>5, <3>1, <3>3 DEF DropListener
    <3> QED
      BY <3>2, <3>3
  <2>3. TypeOK'
    BY <1>5, <2>2 DEF DropListener, Goto, TypeOK, Place
  <2> QED
    BY <2>1, <2>3
<1>6. ASSUME NEW p \in Process, Wake(p) PROVE LockInv'
  <2>1. (WriterAccount /\ ReaderAccount)'
    BY <1>6, AccountKept DEF Wake, Goto, Holding
  <2>2. TypeOK'
    BY <1>6 DEF Wake, Goto, TypeOK, Place
  <2> QED
    BY <2>1, <2>2
<1>7. ASSUME NEW p \in Process, Cancel(p) PROVE LockInv'
  <2>1. (WriterAccount /\ ReaderAccount)'
    BY <1>7, AccountKept DEF Cancel, Goto, Holding
  <2>2. notified' \subseteq listening \ {p}
    <3>1. notified \subseteq listening
      BY DEF TypeOK
    <3>2. CASE p \in notified
      <4>1. NotifyOne(listening \ {p}, notified \ {p})
        BY <1>7, <3>2 DEF Cancel
      <4> QED
        BY <3>1, <4>1, NotifiedListen
    <3>3. CASE p \notin notified
      BY <1>7, <3>1, <3>3 DEF Cancel
    <3> QED
      BY <3>2, <3>3
  <2>3. TypeOK'
    BY <1>7, <2>2 DEF Cancel, Goto, TypeOK, Place
  <2> QED
    BY <2>1, <2>3
<1>8. ASSUME NEW p \in Process, Release(p) PROVE LockInv'
  <2>1. (WriterAccount /\ ReaderAccount)' /\ counter' \in 0..MaxPermits
    BY <1>8, Released DEF Release, Goto, Holding, Holds
  <2>2. TypeOK'
    BY <1>8, <2>1 DEF Release, Goto, TypeOK, Place
  <2> QED
    BY <2>1, <2>2
<1>9. ASSUME NEW p \in Process, Yield(p) PROVE LockInv'
  <2>1. (WriterAccount /\ ReaderAccount)' /\ counter' \in 0..MaxPermits
    BY <1>9, Released DEF Yield, Goto, Holding, Holds
  <2>2. p \notin Reader
    BY <1>9, PermitsAssumption DEF Yield
  <2>3. TypeOK'
    BY <1>9, <2>1, <2>2, CallsAssumption DEF Yield, Goto, TypeOK, Place
  <2> QED
    BY <2>1, <2>3
<1>10. ASSUME NEW p \in Process,
              ReleaseNotify(p, "notify", "idle") \/ ReleaseNotify(p, "ynotify", "ylisten")
       PROVE  LockInv'
  <2>1. (WriterAccount /\ ReaderAccount)'
    <3>1. CASE ReleaseNotify(p, "notify", "idle")
      BY <3>1, AccountKept DEF ReleaseNotify, Goto, Holding
    <3>2. CASE ReleaseNotify(p, "ynotify", "ylisten")
      BY <3>2, AccountKept DEF ReleaseNotify, Goto, Holding
    <3> QED
      BY <1>10, <3>1, <3>2
  <2>2. notified' \subseteq listening
    <3>1. Notify(p) /\ notified \subseteq listening
      BY <1>10 DEF ReleaseNotify, TypeOK
    <3>2. CASE p \in Writer
      BY <3>1, <3>2 DEF Notify
    <3>3. CASE p \notin Writer
      BY <3>1, <3>3, NotifiedListen DEF Notify
    <3> QED
      BY <3>2, <3>3
  <2>3. TypeOK'
    <3>1. CASE ReleaseNotify(p, "notify", "idle")
      BY <2>2, <3>1 DEF ReleaseNotify, Goto, TypeOK, Place
    <3>2. CASE ReleaseNotify(p, "ynotify", "ylisten")
      BY <2>2, <3>2 DEF ReleaseNotify, Goto, TypeOK, Place
    <3> QED
      BY <1>10, <3>1, <3>2
  <2> QED
    BY <2>1, <2>3
<1>11. ASSUME NEW p \in Process, YieldListen(p) PROVE LockInv'
  <2>1. (WriterAccount /\ ReaderAccount)'
    BY <1>11, AccountKept DEF YieldListen, Goto, Holding
  <2>2. TypeOK'
    BY <1>11 DEF YieldListen, Goto, TypeOK, Place
  <2> QED
    BY <2>1, <2>2
<1>12. ASSUME NEW p \in Process, YieldWake(p) PROVE LockInv'
  <2>1. (WriterAccount /\ ReaderAccount)'
    BY <1>12, AccountKept DEF YieldWake, Goto, Holding
  <2>2. TypeOK'
    BY <1>12 DEF YieldWake, Goto, TypeOK, Place
  <2> QED
    BY <2>1, <2>2
<1>13. CASE UNCHANGED vars
  <2>1. \A q \in Process : Holds(q)' <=> Holds(q)
    BY <1>13 DEF vars, Holds
  <2>2. HoldingReaders' = HoldingReaders
    BY <2>1 DEF HoldingReaders, Process
  <2>3. (WriterAccount /\ ReaderAccount)'
    BY <1>13, <2>1, <2>2 DEF vars, WriterAccount, ReaderAccount, Process
  <2> QED
    BY <1>13, <2>3 DEF vars, TypeOK
<1> QED
  BY <1>1, <1>2, <1>3, <1>4, <1>5, <1>6, <1>7, <1>8, <1>9, <1>10, <1>11, <1>12, <1>13
  DEF Next, Step, Done

\* The types hold, and a writer that holds the session lock is alone.
THEOREM LockExcludes ==
  Spec => [](TypeOK /\ Exclusive)
<1>1. LockInv => TypeOK /\ Exclusive
  BY DEF LockInv, WriterAccount, Exclusive
<1> QED
  BY <1>1, LockInvInit, LockInvStep, PTL DEF Spec

-----------------------------------------------------------------------------
(* No lost wakeup *)

Sleeps(p) == pc[p] = "wait" /\ p \notin notified

\* Someone who will notify a sleeper, or has.
Hope ==
    \/ notified # {}
    \/ \E q \in Process : Holds(q) \/ pc[q] \in {"try", "notify", "ynotify"}

\* A writer that will notify everyone.
WriterBusy == \E w \in Writer : Holds(w) \/ pc[w] \in {"notify", "ynotify"}

\* A permit is missing only while somebody holds the lock.
LEMMA MissingPermit ==
  ASSUME LockInv, counter < MaxPermits
  PROVE  \E q \in Process : Holds(q)
<1> SUFFICES ASSUME \A q \in Process : ~Holds(q) PROVE FALSE
  OBVIOUS
<1>1. HoldingReaders = {} /\ \A w \in Writer : ~Holds(w)
  BY DEF HoldingReaders, Process
<1>2. counter = MaxPermits - Cardinality(HoldingReaders)
  BY <1>1 DEF LockInv, ReaderAccount
<1> QED
  BY <1>1, <1>2, ReadersInside

\* An attempt that fails met a holder of the lock, and a reader's attempt met
\* a writer.
LEMMA FailureMeetsHolder ==
  ASSUME LockInv, NEW p \in Process, ~Holds(p), TryAcquireFails(p)
  PROVE  /\ \E q \in Process \ {p} : Holds(q)
         /\ p \in Reader => \E w \in Writer : Holds(w)
<1>1. counter \in Nat /\ counter < Permits(p)
  BY DEF LockInv, TypeOK, TryAcquireFails
<1>2. counter < MaxPermits
  BY <1>1, ReadersInside DEF Permits
<1>3. \E q \in Process : Holds(q)
  BY <1>2, MissingPermit
<1>4. p \in Reader => counter = 0
  BY <1>1, PermitsAssumption DEF Permits
<1> QED
  BY <1>3, <1>4, EmptyCounter

\* Event::notify never takes a notification back, and notifies somebody when
\* there is a listener.
LEMMA NotifyFacts ==
  ASSUME NEW L, NEW M, NotifyOne(L, M)
  PROVE  /\ M \subseteq notified'
         /\ L # {} => notified' # {}
  BY DEF NotifyOne

LEMMA WakeInvInit ==
  Init => WakeInv
  BY LockInvInit DEF Init, WakeInv, NoLostWakeup, ReaderSleepsForWriter, Process

\* A step of p after which p gives hope itself.
LEMMA HopeByMover ==
  ASSUME LockInv, NEW p \in Process, NEW x \in Holding \cup {"try", "notify", "ynotify"},
         pc' = [pc EXCEPT ![p] = x]
  PROVE  NoLostWakeup'
  BY DEF LockInv, TypeOK, NoLostWakeup, Holds, Holding

\* A step of a process that gave no hope and does not fall asleep by it.
LEMMA HopeKept ==
  ASSUME LockInv, NoLostWakeup, NEW p \in Process, NEW x, x # "wait",
         pc' = [pc EXCEPT ![p] = x], notified' = notified,
         ~Holds(p), pc[p] \notin {"try", "notify", "ynotify"}
  PROVE  NoLostWakeup'
<1> SUFFICES ASSUME NEW s \in Process, Sleeps(s)' PROVE Hope'
  BY DEF NoLostWakeup, Sleeps, Hope
<1>1. s # p /\ Sleeps(s)
  BY DEF Sleeps, LockInv, TypeOK
<1>2. Hope
  BY <1>1 DEF NoLostWakeup, Sleeps, Hope
<1>3. CASE notified # {}
  BY <1>3 DEF Hope
<1>4. ASSUME NEW q \in Process, Holds(q) \/ pc[q] \in {"try", "notify", "ynotify"}
      PROVE  Hope'
  <2>1. q # p
    BY <1>4
  <2>2. pc'[q] = pc[q]
    BY <2>1 DEF LockInv, TypeOK
  <2> QED
    BY <1>4, <2>2 DEF Hope, Holds
<1> QED
  BY <1>2, <1>3, <1>4 DEF Hope

\* A failed attempt leaves the holder it met.
LEMMA HopeOnFailure ==
  ASSUME LockInv, NEW p \in Process, NEW x, ~Holds(p), TryAcquireFails(p),
         pc' = [pc EXCEPT ![p] = x]
  PROVE  NoLostWakeup'
<1>1. PICK q \in Process \ {p} : Holds(q)
  BY FailureMeetsHolder
<1>2. Holds(q)'
  BY <1>1 DEF Holds, LockInv, TypeOK
<1> QED
  BY <1>2 DEF NoLostWakeup

\* A sleeping reader keeps its writer: no step but the writer's own notify,
\* which reaches every sleeper, takes it away.
LEMMA WriterKept ==
  ASSUME LockInv, ReaderSleepsForWriter, NEW p \in Process, NEW x, x # "wait",
         pc' = [pc EXCEPT ![p] = x], notified \ {p} \subseteq notified',
         p \in Writer /\ (Holds(p) \/ pc[p] \in {"notify", "ynotify"})
             => x \in Holding \cup {"notify", "ynotify"}
  PROVE  ReaderSleepsForWriter'
<1> SUFFICES ASSUME NEW r \in Reader, Sleeps(r)' PROVE WriterBusy'
  BY DEF ReaderSleepsForWriter, Sleeps, WriterBusy
<1>1. r # p /\ Sleeps(r)
  BY DEF Sleeps, LockInv, TypeOK, Process
<1>2. PICK w \in Writer : Holds(w) \/ pc[w] \in {"notify", "ynotify"}
  BY <1>1 DEF ReaderSleepsForWriter, Sleeps
<1>3. CASE w = p
  BY <1>2, <1>3 DEF WriterBusy, Holds, Holding, LockInv, TypeOK
<1>4. CASE w # p
  BY <1>2, <1>4 DEF WriterBusy, Holds, LockInv, TypeOK, Process
<1> QED
  BY <1>3, <1>4

LEMMA WakeInvStep ==
  WakeInv /\ [Next]_vars => WakeInv'
<1> SUFFICES ASSUME WakeInv, [Next]_vars
             PROVE  (NoLostWakeup /\ ReaderSleepsForWriter)'
  BY LockInvStep DEF WakeInv
<1> USE DEF WakeInv
<1>1. ASSUME NEW p \in Process, Call(p) PROVE (NoLostWakeup /\ ReaderSleepsForWriter)'
  <2>1. NoLostWakeup'
    BY <1>1, HopeByMover DEF Call, Goto
  <2> QED
    BY <1>1, <2>1, WriterKept DEF Call, Goto, Holds
<1>2. ASSUME NEW p \in Process, Try(p) PROVE (NoLostWakeup /\ ReaderSleepsForWriter)'
  <2>1. NoLostWakeup'
    BY <1>2, HopeByMover, HopeOnFailure DEF Try, Goto, Holding, Holds
  <2> QED
    BY <1>2, <2>1, WriterKept DEF Try, Goto, Holds
<1>3. ASSUME NEW p \in Process, Listen(p) PROVE (NoLostWakeup /\ ReaderSleepsForWriter)'
  <2>1. NoLostWakeup'
    BY <1>3, HopeKept DEF Listen, Goto, Holds
  <2> QED
    BY <1>3, <2>1, WriterKept DEF Listen, Goto, Holds
<1>4. ASSUME NEW p \in Process, Retry(p) PROVE (NoLostWakeup /\ ReaderSleepsForWriter)'
  <2>1. NoLostWakeup'
    BY <1>4, HopeByMover, HopeOnFailure DEF Retry, Goto, Holding, Holds
  <2>2. CASE TryAcquire(p) /\ Goto(p, "drop")
    BY <1>4, <2>1, <2>2, WriterKept DEF Retry, Goto, Holds
  <2>3. CASE TryAcquireFails(p) /\ Goto(p, "wait")
    <3>1. pc' = [pc EXCEPT ![p] = "wait"] /\ notified' = notified /\ ~Holds(p)
      BY <1>4, <2>3 DEF Retry, Goto, Holds
    <3>2. CASE p \in Reader
      <4>1. PICK w \in Writer : Holds(w)
        BY <2>3, <3>1, <3>2, FailureMeetsHolder
      <4>2. w \in Process /\ w # p
        BY <3>1, <4>1 DEF Process
      <4>3. Holds(w)'
        BY <3>1, <4>1, <4>2 DEF Holds, LockInv, TypeOK
      <4> QED
        BY <2>1, <4>3 DEF ReaderSleepsForWriter
    <3>3. CASE p \in Writer
      <4> SUFFICES ASSUME NEW r \in Reader, Sleeps(r)' PROVE WriterBusy'
        BY <2>1 DEF ReaderSleepsForWriter, Sleeps, WriterBusy
      <4>1. r # p /\ r \in Process
        BY <3>3, PermitsAssumption DEF Process
      <4>2. Sleeps(r)
        BY <3>1, <4>1 DEF Sleeps, LockInv, TypeOK
      <4>3. PICK w \in Writer : Holds(w) \/ pc[w] \in {"notify", "ynotify"}
        BY <4>2 DEF ReaderSleepsForWriter, Sleeps
      <4>4. w # p /\ w \in Process
        BY <1>4, <4>3 DEF Retry, Holds, Process
      <4> QED
        BY <3>1, <4>3, <4>4 DEF WriterBusy, Holds, LockInv, TypeOK
    <3> QED
      BY <3>2, <3>3 DEF Process
  <2> QED
    BY <1>4, <2>2, <2>3 DEF Retry
<1>5. ASSUME NEW p \in Process, DropListener(p)
      PROVE  (NoLostWakeup /\ ReaderSleepsForWriter)'
  <2>1. NoLostWakeup'
    BY <1>5, HopeByMover DEF DropListener, Goto, Holding
  <2>2. notified \ {p} \subseteq notified'
    BY <1>5, NotifyFacts DEF DropListener
  <2> QED
    BY <1>5, <2>1, <2>2, WriterKept DEF DropListener, Goto, Holding
<1>6. ASSUME NEW p \in Process, Wake(p) PROVE (NoLostWakeup /\ ReaderSleepsForWriter)'
  <2>1. NoLostWakeup'
    BY <1>6, HopeByMover DEF Wake, Goto
  <2> QED
    BY <1>6, <2>1, WriterKept DEF Wake, Goto, Holds
<1>7. ASSUME NEW p \in Process, Cancel(p) PROVE (NoLostWakeup /\ ReaderSleepsForWriter)'
  <2>1. NoLostWakeup'
    <3>1. CASE p \in notified
      <4> SUFFICES ASSUME NEW s \in Process, Sleeps(s)' PROVE Hope'
        BY DEF NoLostWakeup, Sleeps, Hope
      <4>1. s # p /\ s \in listening \ {p}
        BY <1>7 DEF Cancel, Goto, Sleeps, LockInv, TypeOK
      <4>2. NotifyOne(listening \ {p}, notified \ {p})
        BY <1>7, <3>1 DEF Cancel
      <4> QED
        BY <4>1, <4>2, NotifyFacts DEF Hope
    <3>2. CASE p \notin notified
      BY <1>7, <3>2, HopeKept DEF Cancel, Goto, Holds
    <3> QED
      BY <3>1, <3>2
  <2>2. notified \ {p} \subseteq notified'
    BY <1>7, NotifyFacts DEF Cancel
  <2> QED
    BY <1>7, <2>1, <2>2, WriterKept DEF Cancel, Goto, Holds
<1>8. ASSUME NEW p \in Process, Release(p) PROVE (NoLostWakeup /\ ReaderSleepsForWriter)'
  <2>1. NoLostWakeup'
    BY <1>8, HopeByMover DEF Release, Goto
  <2> QED
    BY <1>8, <2>1, WriterKept DEF Release, Goto
<1>9. ASSUME NEW p \in Process, NEW from, NEW to, to # "wait", ReleaseNotify(p, from, to)
      PROVE  (NoLostWakeup /\ ReaderSleepsForWriter)'
  <2>1. pc' = [pc EXCEPT ![p] = to]
    BY <1>9 DEF ReleaseNotify, Goto
  <2>2. ASSUME NEW s \in Process, Sleeps(s)' PROVE s # p /\ s \in listening
    BY <1>9, <2>1, <2>2 DEF Sleeps, LockInv, TypeOK
  <2>3. CASE p \in Writer
    <3>1. notified' = listening
      BY <1>9, <2>3 DEF ReleaseNotify, Notify
    <3>2. \A s \in Process : ~Sleeps(s)'
      BY <2>2, <3>1 DEF Sleeps
    <3> QED
      BY <3>2 DEF NoLostWakeup, ReaderSleepsForWriter, Sleeps, Process
  <2>4. CASE p \notin Writer
    <3>1. NotifyOne(listening, notified)
      BY <1>9, <2>4 DEF ReleaseNotify, Notify
    <3>2. notified \subseteq notified' /\ (listening # {} => notified' # {})
      BY <3>1, NotifyFacts
    <3>3. NoLostWakeup'
      BY <2>2, <3>2 DEF NoLostWakeup, Sleeps
    <3> QED
      BY <1>9, <2>1, <2>4, <3>2, <3>3, WriterKept
  <2> QED
    BY <2>3, <2>4
<1>10. ASSUME NEW p \in Process, Yield(p) PROVE (NoLostWakeup /\ ReaderSleepsForWriter)'
  <2>1. NoLostWakeup'
    BY <1>10, HopeByMover DEF Yield, Goto
  <2> QED
    BY <1>10, <2>1, WriterKept DEF Yield, Goto
<1>11. ASSUME NEW p \in Process, YieldListen(p) PROVE (NoLostWakeup /\ ReaderSleepsForWriter)'
  <2>1. NoLostWakeup'
    BY <1>11, HopeKept DEF YieldListen, Goto, Holds
  <2> QED
    BY <1>11, <2>1, WriterKept DEF YieldListen, Goto, Holds
<1>12. ASSUME NEW p \in Process, YieldWake(p) PROVE (NoLostWakeup /\ ReaderSleepsForWriter)'
  <2>1. NoLostWakeup'
    BY <1>12, HopeByMover DEF YieldWake, Goto
  <2> QED
    BY <1>12, <2>1, WriterKept DEF YieldWake, Goto, Holds
<1>13. CASE UNCHANGED vars
  BY <1>13 DEF vars, NoLostWakeup, ReaderSleepsForWriter, Holds
<1> QED
  BY <1>1, <1>2, <1>3, <1>4, <1>5, <1>6, <1>7, <1>8, <1>9, <1>10, <1>11, <1>12, <1>13
  DEF Next, Step, Done

\* No wakeup of the semaphore is lost, whatever the interleaving of acquire,
\* release, yield and cancellation, and a reader sleeps only on account of a
\* writer, for any number of readers and writers.
THEOREM NoWakeupLost ==
  Spec => [](NoLostWakeup /\ ReaderSleepsForWriter)
<1>1. Init => WakeInv
  BY WakeInvInit
<1>2. WakeInv /\ [Next]_vars => WakeInv'
  BY WakeInvStep
<1>3. WakeInv => NoLostWakeup /\ ReaderSleepsForWriter
  BY DEF WakeInv
<1> QED
  BY <1>1, <1>2, <1>3, PTL DEF Spec

-----------------------------------------------------------------------------
(* Readers first *)

\* An attempt of a reader fails only while a writer holds the lock, so a
\* thread that holds a read lock may take it again.
THEOREM ReadersAlwaysEnter ==
  Spec => ReadersFirst
<1> DEFINE Fails(r) == \/ pc[r] = "try" /\ pc'[r] = "listen"
                       \/ pc[r] = "retry" /\ pc'[r] = "wait"
<1>1. ASSUME LockInv, Next, NEW r \in Reader, Fails(r)
      PROVE  \E w \in Writer : Holds(w)
  <2>1. r \in Process /\ ~Holds(r)
    BY <1>1 DEF Process, Holds
  <2>2. PICK p \in Process : Call(p) \/ Step(p) \/ Yield(p) \/ Cancel(p)
    BY <1>1 DEF Next, Done, vars
  <2>3. \E x : pc' = [pc EXCEPT ![p] = x]
    BY <2>2, Zenon DEF Call, Step, Yield, Cancel, Goto, Try, Listen, Retry, DropListener,
                       Wake, Release, ReleaseNotify, YieldListen, YieldWake
  <2>4. p = r
    BY <1>1, <2>1, <2>3 DEF LockInv, TypeOK
  <2>5. Try(r) \/ Retry(r)
    BY <1>1, <2>2, <2>4 DEF Call, Step, Yield, Cancel, Listen, DropListener, Wake,
                Release, ReleaseNotify, YieldListen, YieldWake
  <2>6. TryAcquireFails(r)
    BY <1>1, <2>1, <2>5 DEF Try, Retry, Goto, LockInv, TypeOK
  <2> QED
    BY <1>1, <2>1, <2>6, FailureMeetsHolder
<1>2. LockInv /\ [Next]_vars =>
        [\A r \in Reader :
           (pc[r] = "try" /\ pc'[r] = "listen") \/ (pc[r] = "retry" /\ pc'[r] = "wait")
              => \E w \in Writer : Holds(w)]_vars
  BY <1>1
<1>3. Init => LockInv
  BY LockInvInit
<1>4. LockInv /\ [Next]_vars => LockInv'
  BY LockInvStep
<1> QED
  BY <1>2, <1>3, <1>4, PTL DEF Spec, ReadersFirst
=============================================================================
