----------------------------- MODULE SessionLock -----------------------------
(***************************************************************************)
(* SessionLock, the readers-first lock that every consensus session and    *)
(* every processor reads and that the pruning processor writes: RfRwLock   *)
(* (utils/src/sync/rwlock.rs) over the non-fair semaphore of               *)
(* utils/src/sync/semaphore.rs, whose waiters sleep on an Event of the     *)
(* event-listener crate.                                                   *)
(*                                                                         *)
(* The semaphore keeps a counter and an event apart: a release first gives *)
(* its permits back and then notifies, an acquire that fails registers a   *)
(* listener, tries once more and only then sleeps.  Everything that can    *)
(* happen between those steps is a behaviour of this module.               *)
(***************************************************************************)
EXTENDS Naturals, FiniteSets

CONSTANTS
    Reader,     \* threads and async tasks that call read
    Writer,     \* threads that call blocking_write and blocking_yield
    MaxPermits, \* Semaphore::MAX_PERMITS
    MaxCalls    \* bound: calls of read or write by one process

\* usize::MAX permits are more than there can be readers.
ASSUME PermitsAssumption ==
    /\ IsFiniteSet(Reader)
    /\ Reader \cap Writer = {}
    /\ MaxPermits \in Nat
    /\ Cardinality(Reader) < MaxPermits
ASSUME CallsAssumption == MaxCalls \in Nat

Process == Reader \cup Writer

VARIABLES
    counter,    \* Semaphore::counter, the permits that are left
    pc,         \* [Process -> where it is in acquire, release or yield]
    listening,  \* processes with an entry in the list of the event
    notified,   \* those of them whose entry is in the state Notified
    calls       \* [Process -> Nat], calls made so far (a bound only)

vars == <<counter, pc, listening, notified, calls>>

\* "try"     about to call try_acquire without a listener
\* "listen"  try_acquire failed; about to call signal.listen()
\* "retry"   registered; about to call try_acquire once more
\* "wait"    asleep on the listener
\* "drop"    acquired with a listener that is still to be dropped
\* "in"      holds the lock
\* "notify"  permits are given back; about to call signal.notify
\* "ynotify", "ylisten", "ywait"    the same, inside blocking_yield
Place == {"idle", "try", "listen", "retry", "wait", "drop", "in", "notify",
          "ynotify", "ylisten", "ywait"}

Permits(p) == IF p \in Writer THEN MaxPermits ELSE 1

Goto(p, place) == pc' = [pc EXCEPT ![p] = place]

\* Event::notify(n) makes sure that n entries, or all of them, are notified.
\* A reader releases with n = 1, a writer with more entries than there are.
\* Which entry is chosen is left open.
NotifyOne(listeners, marked) ==
    IF marked # {} \/ listeners = {} THEN notified' = marked
    ELSE \E q \in listeners : notified' = {q}

Notify(p) ==
    IF p \in Writer THEN notified' = listening ELSE NotifyOne(listening, notified)

Init ==
    /\ counter = MaxPermits
    /\ pc = [p \in Process |-> "idle"]
    /\ listening = {}
    /\ notified = {}
    /\ calls = [p \in Process |-> 0]

-----------------------------------------------------------------------------
\* read, read_owned, blocking_read, write: acquire.

Call(p) ==
    /\ pc[p] = "idle"
    /\ calls[p] < MaxCalls
    /\ calls' = [calls EXCEPT ![p] = @ + 1]
    /\ Goto(p, "try")
    /\ UNCHANGED <<counter, listening, notified>>

\* Variant: the counter only has to be positive.
TryAcquireAny(p) ==
    /\ counter > 0
    /\ counter' = IF counter > Permits(p) THEN counter - Permits(p) ELSE 0

\* try_acquire succeeds: the compare-exchange loop took the permits.
TryAcquire(p) ==
    /\ counter >= Permits(p)
    /\ counter' = counter - Permits(p)

\* Variant: a reader counts for a writer that is queued before it.
TryAcquireFailsFair(p) ==
    /\ \/ counter < Permits(p)
       \/ \E w \in Writer : pc[w] = "wait"
    /\ UNCHANGED counter

\* try_acquire fails: the last value read was too small.
TryAcquireFails(p) ==
    /\ counter < Permits(p)
    /\ UNCHANGED counter

Try(p) ==
    /\ pc[p] = "try"
    /\ \/ TryAcquire(p) /\ Goto(p, "in")
       \/ TryAcquireFails(p) /\ Goto(p, "listen")
    /\ UNCHANGED <<listening, notified, calls>>

\* Variant: the process sleeps right after it registered.
ListenThenWait(p) ==
    /\ pc[p] = "listen"
    /\ listening' = listening \cup {p}
    /\ Goto(p, "wait")
    /\ UNCHANGED <<counter, notified, calls>>

Listen(p) ==
    /\ pc[p] = "listen"
    /\ listening' = listening \cup {p}
    /\ Goto(p, "retry")
    /\ UNCHANGED <<counter, notified, calls>>

Retry(p) ==
    /\ pc[p] = "retry"
    /\ \/ TryAcquire(p) /\ Goto(p, "drop")
       \/ TryAcquireFails(p) /\ Goto(p, "wait")
    /\ UNCHANGED <<listening, notified, calls>>

\* acquire returns and drops its listener.  A notification the listener had
\* received goes to another one.
DropListener(p) ==
    /\ pc[p] = "drop"
    /\ listening' = listening \ {p}
    /\ IF p \in notified THEN NotifyOne(listening \ {p}, notified \ {p})
       ELSE UNCHANGED notified
    /\ Goto(p, "in")
    /\ UNCHANGED <<counter, calls>>

\* The listener was notified: its entry is removed and the loop tries again.
Wake(p) ==
    /\ pc[p] = "wait"
    /\ p \in notified
    /\ listening' = listening \ {p}
    /\ notified' = notified \ {p}
    /\ Goto(p, "try")
    /\ UNCHANGED <<counter, calls>>

\* The future of an async read is dropped while it waits, and its listener
\* with it.
Cancel(p) ==
    /\ p \in Reader
    /\ pc[p] = "wait"
    /\ listening' = listening \ {p}
    /\ IF p \in notified THEN NotifyOne(listening \ {p}, notified \ {p})
       ELSE UNCHANGED notified
    /\ Goto(p, "idle")
    /\ UNCHANGED <<counter, calls>>

-----------------------------------------------------------------------------
\* Dropping a guard: release.  blocking_yield releases as well.

\* The first half of release: the permits are back, nobody knows yet.
Release(p) ==
    /\ pc[p] = "in"
    /\ counter' = counter + Permits(p)
    /\ Goto(p, "notify")
    /\ UNCHANGED <<listening, notified, calls>>

\* The second half: the waiters are notified.
ReleaseNotify(p, from, to) ==
    /\ pc[p] = from
    /\ Notify(p)
    /\ Goto(p, to)
    /\ UNCHANGED <<counter, listening, calls>>

\* blocking_yield begins with a release ...
Yield(p) ==
    /\ p \in Writer
    /\ pc[p] = "in"
    /\ calls[p] < MaxCalls
    /\ calls' = [calls EXCEPT ![p] = @ + 1]
    /\ counter' = counter + Permits(p)
    /\ Goto(p, "ynotify")
    /\ UNCHANGED <<listening, notified>>

\* ... listens once ...
YieldListen(p) ==
    /\ pc[p] = "ylisten"
    /\ listening' = listening \cup {p}
    /\ Goto(p, "ywait")
    /\ UNCHANGED <<counter, notified, calls>>

\* Variant: a yield that timed out leaves its entry in the list.
YieldWakeKeepEntry(p) ==
    /\ pc[p] = "ywait"
    /\ listening' = IF p \in notified THEN listening \ {p} ELSE listening
    /\ notified' = notified \ {p}
    /\ Goto(p, "try")
    /\ UNCHANGED <<counter, calls>>

\* ... until it is notified or 30 microseconds are over, and acquires again.
YieldWake(p) ==
    /\ pc[p] = "ywait"
    /\ listening' = listening \ {p}
    /\ notified' = notified \ {p}
    /\ Goto(p, "try")
    /\ UNCHANGED <<counter, calls>>

Step(p) ==
    \/ Try(p) \/ Listen(p) \/ Retry(p) \/ DropListener(p) \/ Wake(p)
    \/ Release(p) \/ ReleaseNotify(p, "notify", "idle")
    \/ ReleaseNotify(p, "ynotify", "ylisten") \/ YieldListen(p) \/ YieldWake(p)

\* Nobody wants the lock any more.
Done ==
    /\ \A p \in Process : pc[p] = "idle" /\ calls[p] = MaxCalls
    /\ UNCHANGED vars

Next == (\E p \in Process : Call(p) \/ Step(p) \/ Yield(p) \/ Cancel(p)) \/ Done

Spec == Init /\ [][Next]_vars

\* Threads and tasks run, guards are dropped.  New calls, yields and
\* cancellations are up to the callers.
FairSpec == Spec /\ \A p \in Process : WF_vars(Step(p))

-----------------------------------------------------------------------------

\* Types of the semaphore's state; the listener list holds exactly the calls
\* that are between listen and the end of their wait.
TypeOK ==
    /\ counter \in 0..MaxPermits
    /\ pc \in [Process -> Place]
    /\ \A r \in Reader : pc[r] \notin {"ynotify", "ylisten", "ywait"}
    /\ listening = {p \in Process : pc[p] \in {"retry", "wait", "drop", "ywait"}}
    /\ notified \subseteq listening
    /\ calls \in [Process -> 0..MaxCalls]

Holds(p) == pc[p] \in {"drop", "in"}

\* A thread that holds the write lock (the pruning processor while it deletes
\* data) is alone: no reader and no other writer holds the lock.
Exclusive ==
    \A w \in Writer : Holds(w) => \A p \in Process \ {w} : ~Holds(p)

\* No wakeup is lost: while a process sleeps without a notification, some
\* process holds the lock, is about to notify, has been notified or is about
\* to try, and so will move the event on.  The steps of acquire and release
\* in semaphore.rs are ordered for this.
NoLostWakeup ==
    \A p \in Process : pc[p] = "wait" /\ p \notin notified =>
        \/ notified # {}
        \/ \E q \in Process : Holds(q) \/ pc[q] \in {"try", "notify", "ynotify"}

\* A reader sleeps only on account of a writer that holds the lock or is
\* about to notify everyone; readers never queue behind each other.
ReaderSleepsForWriter ==
    \A r \in Reader : pc[r] = "wait" /\ r \notin notified =>
        \E w \in Writer : Holds(w) \/ pc[w] \in {"notify", "ynotify"}

\* "additional readers will always be able to acquire the lock as well even
\* if a writer is already in the queue": an attempt of a reader fails only
\* while a writer holds the lock, which makes recursive reads safe.
ReadersFirst ==
    [][\A r \in Reader :
         (pc[r] = "try" /\ pc'[r] = "listen") \/ (pc[r] = "retry" /\ pc'[r] = "wait")
            => \E w \in Writer : Holds(w)]_vars

\* Every call gets the lock (or is cancelled), a writer's as well, once the
\* readers that may overtake it stop coming: their calls are bounded here.
EveryCallReturns ==
    \A p \in Process : pc[p] = "try" ~> pc[p] \in {"in", "idle"}
=============================================================================
