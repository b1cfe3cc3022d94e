----------------------------- MODULE DepsManager -----------------------------
(***************************************************************************)
(* A station of the block pipeline in full: the worker thread that receives*)
(* messages, BlockTaskDependencyManager (deps_manager.rs) and the rayon    *)
(* thread pool that runs `queue_block` closures.  The header processor and *)
(* the body processor are both built this way; what they do between        *)
(* `try_begin` and `end`, and in the callback of `end`, is the subject of  *)
(* `BlockPipeline`.                                                        *)
(*                                                                         *)
(* All operations of the manager run under its mutex, so each is one step. *)
(* Spawning a closure right after the mutex is released is part of the     *)
(* same step: a closure that is not spawned yet and one the pool has not   *)
(* run yet cannot be told apart.                                           *)
(***************************************************************************)
EXTENDS Naturals, Sequences, FiniteSets

CONSTANTS
    Block,      \* block hashes
    Parents,    \* [Block -> SUBSET Block], Header::direct_parents
    Task,       \* identities of processing requests
    HashOf,     \* [Task -> Block], task.block().hash()
    Exit        \* BlockProcessingMessage::Exit

ASSUME ParentsAssumption == Parents \in [Block -> SUBSET Block]
ASSUME HashOfAssumption == HashOf \in [Task -> Block]
ASSUME ExitAssumption == Exit \notin Task

VARIABLES
    chan,       \* every message ever sent to the channel of the station
    pos,        \* how many of them the worker has received
    worker,     \* "recv", "waiting" on the condvar, "idle" or "exited"
    tasks,      \* [Block -> Seq(Task)], the queue of the task group of a
                \* hash; a hash without a group has the empty queue
    taken,      \* hashes whose front task was moved out by try_begin
    dependents, \* [Block -> [Block -> Nat]], the bag dependent_tasks of each
                \* group (a bag: the pool runs closures in any order)
    spawned,    \* [Block -> Nat], queue_block closures waiting in the pool
    running,    \* tasks between try_begin and end
    done        \* tasks whose end callback has run

managerVars == <<tasks, taken, dependents, spawned, running, done>>
vars == <<chan, pos, worker, managerVars>>

-----------------------------------------------------------------------------

\* The keys of the `pending` map.
Pending == {h \in Block : tasks[h] # <<>>}

NoDependents == [h \in Block |-> 0]

\* Variant: a closure is spawned for every task of a hash.
RegisterAlwaysSpawns(t) ==
    /\ tasks' = [tasks EXCEPT ![HashOf[t]] = Append(@, t)]
    /\ spawned' = [spawned EXCEPT ![HashOf[t]] = @ + 1]
    /\ UNCHANGED <<taken, dependents, running, done>>

\* register, followed by the worker's spawn when it returns Some(hash).
Register(t) ==
    LET h == HashOf[t] IN
    /\ tasks' = [tasks EXCEPT ![h] = Append(@, t)]
    /\ spawned' = IF h \in Pending THEN spawned ELSE [spawned EXCEPT ![h] = @ + 1]
    /\ UNCHANGED <<taken, dependents, running, done>>

\* try_begin finds a pending direct parent p and queues h behind it.  Which
\* pending parent comes first in the header is up to the block.
DeferTo(h, p) ==
    /\ p \in Parents[h] \cap Pending
    /\ dependents' = [dependents EXCEPT ![p][h] = @ + 1]
    /\ UNCHANGED <<tasks, taken, running, done>>

\* Variant: the front task is taken whatever its parents do.
TakeIgnoringParents(h) ==
    /\ taken' = taken \cup {h}
    /\ running' = running \cup {Head(tasks[h])}
    /\ UNCHANGED <<tasks, dependents, done>>

\* try_begin finds no pending direct parent and moves the front task out.
Take(h) ==
    /\ Parents[h] \cap Pending = {}
    /\ taken' = taken \cup {h}
    /\ running' = running \cup {Head(tasks[h])}
    /\ UNCHANGED <<tasks, dependents, done>>

\* queue_block: the pool runs a closure, which calls try_begin.
TryBegin(h) ==
    /\ spawned[h] > 0
    /\ spawned' = [spawned EXCEPT ![h] = @ - 1]
    /\ Take(h) \/ \E p \in Block : DeferTo(h, p)

\* Variant: dependents are released with every task of the group and stay
\* registered until the group is gone.
PopFrontReleasingTwice(t) ==
    LET h == HashOf[t] IN
    /\ tasks' = [tasks EXCEPT ![h] = Tail(@)]
    /\ taken' = taken \ {h}
    /\ spawned' = [d \in Block |->
                     spawned[d] + dependents[h][d]
                       + (IF d = h /\ Len(tasks[h]) > 1 THEN 1 ELSE 0)]
    /\ dependents' = IF Len(tasks[h]) > 1 THEN dependents
                     ELSE [dependents EXCEPT ![h] = NoDependents]

\* Variant: the dependents of a removed group are forgotten.
PopFrontForgetting(t) ==
    LET h == HashOf[t] IN
    /\ tasks' = [tasks EXCEPT ![h] = Tail(@)]
    /\ taken' = taken \ {h}
    /\ spawned' = IF Len(tasks[h]) > 1 THEN [spawned EXCEPT ![h] = @ + 1] ELSE spawned
    /\ dependents' = [dependents EXCEPT ![h] = NoDependents]

\* end pops the front of the group of t.  A group that still has tasks is
\* queued again; an empty one is removed and its dependents are queued.
PopFront(t) ==
    LET h    == HashOf[t]
        rest == Tail(tasks[h])
    IN
    /\ tasks' = [tasks EXCEPT ![h] = rest]
    /\ taken' = taken \ {h}
    /\ IF rest = <<>>
       THEN /\ spawned' = [d \in Block |-> spawned[d] + dependents[h][d]]
            /\ dependents' = [dependents EXCEPT ![h] = NoDependents]
       ELSE /\ spawned' = [spawned EXCEPT ![h] = @ + 1]
            /\ UNCHANGED dependents

-----------------------------------------------------------------------------

Init ==
    /\ chan = <<>>
    /\ pos = 0
    /\ worker = "recv"
    /\ tasks = [h \in Block |-> <<>>]
    /\ taken = {}
    /\ dependents = [h \in Block |-> NoDependents]
    /\ spawned = [h \in Block |-> 0]
    /\ running = {}
    /\ done = {}

\* A caller sends a request, or the node sends the exit message.
Submit(m) ==
    /\ \A i \in 1..Len(chan) : chan[i] # m
    /\ chan' = Append(chan, m)
    /\ UNCHANGED <<pos, worker, managerVars>>

\* The worker receives a processing message.
ReceiveTask ==
    /\ worker = "recv"
    /\ pos < Len(chan)
    /\ chan[pos + 1] # Exit
    /\ pos' = pos + 1
    /\ Register(chan[pos + 1])
    /\ UNCHANGED <<chan, worker>>

\* Variant: the cursor of the channel skips a message.
ReceiveExitSkipping ==
    /\ worker = "recv"
    /\ pos < Len(chan)
    /\ chan[pos + 1] = Exit
    /\ pos' = pos + 2
    /\ worker' = IF Pending = {} THEN "idle" ELSE "waiting"
    /\ UNCHANGED <<chan, managerVars>>

\* Variant: the worker does not wait for the pool.
ReceiveExitNotWaiting ==
    /\ worker = "recv"
    /\ pos < Len(chan)
    /\ chan[pos + 1] = Exit
    /\ pos' = pos + 1
    /\ worker' = "idle"
    /\ UNCHANGED <<chan, managerVars>>

\* The worker receives the exit message, leaves its loop and calls
\* wait_for_idle, which waits on the condvar once if tasks are pending.
ReceiveExit ==
    /\ worker = "recv"
    /\ pos < Len(chan)
    /\ chan[pos + 1] = Exit
    /\ pos' = pos + 1
    /\ worker' = IF Pending = {} THEN "idle" ELSE "waiting"
    /\ UNCHANGED <<chan, managerVars>>

\* A pool thread runs a closure of the block h.
Begin(h) ==
    /\ TryBegin(h)
    /\ UNCHANGED <<chan, pos, worker>>

\* Variant: the condvar is never notified.
EndNotNotifying(t) ==
    /\ t \in running
    /\ running' = running \ {t}
    /\ done' = done \cup {t}
    /\ PopFront(t)
    /\ UNCHANGED <<chan, pos, worker>>

\* The processing of t is over: end, its callback, and the respawns.  The
\* condvar is notified when the last group is gone, which wakes the worker
\* only if it is already waiting.
End(t) ==
    /\ t \in running
    /\ running' = running \ {t}
    /\ done' = done \cup {t}
    /\ PopFront(t)
    /\ worker' = IF worker = "waiting" /\ \A h \in Block : tasks'[h] = <<>>
                 THEN "idle" ELSE worker
    /\ UNCHANGED <<chan, pos>>

\* wait_for_idle has returned: the worker passes the exit message on.
ForwardExit ==
    /\ worker = "idle"
    /\ worker' = "exited"
    /\ UNCHANGED <<chan, pos, managerVars>>

\* The worker thread has ended and nothing more is sent.
Terminated ==
    /\ worker = "exited"
    /\ UNCHANGED vars

Next ==
    \/ \E m \in Task \cup {Exit} : Submit(m)
    \/ ReceiveTask
    \/ ReceiveExit
    \/ \E h \in Block : Begin(h)
    \/ \E t \in Task : End(t)
    \/ ForwardExit
    \/ Terminated

Spec == Init /\ [][Next]_vars

\* The worker thread runs, the pool runs every closure it was given, and
\* processing a block takes finite time.
Fairness ==
    /\ WF_vars(ReceiveTask)
    /\ WF_vars(ReceiveExit)
    /\ \A h \in Block : WF_vars(Begin(h))
    /\ \A t \in Task : WF_vars(End(t))
    /\ WF_vars(ForwardExit)

FairSpec == Spec /\ Fairness

-----------------------------------------------------------------------------
(* Properties *)

\* What a station of the pipeline promises (see OrderedStage).
Stage == INSTANCE OrderedStage WITH exited <- (worker = "exited")

\* Types of the station's state.
TypeOK ==
    /\ chan \in Seq(Task \cup {Exit})
    /\ pos \in 0..Len(chan)
    /\ worker \in {"recv", "waiting", "idle", "exited"}
    /\ tasks \in [Block -> Seq(Task)]
    /\ taken \subseteq Block
    /\ dependents \in [Block -> [Block -> Nat]]
    /\ spawned \in [Block -> Nat]
    /\ running \subseteq Task
    /\ done \subseteq Task

\* Only one thread at a time owns a block: two tasks of one hash are never
\* processed together, however many requests for it arrive (the append-only
\* stores are written without a lock because of this).
SingleOwner ==
    \A t, u \in running : HashOf[t] = HashOf[u] => t = u

\* A task that runs or has ended was preceded by every task sent earlier for
\* the same block or for a direct parent, duplicates included: try_begin and
\* end never let a child overtake a parent that was submitted first.
HandoverOrder ==
    \A t \in running \cup done, u \in Task : Stage!Precedes(u, t) => u \in done

\* The place of h in the manager: exactly one closure in the pool, or one
\* thread processing its front task, or one entry among the dependents of
\* one pending direct parent.
InPool(h) ==
    spawned[h] = 1 /\ h \notin taken /\ \A p \in Block : dependents[p][h] = 0
BeingProcessed(h) ==
    spawned[h] = 0 /\ h \in taken /\ \A p \in Block : dependents[p][h] = 0
BehindParent(h) ==
    /\ spawned[h] = 0 /\ h \notin taken
    /\ \E p \in Parents[h] \cap Pending :
          /\ dependents[p][h] = 1
          /\ \A q \in Block \ {p} : dependents[q][h] = 0
Absent(h) ==
    spawned[h] = 0 /\ h \notin taken /\ \A p \in Block : dependents[p][h] = 0

\* No wake-up is lost and none is doubled: a pending hash has exactly one
\* place from which it will be resumed, a hash that is not pending has none
\* and nobody waits behind it.
NoTaskLost ==
    \A h \in Block :
        IF h \in Pending
        THEN InPool(h) \/ BeingProcessed(h) \/ BehindParent(h)
        ELSE Absent(h) /\ \A d \in Block : dependents[h][d] = 0

\* The expectations of try_begin and end hold: a closure finds a group whose
\* front task is still there, and end pops the very task that was begun, so
\* that the result goes to the caller that submitted it.
ExpectationsHold ==
    /\ \A h \in Block : spawned[h] > 0 => h \in Pending /\ h \notin taken
    /\ \A t \in running : LET h == HashOf[t] IN
          h \in Pending /\ h \in taken /\ Head(tasks[h]) = t

\* When wait_for_idle has returned the station is empty: no group, no closure
\* and no running task, and every task sent before the exit message is over.
IdleMeansDone ==
    worker \in {"idle", "exited"} =>
        /\ Pending = {}
        /\ running = {}
        /\ \A h \in Block : spawned[h] = 0
        /\ \A t \in Task : Stage!SentBefore(t, Exit) => t \in done

\* The station implements what it promises to its neighbours.
ImplementsStage == Stage!StageSpec

\* Every task sent before the exit message is eventually handed over.
EveryTaskEnds ==
    \A t \in Task :
        (\E i \in 1..Len(chan) : chan[i] = t /\ \A j \in 1..i : chan[j] # Exit)
            ~> t \in done

\* The exit message is eventually passed on: the single wait on the condvar
\* in wait_for_idle never misses its notification.
ExitIsPassedOn ==
    (\E i \in 1..Len(chan) : chan[i] = Exit) ~> worker = "exited"
=============================================================================
