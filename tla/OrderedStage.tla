---------------------------- MODULE OrderedStage ----------------------------
(***************************************************************************)
(* What one station of the block pipeline (header processor, body          *)
(* processor) promises the stations around it, with no trace of how the    *)
(* dependency manager, the worker thread and the thread pool achieve it:   *)
(*                                                                         *)
(*   - a task starts only when every task that was sent before it for the  *)
(*     same block or for one of its direct parents has been handed over;   *)
(*   - a started task is handed over once;                                 *)
(*   - the exit message is passed on once, after everything sent before it *)
(*     has been handed over.                                               *)
(*                                                                         *)
(* `DepsManager` is the detailed specification and implements this one;    *)
(* `BlockPipeline` composes two stations of this kind.                     *)
(***************************************************************************)
EXTENDS Naturals, Sequences

CONSTANTS
    Block,      \* block hashes
    Parents,    \* [Block -> SUBSET Block], Header::direct_parents
    Task,       \* identities of processing requests
    HashOf,     \* [Task -> Block], the block a request is about
    Exit        \* the exit message

VARIABLES
    chan,       \* every message sent to the station, in order of sending
    running,    \* tasks being processed by a pool thread
    done,       \* tasks handed over (results sent or forwarded)
    exited      \* whether the exit message was passed on

stageVars == <<chan, running, done, exited>>

-----------------------------------------------------------------------------

\* Message m was sent before message n.
SentBefore(m, n) ==
    \E i, j \in 1..Len(chan) : i < j /\ chan[i] = m /\ chan[j] = n

\* Task u has to be over before task t may start.
Precedes(u, t) ==
    /\ SentBefore(u, t)
    /\ HashOf[u] \in Parents[HashOf[t]] \cup {HashOf[t]}

StageInit ==
    /\ chan = <<>>
    /\ running = {}
    /\ done = {}
    /\ exited = FALSE

\* A message enters the channel.
Send(m) ==
    /\ \A i \in 1..Len(chan) : chan[i] # m
    /\ chan' = Append(chan, m)
    /\ UNCHANGED <<running, done, exited>>

\* A pool thread starts processing task t.
Start(t) ==
    /\ \E i \in 1..Len(chan) : chan[i] = t
    /\ ~ SentBefore(Exit, t)
    /\ t \notin running \cup done
    /\ \A u \in Task : Precedes(u, t) => u \in done
    /\ running' = running \cup {t}
    /\ UNCHANGED <<chan, done, exited>>

\* The processing of task t is over and its results are handed over.
HandOver(t) ==
    /\ t \in running
    /\ running' = running \ {t}
    /\ done' = done \cup {t}
    /\ UNCHANGED <<chan, exited>>

\* The exit message is passed on to the next station.
PassExit ==
    /\ ~ exited
    /\ \E i \in 1..Len(chan) : chan[i] = Exit
    /\ \A t \in Task : SentBefore(t, Exit) => t \in done
    /\ exited' = TRUE
    /\ UNCHANGED <<chan, running, done>>

StageNext ==
    \/ \E m \in Task \cup {Exit} : Send(m)
    \/ \E t \in Task : Start(t) \/ HandOver(t)
    \/ PassExit

StageSpec == StageInit /\ [][StageNext]_stageVars

=============================================================================
