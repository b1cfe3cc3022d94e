-------------------------- MODULE PruningProcessor --------------------------
(***************************************************************************)
(* Pruning: the rule that derives the pruning point a header must commit   *)
(* to (processes/pruning.rs) and the thread that moves the node's own      *)
(* pruning point, advances the UTXO set kept for it and deletes old data   *)
(* (pruning_processor/processor.rs), with crashes and interrupted runs.    *)
(*                                                                         *)
(* Blocks form a tree of selected parents.  Blocks that are only merged    *)
(* show in the blue score, which may grow by more than one along the tree. *)
(* Deletions happen under the write half of the pruning lock and header    *)
(* and body processing under its read half (SessionLock), so each of these *)
(* is one step here.  The virtual processor is reduced to the choice of a  *)
(* sink that respects finality (VirtualProcessor).                         *)
(***************************************************************************)
EXTENDS Naturals, FiniteSets, Sequences, SequencesExt

CONSTANTS
    Block,          \* block hashes
    Genesis,        \* the genesis block
    Shapes,         \* trees to start from: records with the fields parent and score
    FinalityDepth,  \* finality_depth, in blue score
    PruningDepth,   \* pruning_depth, in blue score
    Window,         \* blue score below the pruning point whose headers are kept
    Archival,       \* values of config.is_archival a run of the node may have
    NoBlock,        \* no block
    MaxInPipeline,  \* bound on the blocks between header and body processing
    MaxRestarts     \* bound on the number of restarts

ASSUME PruningAssumption ==
    /\ Genesis \in Block
    /\ NoBlock \notin Block
    /\ FinalityDepth \in Nat \ {0}
    /\ PruningDepth \in Nat /\ PruningDepth > 2 * FinalityDepth
    /\ Archival \subseteq BOOLEAN
    /\ \A s \in Shapes : \A b \in Block \ {Genesis} : s.score[s.parent[b]] < s.score[b]

VARIABLES
    parent,     \* [Block -> Block], the selected parent of every block
    score,      \* [Block -> Nat], its blue score
    path,       \* [Block -> Seq(Block)], its selected chain from genesis to itself
    \* stores
    data,       \* [Block -> Data], what the stores hold of a block
    sink,       \* sink of the committed virtual state
    pp,         \* PruningPointInfo::pruning_point
    candidate,  \* PruningPointInfo::candidate
    past,       \* past pruning points, the current one (PruningPointInfo::index) last
    position,   \* utxoset_position
    utxoset,    \* blocks whose diffs the pruning point UTXO set contains
    historyRoot,\* history_root
    \* the process
    archival,   \* config.is_archival
    exiting,    \* is_consensus_exiting
    inPipeline, \* blocks between header and body processing
    mailbox,    \* the pending message of the virtual processor
    pc,         \* where the pruning thread is
    msg,        \* the sink of the message it works on
    recovered,  \* whether recovery has been attempted
    todo,       \* chain blocks still to be applied to the UTXO set
    restarts

treeVars == <<parent, score, path>>
pointVars == <<pp, candidate, past>>
utxoVars == <<position, utxoset>>
threadVars == <<pc, msg, recovered, todo>>
vars == <<treeVars, data, sink, pointVars, utxoVars, historyRoot, archival, exiting,
          inPipeline, mailbox, threadVars, restarts>>

\* "unknown"   the node has never seen the block
\* "header"    header, relations and reachability data, no body
\* "full"      the body and, for chain blocks, the UTXO diff as well
\* "point"     only the header is left, as that of a past pruning point
\* "gone"      nothing is left
Data == {"unknown", "header", "full", "point", "gone"}

-----------------------------------------------------------------------------
\* The pruning point of a header.

Chain(b) == ToSet(path[b])

FinalityScore(blueScore) == blueScore \div FinalityDepth

InPruningDepth(blueScore, b) == blueScore >= score[b] + PruningDepth

\* forward_chain_iterator(low, high, true), for low on the chain of high.
ForwardChain(low, high) ==
    SelectSeq(path[high], LAMBDA c : low \in Chain(c))

\* Variant: the latest pruning point is not updated in the loop.
NextPointStale(found, c) ==
    IF FinalityScore(score[c]) > FinalityScore(score[found.latest])
    THEN [points |-> Append(found.points, c), latest |-> found.latest]
    ELSE found

\* One turn of the loop over the chain: a block of a later finality interval
\* than the latest pruning point is the next one.
NextPoint(found, c) ==
    IF FinalityScore(score[c]) > FinalityScore(score[found.latest])
    THEN [points |-> Append(found.points, c), latest |-> c]
    ELSE found

\* next_pruning_points_and_candidate_by_ghostdag_data for a block with the
\* given blue score and selected parent.
NextPruningPoints(blueScore, selectedParent, suggested) ==
    LET low == IF suggested # NoBlock /\ suggested \notin Chain(candidate)
               THEN suggested ELSE candidate
        deep == SelectSeq(ForwardChain(low, selectedParent),
                          LAMBDA c : blueScore - score[c] >= PruningDepth)
        found == FoldLeft(NextPoint, [points |-> <<>>, latest |-> pp], deep)
    IN  IF score[pp] + PruningDepth > blueScore
        THEN [points |-> <<>>, candidate |-> candidate]
        ELSE [points |-> found.points,
              candidate |-> IF deep = <<>> THEN candidate ELSE Last(deep)]

\* The rule as the network understands it: of the blocks that open a finality
\* interval on the selected chain, the last one in pruning depth.
OpensInterval(b) ==
    b = Genesis \/ FinalityScore(score[b]) > FinalityScore(score[parent[b]])

PointOf(b) ==
    LET deep == {c \in Chain(b) : OpensInterval(c) /\ InPruningDepth(score[b], c)}
    IN  IF deep = {} THEN Genesis ELSE CHOOSE c \in deep : \A d \in deep : score[d] <= score[c]

\* Variant: one blue score too late.
MayTriggerLate(b) ==
    LET minRequired == (FinalityScore(score[PointOf(parent[b])]) + 1) * FinalityDepth
    IN  pp \in Chain(parent[b]) /\ minRequired + PruningDepth < score[b]

\* Whether a header may have a later pruning point than its selected parent.
MayTrigger(b) ==
    LET minRequired == (FinalityScore(score[PointOf(parent[b])]) + 1) * FinalityDepth
    IN  pp \in Chain(parent[b]) /\ minRequired + PruningDepth <= score[b]

\* expected_header_pruning_point, what the node computes for a header from
\* its own pruning point.  The selected parent was accepted, so its header
\* commits to PointOf.  A commitment without reachability data is not in the
\* future of the pruning point.
ExpectedHeaderPruningPoint(b) ==
    LET selectedParent == parent[b]
        spPoint == PointOf(selectedParent)
        suggested == IF pp \in Chain(spPoint) THEN spPoint ELSE NoBlock
        next == NextPruningPoints(score[b], selectedParent, suggested).points
        nextOrCurrent == IF ~MayTrigger(b) THEN spPoint
                         ELSE IF next = <<>> THEN pp ELSE Last(next)
        inDepth == {i \in 1..Len(past) : InPruningDepth(score[b], past[i])}
    IN  IF selectedParent = Genesis THEN Genesis
        ELSE IF InPruningDepth(score[b], nextOrCurrent) THEN nextOrCurrent
        ELSE IF inDepth = {} THEN Genesis
        ELSE past[CHOOSE i \in inDepth : \A j \in inDepth : j <= i]

-----------------------------------------------------------------------------

Paths(shape) ==
    LET up[b \in Block] == IF b = Genesis THEN <<b>> ELSE Append(up[shape.parent[b]], b) IN up

\* VirtualStateProcessor::init and process_genesis on a fresh database.
Init ==
    /\ \E shape \in Shapes :
         /\ parent = shape.parent
         /\ score = shape.score
         /\ path = Paths(shape)
    /\ data = [b \in Block |-> IF b = Genesis THEN "full" ELSE "unknown"]
    /\ sink = Genesis
    /\ pp = Genesis /\ candidate = Genesis /\ past = <<Genesis>>
    /\ position = Genesis /\ utxoset = {Genesis}
    /\ historyRoot = Genesis
    /\ archival \in Archival
    /\ exiting = FALSE
    /\ inPipeline = {}
    /\ mailbox = NoBlock
    /\ pc = "recv" /\ msg = NoBlock /\ recovered = FALSE /\ todo = <<>>
    /\ restarts = 0

\* Header processing up to check_pruning_violation.  Left out: a fork from
\* below the candidate, that is from more than the pruning depth below the
\* sink, that has grown long enough to move the pruning point itself.
Considered(b) ==
    /\ data[b] = "unknown"
    /\ data[parent[b]] \in {"header", "full"}
    /\ pp \in Chain(parent[b])
    /\ candidate \in Chain(parent[b]) \/ ~MayTrigger(b)

\* check_pruning_point and the commit of the header.
AcceptHeader(b) ==
    /\ Considered(b)
    /\ ExpectedHeaderPruningPoint(b) = PointOf(b)
    /\ data' = [data EXCEPT ![b] = "header"]
    /\ Cardinality(inPipeline) < MaxInPipeline
    /\ inPipeline' = inPipeline \cup {b}
    /\ UNCHANGED <<treeVars, sink, pointVars, utxoVars, historyRoot, archival, exiting,
                   mailbox, threadVars, restarts>>

\* A block whose header is known goes on to body processing at once.
SubmitAgain(b) ==
    /\ data[b] = "header"
    /\ b \notin inPipeline
    /\ Cardinality(inPipeline) < MaxInPipeline
    /\ inPipeline' = inPipeline \cup {b}
    /\ UNCHANGED <<treeVars, data, sink, pointVars, utxoVars, historyRoot, archival, exiting,
                   mailbox, threadVars, restarts>>

\* Body processing: the body is committed if the parent's is there.  A block
\* without a status is stuck: process_body panics (QueuedBodyHasStatus).
AcceptBody(b) ==
    /\ b \in inPipeline
    /\ data[b] = "header"
    /\ inPipeline' = inPipeline \ {b}
    /\ data' = [data EXCEPT ![b] = IF data[parent[b]] = "full" THEN "full" ELSE @]
    /\ UNCHANGED <<treeVars, sink, pointVars, utxoVars, historyRoot, archival, exiting,
                   mailbox, threadVars, restarts>>

\* virtual_finality_point of a virtual block on top of the sink.
FinalityPoint ==
    LET deep == {c \in Chain(sink) : score[c] + FinalityDepth < score[sink] + 1}
        point == CHOOSE c \in deep : \A d \in deep : score[d] <= score[c]
    IN  IF deep # {} /\ pp \in Chain(point) THEN point ELSE pp

\* resolve_virtual commits a virtual state and replaces the message to the
\* pruning processor.  With the sink unchanged it does so when the parents of
\* virtual, which are not in the model, have changed.  The search takes the
\* heaviest block below the tips, so it passes the sink only for one that is not
\* lighter (SearchFindsHeaviest of VirtualProcessor, given SinkUnderTips).
Resolve(s) ==
    /\ data[s] = "full"
    /\ FinalityPoint \in Chain(s)
    /\ score[s] >= score[sink]
    /\ sink' = s
    /\ mailbox' = s
    /\ UNCHANGED <<treeVars, data, pointVars, utxoVars, historyRoot, archival, exiting,
                   inPipeline, threadVars, restarts>>

-----------------------------------------------------------------------------
\* The thread of the pruning processor.

Busy(from, to) ==
    /\ pc = from
    /\ pc' = to

\* worker: the first message starts the recovery.
Receive ==
    /\ mailbox # NoBlock
    /\ Busy("recv", IF recovered THEN "advance" ELSE "recover")
    /\ msg' = mailbox
    /\ mailbox' = NoBlock
    /\ recovered' = TRUE
    /\ UNCHANGED <<treeVars, data, sink, pointVars, utxoVars, historyRoot, archival, exiting,
                   inPipeline, todo, restarts>>

\* recover_pruning_workflows_if_needed: the UTXO set first, ...
Recover ==
    /\ Busy("recover", "recoverUtxo")
    /\ todo' = Tail(ForwardChain(position, pp))
    /\ UNCHANGED <<treeVars, data, sink, pointVars, utxoVars, historyRoot, archival, exiting,
                   inPipeline, mailbox, msg, recovered, restarts>>

\* Variant: an interrupted deletion is left as it is.
RecoverUtxoOnly ==
    /\ pc = "recoverUtxo"
    /\ todo = <<>>
    /\ pc' = "advance"
    /\ UNCHANGED <<treeVars, data, sink, pointVars, utxoVars, historyRoot, archival, exiting,
                   inPipeline, mailbox, msg, recovered, todo, restarts>>

\* ... then the deletion, when one was interrupted.
RecoverData ==
    /\ pc = "recoverUtxo"
    /\ todo = <<>>
    /\ pc' = IF historyRoot # pp THEN "recoverPrune" ELSE "advance"
    /\ UNCHANGED <<treeVars, data, sink, pointVars, utxoVars, historyRoot, archival, exiting,
                   inPipeline, mailbox, msg, recovered, todo, restarts>>

\* Variant: the past pruning points store is not written.
AdvancePointOnly ==
    /\ pc = "advance"
    /\ LET next == NextPruningPoints(score[msg], parent[msg], NoBlock) IN
       /\ candidate' = next.candidate
       /\ IF next.points = <<>>
          THEN pc' = "recv" /\ UNCHANGED <<pp, past, todo>>
          ELSE /\ pc' = "utxo"
               /\ pp' = Last(next.points)
               /\ past' = past
               /\ todo' = Tail(ForwardChain(pp, Last(next.points)))
    /\ UNCHANGED <<treeVars, data, sink, utxoVars, historyRoot, archival, exiting,
                   inPipeline, mailbox, msg, recovered, restarts>>

\* advance_pruning_point_and_candidate_if_possible.
Advance ==
    /\ pc = "advance"
    /\ LET next == NextPruningPoints(score[msg], parent[msg], NoBlock) IN
       /\ candidate' = next.candidate
       /\ IF next.points = <<>>
          THEN pc' = "recv" /\ UNCHANGED <<pp, past, todo>>
          ELSE /\ pc' = "utxo"
               /\ pp' = Last(next.points)
               /\ past' = past \o next.points
               /\ todo' = Tail(ForwardChain(pp, Last(next.points)))
    /\ UNCHANGED <<treeVars, data, sink, utxoVars, historyRoot, archival, exiting,
                   inPipeline, mailbox, msg, recovered, restarts>>

\* Variant: the position is written once, after the last block.
AdvanceUtxoSetUnmarked ==
    /\ pc \in {"utxo", "recoverUtxo"}
    /\ todo # <<>>
    /\ ~exiting
    /\ utxoset' = utxoset \cup {Head(todo)}
    /\ position' = IF Len(todo) = 1 THEN Head(todo) ELSE position
    /\ todo' = Tail(todo)
    /\ UNCHANGED <<treeVars, data, sink, pointVars, historyRoot, archival, exiting,
                   inPipeline, mailbox, pc, msg, recovered, restarts>>

\* advance_pruning_utxoset: one chain block, diff and position in one batch.
AdvanceUtxoSet ==
    /\ pc \in {"utxo", "recoverUtxo"}
    /\ todo # <<>>
    /\ ~exiting
    /\ utxoset' = utxoset \cup {Head(todo)}
    /\ position' = Head(todo)
    /\ todo' = Tail(todo)
    /\ UNCHANGED <<treeVars, data, sink, pointVars, historyRoot, archival, exiting,
                   inPipeline, mailbox, pc, msg, recovered, restarts>>

\* Where the thread goes on after recovery and after a movement.
Resume(from) == IF from \in {"recoverUtxo", "recoverPrune"} THEN "advance" ELSE "recv"

\* Variant: the result of advance_pruning_utxoset is ignored.
UtxoSetInterruptedGoesOn ==
    /\ pc \in {"utxo", "recoverUtxo"}
    /\ todo # <<>>
    /\ exiting
    /\ pc' = IF pc = "utxo" THEN "prune" ELSE "recoverPrune"
    /\ todo' = <<>>
    /\ UNCHANGED <<treeVars, data, sink, pointVars, utxoVars, historyRoot, archival, exiting,
                   inPipeline, mailbox, msg, recovered, restarts>>

\* The exit signal is seen between two chain blocks.
UtxoSetInterrupted ==
    /\ pc \in {"utxo", "recoverUtxo"}
    /\ todo # <<>>
    /\ exiting
    /\ pc' = Resume(pc)
    /\ todo' = <<>>
    /\ UNCHANGED <<treeVars, data, sink, pointVars, utxoVars, historyRoot, archival, exiting,
                   inPipeline, mailbox, msg, recovered, restarts>>

UtxoSetAdvanced ==
    /\ todo = <<>>
    /\ Busy("utxo", "prune")
    /\ UNCHANGED <<treeVars, data, sink, pointVars, utxoVars, historyRoot, archival, exiting,
                   inPipeline, mailbox, msg, recovered, todo, restarts>>

\* Variant: past pruning points are not kept.
PrunedAll(b) ==
    IF b = Genesis \/ (b \in Chain(pp) /\ score[b] + Window >= score[pp]) THEN "header" ELSE "gone"

\* What prune leaves of a block outside the future of the pruning point: the
\* relations of the windows and the proof, the headers of past pruning points.
\* Branches of the tree are not merged by the virtual block, so none is in the
\* anticone of the pruning point that is kept in full.
Pruned(b) ==
    IF b = Genesis \/ (b \in Chain(pp) /\ score[b] + Window >= score[pp]) THEN "header"
    ELSE IF b \in ToSet(past) THEN "point"
    ELSE "gone"

\* Variant: the pruning point is not counted among its own descendants.
PrunableWithPoint ==
    {b \in Block : pp \notin Chain(b) \ {b} /\ data[b] \in {"header", "full"} /\ data[b] # Pruned(b)}

Prunable ==
    {b \in Block : pp \notin Chain(b) /\ data[b] \in {"header", "full"} /\ data[b] # Pruned(b)}

\* prune: one block of the traversal, from genesis up.
PruneBlock(b) ==
    /\ pc \in {"prune", "recoverPrune"}
    /\ ~archival
    /\ b \in Prunable
    /\ Chain(b) \cap Prunable = {b}
    /\ data' = [data EXCEPT ![b] = Pruned(b)]
    /\ UNCHANGED <<treeVars, sink, pointVars, utxoVars, historyRoot, archival, exiting,
                   inPipeline, mailbox, threadVars, restarts>>

\* prune returns: at once in an archival node, at the exit signal, or when
\* everything is deleted, and only then sets the history root.
PruneEnds ==
    /\ pc \in {"prune", "recoverPrune"}
    /\ \/ (archival \/ exiting) /\ UNCHANGED historyRoot
       \/ ~archival /\ Prunable = {} /\ historyRoot' = pp
    /\ pc' = Resume(pc)
    /\ UNCHANGED <<treeVars, data, sink, pointVars, utxoVars, archival, exiting,
                   inPipeline, mailbox, msg, recovered, todo, restarts>>

-----------------------------------------------------------------------------

\* signal_exit.
SignalExit ==
    /\ ~exiting
    /\ restarts < MaxRestarts
    /\ exiting' = TRUE
    /\ UNCHANGED <<treeVars, data, sink, pointVars, utxoVars, historyRoot, archival,
                   inPipeline, mailbox, threadVars, restarts>>

\* The process ends, in order or by a crash, and is started again.
Restart ==
    /\ restarts < MaxRestarts
    /\ restarts' = restarts + 1
    /\ archival' \in Archival
    /\ exiting' = FALSE
    /\ inPipeline' = {}
    /\ mailbox' = NoBlock
    /\ pc' = "recv" /\ msg' = NoBlock /\ recovered' = FALSE /\ todo' = <<>>
    /\ UNCHANGED <<treeVars, data, sink, pointVars, utxoVars, historyRoot>>

PruningStep ==
    \/ Receive \/ Recover \/ RecoverData \/ Advance
    \/ AdvanceUtxoSet \/ UtxoSetInterrupted \/ UtxoSetAdvanced
    \/ (\E b \in Block : PruneBlock(b)) \/ PruneEnds

Next ==
    \/ \E b \in Block : AcceptHeader(b) \/ SubmitAgain(b) \/ AcceptBody(b) \/ Resolve(b)
    \/ PruningStep \/ SignalExit \/ Restart

Spec == Init /\ [][Next]_vars

\* Blocks keep arriving, so the virtual state keeps changing and messages keep
\* coming, whether or not the sink is a new one; the thread runs; a node that
\* was told to exit is started again.
FairSpec ==
    /\ Spec
    /\ WF_vars(Resolve(sink))
    /\ WF_vars(PruningStep)
    /\ WF_vars(exiting /\ Restart)

-----------------------------------------------------------------------------

\* The variables have the types of the stores and locals they stand for, and
\* the last entry of the past pruning points is the pruning point.
TypeOK ==
    /\ data \in [Block -> Data]
    /\ {sink, pp, candidate, position, historyRoot} \subseteq Block
    /\ past \in Seq(Block) /\ past # <<>> /\ Last(past) = pp
    /\ utxoset \subseteq Block /\ inPipeline \subseteq Block
    /\ {mailbox, msg} \subseteq Block \cup {NoBlock}
    /\ pc \in {"recv", "recover", "recoverUtxo", "recoverPrune", "advance", "utxo", "prune"}
    /\ todo \in Seq(Block)
    /\ restarts \in 0..MaxRestarts

\* expected_header_pruning_point does not depend on how far the node's own
\* pruning point has moved: for every header the node may meet it returns what
\* the selected chain of the header alone determines, so nodes agree.
HeadersAgree ==
    \A b \in Block : Considered(b) => ExpectedHeaderPruningPoint(b) = PointOf(b)

\* The node's own pruning points are exactly the openings of finality intervals
\* on its chain, in order, and none was passed over on the way to the candidate,
\* from which next_pruning_points_and_candidate_by_ghostdag_data resumes.
NoPointPassedOver ==
    /\ past = SelectSeq(path[pp], OpensInterval)
    /\ candidate \in Chain(sink)
    /\ {c \in Chain(candidate) : OpensInterval(c)} = ToSet(past)

\* The pruning point UTXO set is that of the block utxoset_position names, after
\* a crash or an interruption between any two batches as well.
UtxoSetAtPosition == utxoset = Chain(position)

\* Whatever is deleted, the diffs that lead from utxoset_position to the pruning
\* point are there ("chain blocks have utxo state" in advance_pruning_utxoset).
RecoveryPossible ==
    /\ position \in Chain(pp)
    /\ \A b \in Chain(pp) \ Chain(position) : data[b] = "full"

\* "blocks in the future of the finality point (F) which are never pruned": the
\* virtual processor, which does not hold the pruning lock, finds every block it
\* may walk over, and the chain from the pruning point to the sink is whole.
FutureIsHeld ==
    /\ \A b \in Block : FinalityPoint \in Chain(b) => data[b] \in {"unknown", "header", "full"}
    /\ \A b \in Chain(sink) : pp \in Chain(b) => data[b] = "full"

\* "past pruning point headers are expected permanently": the header of every
\* past pruning point, and of the pruning point of every block that may become a
\* selected parent, is there.
PointHeadersKept ==
    /\ \A i \in 1..Len(past) : data[past[i]] # "gone"
    /\ \A b \in Block : pp \in Chain(b) /\ data[b] # "unknown" =>
           data[PointOf(b)] \notin {"unknown", "gone"}

\* A movement that was interrupted is completed: after the last restart the
\* UTXO set reaches the pruning point and the old data is deleted.
PruningCompletes == (historyRoot # pp) ~> (historyRoot = pp /\ position = pp)

\* process_body asserts that a block it received has a status.
QueuedBodyHasStatus == \A b \in inPipeline : data[b] \in {"header", "full"}

\* history_root is "the point after which data is fully held (i.e., history is
\* consecutive from this point and up to virtual)", for archival nodes "the last
\* pruning point before turning to an archive".
HistoryIsHeld ==
    archival => \A b \in Chain(sink) : historyRoot \in Chain(b) /\ b # historyRoot => data[b] = "full"
=============================================================================
