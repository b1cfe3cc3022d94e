-------------------------- MODULE VirtualProcessor --------------------------
(***************************************************************************)
(* The virtual processor: how the node's selected chain, its virtual UTXO  *)
(* state, the block statuses and the set of body tips evolve while pool    *)
(* threads of the body processor commit new bodies.                        *)
(*                                                                         *)
(* The virtual processor is one thread, here the sequence of actions that  *)
(* start with V.  A commit of a body takes the lock of the tips and then   *)
(* the lock of the statuses, a commit of a header the lock of the          *)
(* relations and then the lock of the statuses; both are two steps.  A     *)
(* lock that is held while another one is awaited is part of the state:    *)
(* `tipsHolder` is the body that holds the tips, `linking` the header that *)
(* holds the relations, and the virtual processor holds the statuses while *)
(* pc = "markTips".  All other acquisitions are momentary.                 *)
(*                                                                         *)
(* UTXO and Atomic data are abstracted to which diffs are applied: the     *)
(* mergeset diff of a chain block is the block itself, the diff of virtual *)
(* from its selected parent is the pair of that parent and the virtual     *)
(* parents.  Whether a block passes verify_expected_utxo_state is a        *)
(* constant, as it depends on the past of the block only.                  *)
(***************************************************************************)
EXTENDS BlockDag, Sequences, FiniteSetsExt

CONSTANTS
    BadUtxo,        \* blocks that fail verify_expected_utxo_state
    FinalityDepth,  \* finality_depth, in blue score
    MaxBlockParents,\* max_block_parents
    PoolThreads,    \* threads of the pool that commits bodies
    NoBlock,        \* no block
    MaxRestarts     \* bound on the number of crashes

ASSUME VirtualAssumption ==
    /\ BadUtxo \subseteq Block \ {Genesis}
    /\ FinalityDepth \in Nat
    /\ MaxBlockParents \in Nat \ {0, 1}
    /\ PoolThreads \in Nat \ {0}
    /\ NoBlock \notin Block

VARIABLES
    \* stores
    status,     \* [Block -> STRING], statuses store; "none" without an entry
    tips,       \* body tips store
    sink,       \* selected parent of the virtual state
    vparents,   \* parents of the virtual state
    selected,   \* the selected chain store, genesis first
    utxo,       \* diffs contained in the virtual UTXO set and Atomic state
    \* locks and channel
    linking,    \* the header commit that holds the write lock of the relations
    tipsHolder, \* the body commit that holds the write lock of the tips
    unsent,     \* committed bodies whose task is not yet sent to the virtual processor
    wake,       \* whether the channel of the virtual processor has messages
    \* the virtual processor's thread
    pc,         \* where it is; "idle" between two resolves
    finality,   \* finality point of the previous virtual state
    tipsRead,   \* the tips it read, from which the sink is searched
    heap,       \* candidates of the sink search
    cand,       \* the candidate that was popped
    dp,         \* diff point, the block whose state `view` is
    view,       \* the UTXO set composed with the accumulated diff
    path,       \* chain blocks between the split point and cand, still to do
    target,     \* the block that is being disqualified
    added,      \* tips to be restored
    restarts    \* number of crashes so far

virtualStores == <<sink, vparents, selected, utxo>>
storeVars == <<status, tips, virtualStores>>
threadVars == <<finality, tipsRead, heap, cand, dp, view, path, target, added>>
lockVars == <<linking, tipsHolder>>
channelVars == <<unsent, wake>>
vars == <<storeVars, lockVars, channelVars, pc, threadVars, restarts>>

-----------------------------------------------------------------------------

HasBody(b) == status[b] \in {"pending", "valid", "disqualified"}

\* The diffs of virtual with selected parent s and parents P.
Diffs(s, P) == ChainOf[s] \cup {<<s, P>>}

Init ==
    /\ status = [b \in Block |-> IF b = Genesis THEN "valid" ELSE "none"]
    /\ tips = {Genesis}
    /\ sink = Genesis
    /\ vparents = {Genesis}
    /\ selected = <<Genesis>>
    /\ utxo = Diffs(Genesis, {Genesis})
    /\ linking = NoBlock
    /\ tipsHolder = NoBlock
    /\ unsent = {} /\ wake = FALSE
    /\ pc = "idle"
    /\ finality = Genesis /\ tipsRead = {} /\ heap = {} /\ cand = NoBlock /\ dp = Genesis
    /\ view = {} /\ path = <<>> /\ target = NoBlock /\ added = {}
    /\ restarts = 0

\* The virtual processor waits for the lock of the tips with the statuses
\* locked.
StatusesLocked == pc = "markTips"
TipsLocked == tipsHolder # NoBlock
RelationsLocked == linking # NoBlock

\* The children of p in the relations store.  The set is shared with its
\* readers, who see the child of a header commit that is under way.
Children(p) == {c \in Block : p \in Parents[c] /\ (status[c] # "none" \/ c = linking)}

-----------------------------------------------------------------------------
(* Header and body processors *)

\* commit_header locks the relations and enters the block.  Header commits
\* exclude each other by the upgradable lock of the reachability store.
CommitHeaderLink(b) ==
    /\ status[b] = "none"
    /\ \A p \in Parents[b] : status[p] # "none"
    /\ ~ RelationsLocked
    /\ linking' = b
    /\ UNCHANGED <<storeVars, tipsHolder, channelVars, pc, threadVars, restarts>>

\* commit_header locks the statuses as well and writes its batch.
CommitHeaderWrite(b) ==
    /\ linking = b
    /\ ~ StatusesLocked
    /\ status' = [status EXCEPT ![b] = "header"]
    /\ linking' = NoBlock
    /\ UNCHANGED <<tips, virtualStores, tipsHolder, channelVars, pc, threadVars, restarts>>

\* Variant: a body that is known already is committed again.
CommitBodyLockTipsAgain(b) ==
    /\ status[b] # "none"
    /\ \A p \in Parents[b] : HasBody(p) /\ p \notin unsent
    /\ Cardinality(unsent) < PoolThreads
    /\ ~ TipsLocked
    /\ tipsHolder' = b
    /\ UNCHANGED <<storeVars, linking, channelVars, pc, threadVars, restarts>>

\* A thread of the pool has validated the body, and commit_body locks the tips for
\* writing.  The dependency manager held the task back until those of the parents
\* were over.
CommitBodyLockTips(b) ==
    /\ status[b] = "header"
    /\ \A p \in Parents[b] : HasBody(p) /\ p \notin unsent
    /\ Cardinality(unsent) < PoolThreads
    /\ ~ TipsLocked
    /\ tipsHolder' = b
    /\ UNCHANGED <<storeVars, linking, channelVars, pc, threadVars, restarts>>

\* Variant: the parents of the new tip remain tips.
CommitBodyKeepingParents(b) ==
    /\ tipsHolder = b
    /\ ~ StatusesLocked
    /\ status' = [status EXCEPT ![b] = "pending"]
    /\ tips' = tips \cup {b}
    /\ tipsHolder' = NoBlock
    /\ unsent' = unsent \cup {b}
    /\ UNCHANGED <<virtualStores, linking, wake, pc, threadVars, restarts>>

\* commit_body locks the statuses as well and writes both stores.
CommitBodyWrite(b) ==
    /\ tipsHolder = b
    /\ ~ StatusesLocked
    /\ status' = [status EXCEPT ![b] = "pending"]
    /\ tips' = (tips \ Parents[b]) \cup {b}
    /\ tipsHolder' = NoBlock
    /\ unsent' = unsent \cup {b}
    /\ UNCHANGED <<virtualStores, linking, wake, pc, threadVars, restarts>>

\* The task is over: `end` calls back, which sends it to the virtual processor.
SendToVirtual(b) ==
    /\ b \in unsent
    /\ unsent' = unsent \ {b}
    /\ wake' = TRUE
    /\ UNCHANGED <<storeVars, lockVars, pc, threadVars, restarts>>

-----------------------------------------------------------------------------
(* resolve_virtual *)

\* calc_finality_point, with genesis as the pruning point: the last chain
\* block that lies deeper than the finality depth.
VirtualBlueScore == BlueScore[sink] + 1 + Cardinality(Mergeset(sink, vparents))

FinalityPoint ==
    LET deep == {b \in ChainOf[sink] : BlueScore[b] + FinalityDepth < VirtualBlueScore}
    IN  IF deep = {} THEN Genesis ELSE Heaviest(deep)

\* Variant: the diff of virtual from its selected parent is not reverted.
VBeginKeepingVirtualDiff ==
    /\ pc = "idle"
    /\ wake
    /\ wake' = FALSE
    /\ finality' = FinalityPoint
    /\ dp' = sink
    /\ view' = utxo
    /\ pc' = "sanitize"
    /\ UNCHANGED <<storeVars, lockVars, unsent, tipsRead, heap, cand, path, target, added,
                   restarts>>

\* The worker collects the pending messages and begins to resolve.
VBegin ==
    /\ pc = "idle"
    /\ wake
    /\ wake' = FALSE
    /\ finality' = FinalityPoint
    /\ dp' = sink
    /\ view' = utxo \ {<<sink, vparents>>}
    /\ pc' = "sanitize"
    /\ UNCHANGED <<storeVars, lockVars, unsent, tipsRead, heap, cand, path, target, added,
                   restarts>>

\* all_body_children_disqualified.
AllBodyChildrenDisqualified(p, b) ==
    \A c \in Children(p) \ {b} : status[c] = "disqualified"

\* disqualified_tip_replacement_parents, for a tip.
ReplacementParents(b) ==
    {p \in Parents[b] : status[p] # "disqualified" /\ AllBodyChildrenDisqualified(p, b)}

\* sanitize_disqualified_body_tips: what it reads, then what it writes.
VSanitize ==
    /\ pc = "sanitize"
    /\ ~ TipsLocked
    /\ LET disqualified == {b \in tips : status[b] = "disqualified"} IN
       IF disqualified = {} /\ tips # {}
       THEN pc' = "readTips" /\ UNCHANGED added
       ELSE /\ pc' = "sanitizeWrite"
            /\ added' = UNION {ReplacementParents(b) : b \in disqualified}
                          \cup (IF tips = {} /\ status[sink] # "disqualified" THEN {sink} ELSE {})
    /\ UNCHANGED <<storeVars, lockVars, channelVars, finality, tipsRead, heap, cand, dp, view,
                   path, target, restarts>>

\* Variant: the tips become those computed from the earlier read, with the
\* lock released in between.
VSanitizeWriteStale ==
    /\ pc = "sanitizeWrite"
    /\ ~ TipsLocked
    /\ tips' = added
    /\ added' = {}
    /\ pc' = "readTips"
    /\ UNCHANGED <<status, virtualStores, lockVars, channelVars, finality, tipsRead, heap,
                   cand, dp, view,
                   path, target, restarts>>

VSanitizeWrite ==
    /\ pc = "sanitizeWrite"
    /\ ~ TipsLocked
    /\ tips' = {b \in tips : status[b] # "disqualified"} \cup added
    /\ added' = {}
    /\ pc' = "readTips"
    /\ UNCHANGED <<status, virtualStores, lockVars, channelVars, finality, tipsRead, heap,
                   cand, dp, view,
                   path, target, restarts>>

VReadTips ==
    /\ pc = "readTips"
    /\ ~ TipsLocked
    /\ tipsRead' = {b \in tips : IsDagAncestorOf(finality, b)}
    /\ heap' = tipsRead'
    /\ pc' = "search"
    /\ UNCHANGED <<storeVars, lockVars, channelVars, finality, cand, dp, view, path, target,
                   added, restarts>>

-----------------------------------------------------------------------------
(* sink_search_algorithm *)

\* No candidate is left: the search ends with the last diff point.
VExhausted ==
    /\ pc = "search"
    /\ heap = {}
    /\ pc' = "pick"
    /\ UNCHANGED <<storeVars, lockVars, channelVars, threadVars, restarts>>

\* The last block that two chains have in common.
Split(b, c) == Heaviest(ChainOf[b] \cap ChainOf[c])

\* The chain blocks above s up to c, in ascending order.
ChainPath(s, c) ==
    LET above == ChainOf[c] \ ChainOf[s] IN
    [i \in 1..Cardinality(above) |->
        CHOOSE b \in above : Cardinality({d \in above : Heavier(b, d)}) = i - 1]

\* Variant: a candidate off the finality point is considered as well.
VPopIgnoringFinality ==
    /\ pc = "search"
    /\ heap # {}
    /\ LET c     == Heaviest(heap)
           split == Split(dp, c)
       IN
       /\ cand' = c
       /\ heap' = heap \ {c}
       /\ IF status[c] # "disqualified"
          THEN /\ pc' = "chain"
               /\ view' = view \ (ChainOf[dp] \ ChainOf[split])
               /\ dp' = split
               /\ path' = ChainPath(split, c)
          ELSE pc' = "push" /\ UNCHANGED <<dp, view, path>>
    /\ UNCHANGED <<storeVars, lockVars, channelVars, finality, tipsRead, target, added, restarts>>

\* The heaviest candidate is popped.  If the finality point is on its chain,
\* calculate_utxo_state_relatively walks down from the diff point to the
\* split point, reverting diffs; known disqualified candidates are left.
VPop ==
    /\ pc = "search"
    /\ heap # {}
    /\ LET c     == Heaviest(heap)
           split == Split(dp, c)
       IN
       /\ cand' = c
       /\ heap' = heap \ {c}
       /\ IF IsChainAncestorOf(finality, c) /\ status[c] # "disqualified"
          THEN /\ pc' = "chain"
               /\ view' = view \ (ChainOf[dp] \ ChainOf[split])
               /\ dp' = split
               /\ path' = ChainPath(split, c)
          ELSE pc' = "push" /\ UNCHANGED <<dp, view, path>>
    /\ UNCHANGED <<storeVars, lockVars, channelVars, finality, tipsRead, target, added, restarts>>

\* A chain block that is already valid: its cached diff is applied.
VApplyCached ==
    /\ pc = "chain"
    /\ path # <<>>
    /\ SelectedParent[Head(path)] = dp
    /\ status[Head(path)] = "valid"
    /\ view' = view \cup {Head(path)}
    /\ dp' = Head(path)
    /\ path' = Tail(path)
    /\ UNCHANGED <<storeVars, lockVars, channelVars, pc, finality, tipsRead, heap, cand,
                   target, added, restarts>>

\* Variant: a block is verified on top of whatever the diff point is.
VValidateAnyParent ==
    /\ pc = "chain"
    /\ path # <<>>
    /\ status[Head(path)] = "pending"
    /\ Head(path) \notin BadUtxo
    /\ status' = [status EXCEPT ![Head(path)] = "valid"]
    /\ view' = view \cup {Head(path)}
    /\ dp' = Head(path)
    /\ path' = Tail(path)
    /\ UNCHANGED <<tips, virtualStores, lockVars, channelVars, pc, finality, tipsRead, heap, cand,
                   target, added, restarts>>

\* A pending chain block passes the verification: commit_utxo_state.
VValidate ==
    /\ pc = "chain"
    /\ path # <<>>
    /\ SelectedParent[Head(path)] = dp
    /\ status[Head(path)] = "pending"
    /\ Head(path) \notin BadUtxo
    /\ status' = [status EXCEPT ![Head(path)] = "valid"]
    /\ view' = view \cup {Head(path)}
    /\ dp' = Head(path)
    /\ path' = Tail(path)
    /\ UNCHANGED <<tips, virtualStores, lockVars, channelVars, pc, finality, tipsRead, heap, cand,
                   target, added, restarts>>

\* A chain block that is known to be disqualified is skipped.
VSkip ==
    /\ pc = "chain"
    /\ path # <<>>
    /\ status[Head(path)] = "disqualified"
    /\ path' = Tail(path)
    /\ UNCHANGED <<storeVars, lockVars, channelVars, pc, finality, tipsRead, heap, cand, dp,
                   view, target, added,
                   restarts>>

\* A chain block fails the verification, or its selected parent is not the
\* diff point and hence disqualified: it has to be marked.
VDisqualify ==
    /\ pc = "chain"
    /\ path # <<>>
    /\ status[Head(path)] # "disqualified"
    /\ \/ SelectedParent[Head(path)] # dp
       \/ status[Head(path)] = "pending" /\ Head(path) \in BadUtxo
    /\ target' = Head(path)
    /\ path' = Tail(path)
    /\ pc' = "mark"
    /\ UNCHANGED <<storeVars, lockVars, channelVars, finality, tipsRead, heap, cand, dp, view,
                   added, restarts>>

\* mark_block_disqualified checks whether the block is a tip and looks up
\* the children of its parents, ...
VMark ==
    /\ pc = "mark"
    /\ ~ TipsLocked
    /\ IF target \in tips
       THEN ~ RelationsLocked /\ pc' = "markRead"
       ELSE pc' = "markStatus"
    /\ UNCHANGED <<storeVars, lockVars, channelVars, threadVars, restarts>>

\* The parents whose children are examined and include one without a status.
HasUnknownChild(b) ==
    {p \in Parents[b] : status[p] # "disqualified" /\ \E c \in Children(p) : status[c] = "none"}

\* The parents that have a child, other than b, that is known not to be
\* disqualified: the examination may end with this child.
HasGoodChild(b) ==
    {p \in Parents[b] : \E c \in Children(p) \ {b} : status[c] \notin {"none", "disqualified"}}

\* ... reads their statuses to compute the tips to be restored, ...
VMarkRead ==
    /\ pc = "markRead"
    /\ HasUnknownChild(target) \subseteq HasGoodChild(target)
    /\ added' = ReplacementParents(target)
    /\ pc' = "markStatus"
    /\ UNCHANGED <<storeVars, lockVars, channelVars, finality, tipsRead, heap, cand, dp, view,
                   path, target, restarts>>

\* ... where a child without a status is a panic, which ends the process.
VMarkPanic ==
    /\ pc = "markRead"
    /\ HasUnknownChild(target) # {}
    /\ pc' = "panicked"
    /\ UNCHANGED <<storeVars, lockVars, channelVars, threadVars, restarts>>

\* ... locks the statuses (set_batch returns the guard), ...
VMarkLockStatuses ==
    /\ pc = "markStatus"
    /\ pc' = "markTips"
    /\ UNCHANGED <<storeVars, lockVars, channelVars, threadVars, restarts>>

\* ... and, once it has the lock of the tips too, writes both stores.
VMarkWrite ==
    /\ pc = "markTips"
    /\ ~ TipsLocked
    /\ status' = [status EXCEPT ![target] = "disqualified"]
    /\ tips' = (tips \ {target}) \cup added
    /\ added' = {} /\ target' = NoBlock
    /\ pc' = "chain"
    /\ UNCHANGED <<virtualStores, lockVars, channelVars, finality, tipsRead, heap, cand, dp,
                   view, path, restarts>>

\* The walk is over: the search ends if it reached the candidate.
VWalked ==
    /\ pc = "chain"
    /\ path = <<>>
    /\ pc' = IF dp = cand THEN "pick" ELSE "push"
    /\ UNCHANGED <<storeVars, lockVars, channelVars, threadVars, restarts>>

\* Variant: the parents of a rejected candidate are not considered.
VPushNothing ==
    /\ pc = "push"
    /\ pc' = "search"
    /\ UNCHANGED <<storeVars, lockVars, channelVars, threadVars, restarts>>

\* The parents of a rejected candidate become candidates, unless they are
\* below the finality point or in the past of another candidate.
VPush ==
    /\ pc = "push"
    /\ heap' = heap \cup {p \in Parents[cand] :
          IsDagAncestorOf(finality, p) /\ \A h \in heap : ~ IsDagAncestorOf(p, h)}
    /\ pc' = "search"
    /\ UNCHANGED <<storeVars, lockVars, channelVars, finality, tipsRead, cand, dp, view, path,
                   target, added, restarts>>

-----------------------------------------------------------------------------
(* The new virtual state *)

\* Variant: disqualified candidates are accepted.
PickedParentsAny ==
    LET first == {b \in heap : Cardinality({h \in heap : Heavier(h, b)}) < MaxBlockParents \div 2}
        size  == Min({Cardinality(heap), MaxBlockParents - 1})
    IN  {S \in SUBSET heap : Cardinality(S) = size /\ first \subseteq S}

\* pick_virtual_parents: candidates that are not disqualified are accepted
\* until the parents are MaxBlockParents.  The heaviest half of them comes
\* first, the others in random order.  The limit of the mergeset size and
\* the merge depth are beyond the DAGs considered.
PickedParents ==
    LET good  == {b \in heap : status[b] # "disqualified"}
        first == {b \in good : Cardinality({h \in heap : Heavier(h, b)}) < MaxBlockParents \div 2}
        size  == Min({Cardinality(good), MaxBlockParents - 1})
    IN  {S \in SUBSET good : Cardinality(S) = size /\ first \subseteq S}

\* Variant: the blocks that left the chain keep their indices.
ApplyChangesAppending(removed, new) == selected \o new

\* SelectedChainStore::apply_changes.
ApplyChanges(removed, new) == SubSeq(selected, 1, Len(selected) - Cardinality(removed)) \o new

\* Variant: the diff of the previous virtual state is not reverted.
VCommitKeepingOldDiff ==
    /\ pc = "pick"
    /\ \E S \in PickedParents :
          IF dp = sink /\ S \cup {dp} = vparents
          THEN UNCHANGED virtualStores
          ELSE /\ sink' = dp
               /\ vparents' = S \cup {dp}
               /\ selected' = ApplyChanges(ChainOf[sink] \ ChainOf[dp], ChainPath(Split(sink, dp), dp))
               /\ utxo' = view \cup {<<sink', vparents'>>} \cup {<<sink, vparents>>}
    /\ pc' = "idle"
    /\ finality' = Genesis /\ tipsRead' = {} /\ heap' = {} /\ cand' = NoBlock
    /\ dp' = Genesis /\ view' = {}
    /\ UNCHANGED <<status, tips, lockVars, channelVars, path, target, added, restarts>>

\* Variant: the messages that arrived meanwhile are dropped.
VCommitDroppingMessages ==
    /\ pc = "pick"
    /\ \E S \in PickedParents :
          IF dp = sink /\ S \cup {dp} = vparents
          THEN UNCHANGED virtualStores
          ELSE /\ sink' = dp
               /\ vparents' = S \cup {dp}
               /\ selected' = ApplyChanges(ChainOf[sink] \ ChainOf[dp], ChainPath(Split(sink, dp), dp))
               /\ utxo' = view \cup {<<sink', vparents'>>}
    /\ pc' = "idle"
    /\ wake' = FALSE
    /\ finality' = Genesis /\ tipsRead' = {} /\ heap' = {} /\ cand' = NoBlock
    /\ dp' = Genesis /\ view' = {}
    /\ UNCHANGED <<status, tips, lockVars, unsent, path, target, added, restarts>>

\* calculate_and_commit_virtual_state, unless nothing changed: the UTXO set,
\* the virtual state and the selected chain are written in one batch.  The
\* locals of resolve_virtual go out of scope.
VCommit ==
    /\ pc = "pick"
    /\ \E S \in PickedParents :
          IF dp = sink /\ S \cup {dp} = vparents
          THEN UNCHANGED virtualStores
          ELSE /\ sink' = dp
               /\ vparents' = S \cup {dp}
               /\ selected' = ApplyChanges(ChainOf[sink] \ ChainOf[dp], ChainPath(Split(sink, dp), dp))
               /\ utxo' = view \cup {<<sink', vparents'>>}
    /\ pc' = "idle"
    /\ finality' = Genesis /\ tipsRead' = {} /\ heap' = {} /\ cand' = NoBlock
    /\ dp' = Genesis /\ view' = {}
    /\ UNCHANGED <<status, tips, lockVars, channelVars, path, target, added, restarts>>

-----------------------------------------------------------------------------

\* The node stops at an arbitrary moment and starts again with its stores;
\* what was not written yet is lost, a resolve that was under way included.
Restart ==
    /\ restarts < MaxRestarts
    /\ restarts' = restarts + 1
    /\ linking' = NoBlock
    /\ tipsHolder' = NoBlock
    /\ unsent' = {} /\ wake' = FALSE
    /\ pc' = "idle"
    /\ finality' = Genesis /\ tipsRead' = {} /\ heap' = {} /\ cand' = NoBlock
    /\ dp' = Genesis /\ view' = {}
    /\ path' = <<>> /\ target' = NoBlock /\ added' = {}
    /\ UNCHANGED storeVars

\* The virtual processor waits for messages.
Idle == pc = "idle" /\ ~ wake

Done ==
    /\ Idle
    /\ unsent = {}
    /\ \A b \in Block : HasBody(b)
    /\ UNCHANGED vars

VStep ==
    \/ VBegin \/ VSanitize \/ VSanitizeWrite \/ VReadTips
    \/ VExhausted \/ VPop \/ VApplyCached \/ VValidate \/ VSkip \/ VDisqualify
    \/ VMark \/ VMarkRead \/ VMarkPanic \/ VMarkLockStatuses \/ VMarkWrite
    \/ VWalked \/ VPush \/ VCommit

Next ==
    \/ pc # "panicked"
       /\ \E b \in Block :
             \/ CommitHeaderLink(b) \/ CommitHeaderWrite(b)
             \/ CommitBodyLockTips(b) \/ CommitBodyWrite(b) \/ SendToVirtual(b)
    \/ VStep
    \/ Restart
    \/ Done

Spec == Init /\ [][Next]_vars

\* The virtual processor's thread runs, and a pool thread that has begun to
\* commit a header or a body goes on.  Nothing makes a block arrive.
Fairness ==
    /\ WF_vars(VStep)
    /\ WF_vars(RelationsLocked /\ CommitHeaderWrite(linking))
    /\ WF_vars(TipsLocked /\ CommitBodyWrite(tipsHolder))
    /\ WF_vars(\E b \in Block : SendToVirtual(b))

FairSpec == Spec /\ Fairness

-----------------------------------------------------------------------------
(* Properties *)

Statuses == {"none", "header", "pending", "valid", "disqualified"}

\* The variables have the types of the stores and locals they stand for.
TypeOK ==
    /\ status \in [Block -> Statuses]
    /\ tips \subseteq Block
    /\ sink \in Block /\ vparents \subseteq Block /\ selected \in Seq(Block)
    /\ utxo \subseteq Block \cup (Block \X SUBSET Block)
    /\ {linking, tipsHolder, cand, target} \subseteq Block \cup {NoBlock}
    /\ unsent \subseteq Block /\ wake \in BOOLEAN
    /\ pc \in {"idle", "sanitize", "sanitizeWrite", "readTips", "search", "chain", "mark", "markRead",
               "markStatus", "markTips", "push", "pick", "panicked"}
    /\ finality \in Block /\ tipsRead \subseteq Block /\ heap \subseteq Block /\ dp \in Block
    /\ view \subseteq Block /\ path \in Seq(Block) /\ added \subseteq Block
    /\ restarts \in 0..MaxRestarts

\* The virtual UTXO set contains exactly the diffs of the selected chain and
\* of virtual, whatever reorgs, failed candidates and crashes occurred; and
\* while a sink is searched the composed view is the state of the diff point
\* (the guarantee documented for calculate_utxo_state_relatively).
UtxoInStep ==
    /\ utxo = Diffs(sink, vparents)
    /\ pc # "idle" => view = ChainOf[dp]

\* The index of the selected chain store lists the chain of the sink.
SelectedChainInStep == selected = <<Genesis>> \o ChainPath(Genesis, sink)

\* The verdict on a block depends on its chain only: a block is UTXO valid
\* only if no block of its chain fails the verification, and disqualified
\* only if one does, in whatever order blocks were verified or skipped.
VerdictsFollowTheChain ==
    \A b \in Block :
        /\ status[b] = "valid" => ChainOf[b] \cap BadUtxo = {}
        /\ status[b] = "disqualified" => ChainOf[b] \cap BadUtxo # {}

\* Between two resolves no parent of virtual is disqualified, as long as no
\* crash interrupted a resolve.
NoDisqualifiedParent ==
    pc = "idle" /\ restarts = 0 => \A p \in vparents : status[p] # "disqualified"

\* A new sink has the finality point of the previous virtual on its chain.
FinalityRespected ==
    [][sink' # sink => IsChainAncestorOf(FinalityPoint, sink')]_vars

\* A verdict of the virtual processor is never changed.
VerdictsStand ==
    [][\A b \in Block : status[b] \in {"valid", "disqualified"} => status'[b] = status[b]]_vars

\* The body tips are an antichain (the assumption of sink_search_algorithm).
TipsAreAntichain == IsAntichain(tips)

\* The blocks a search for the sink must not miss: those at or below the tips
\* that were read, with the finality point and no failing block on their chain.
SinkChoices ==
    {b \in Block : /\ \E t \in tipsRead : IsDagAncestorOf(b, t)
                   /\ IsChainAncestorOf(finality, b)
                   /\ ChainOf[b] \cap BadUtxo = {}}

\* sink_search_algorithm ends with the heaviest block it could have chosen, however
\* many candidates fail, at the tip or half way down their chain, and whichever
\* parents it leaves out for being in the past of another candidate.  The sink
\* stays only if there is nothing to choose from.
SearchFindsHeaviest ==
    pc = "pick" => dp = IF SinkChoices = {} THEN sink ELSE Heaviest(SinkChoices)

\* The tips, which body commits and the virtual processor write in turn, the
\* latter from what it read earlier: no body that is not disqualified and has no
\* body above it is ever missing from the tips, and no tip is disqualified.
UncoveredBodiesAreTips ==
    /\ \A b \in Block : HasBody(b) /\ status[b] # "disqualified" =>
           b \in tips \/ \E c \in Block : b \in Parents[c] /\ HasBody(c)
    /\ \A t \in tips : HasBody(t) /\ status[t] # "disqualified"

\* Between two resolves the sink is a body tip or in the past of one, so
\* that the next search cannot miss it.
SinkUnderTips ==
    Idle /\ tips # {} => \E t \in tips : IsDagAncestorOf(sink, t)

\* A body whose commit began is committed: the holder of the tips gets the
\* statuses as well and releases both.
BodyCommitCompletes == TipsLocked ~> ~ TipsLocked

\* Every committed body is weighed: while some body is heavier than the sink,
\* a resolve will follow after which none is.
EveryBodyWeighed ==
    (\E b \in Block : HasBody(b) /\ Heavier(b, sink)) ~> (\A b \in Block : HasBody(b) => ~ Heavier(b, sink))
=====
