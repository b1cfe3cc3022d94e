---------------------------- MODULE BlockPipeline ----------------------------
(***************************************************************************)
(* The path of a block through the consensus pipeline: a request enters    *)
(* the header processor, is forwarded to the body processor and from there *)
(* to the virtual processor; the caller holds two futures, one for header  *)
(* and body processing and one for virtual processing.                     *)
(*                                                                         *)
(* The header and the body processor are two stations of the kind          *)
(* `OrderedStage` describes (`DepsManager` implements one).  Reads and     *)
(* writes of the statuses store by different threads interleave: every     *)
(* acquisition of its lock is a step.  Rules that depend on the contents   *)
(* of a block are verdicts that may go either way.                         *)
(***************************************************************************)
EXTENDS Naturals, Sequences, FiniteSets

CONSTANTS
    Block,          \* block hashes
    Genesis,        \* the genesis block
    Parents,        \* [Block -> SUBSET Block], Header::direct_parents
    Task,           \* processing requests
    HashOf,         \* [Task -> Block]
    TrustedTask,    \* requests that are BlockTask::Trusted
    HeaderOnlyTask, \* requests whose block carries no transactions
    Exit,           \* the exit message
    MaxRestarts     \* bound on the number of crashes

ASSUME GenesisAssumption == Genesis \in Block /\ Parents[Genesis] = {}
ASSUME RequestsAssumption ==
    /\ HashOf \in [Task -> Block]
    /\ TrustedTask \subseteq Task
    /\ HeaderOnlyTask \subseteq Task
    /\ Exit \notin Task

VARIABLES
    hchan, hrunning, hdone, hexited,    \* the header processor
    bchan, brunning, bdone, bexited,    \* the body processor
    pc,             \* [Task -> STRING], where the thread of a running task is
    unread,         \* [Task -> SUBSET Block], parents whose status
                    \* check_parents_exist has still to read
    res,            \* [Task -> Result], the result of the current station
    vchan,          \* messages waiting for the virtual processor
    vworker,        \* "recv", "resolve" or "exited"
    vbatch,         \* the messages collected by the virtual worker
    status,         \* the statuses store: [Block -> Status]
    blockResult,    \* [Task -> Result], what block_task was completed with
    virtualResult,  \* [Task -> Result], what virtual_state_task was completed with
    included,       \* history: blocks with a body when the last resolve began
    covered,        \* history: blocks included in a completed resolve
    restarts        \* number of crashes so far

headerVars == <<hchan, hrunning, hdone, hexited>>
bodyVars == <<bchan, brunning, bdone, bexited>>
virtualVars == <<vchan, vworker, vbatch, included, covered>>
resultVars == <<blockResult, virtualResult>>
vars == <<headerVars, bodyVars, virtualVars, resultVars, pc, unread, res, status, restarts>>

-----------------------------------------------------------------------------

H == INSTANCE OrderedStage WITH
        chan <- hchan, running <- hrunning, done <- hdone, exited <- hexited
B == INSTANCE OrderedStage WITH
        chan <- bchan, running <- brunning, done <- bdone, exited <- bexited

\* BlockStatus; "None" is a hash without an entry in the store.
Status == {"None", "Invalid", "HeaderOnly", "Pending", "Valid", "Disqualified"}

\* Rule errors, as far as the pipeline tells them apart.
Error == {"KnownInvalid", "InvalidParent", "MissingParents", "Rejected"}

\* Result<BlockStatus, RuleError>; "None" is no result yet.
Result == Status \cup Error

\* BlockStatus::has_block_body.
HasBlockBody(s) == s \in {"Valid", "Pending", "Disqualified"}

Init ==
    /\ H!StageInit /\ B!StageInit
    /\ pc = [t \in Task |-> "out"]
    /\ unread = [t \in Task |-> {}]
    /\ res = [t \in Task |-> "None"]
    /\ vchan = <<>> /\ vworker = "recv" /\ vbatch = <<>>
    /\ included = {} /\ covered = {}
    /\ status = [b \in Block |-> IF b = Genesis THEN "Valid" ELSE "None"]
    /\ blockResult = [t \in Task |-> "None"]
    /\ virtualResult = [t \in Task |-> "None"]
    /\ restarts = 0

\* The thread of t moves on to step p with the result r so far.
Goto(t, p, r) ==
    /\ pc' = [pc EXCEPT ![t] = p]
    /\ res' = [res EXCEPT ![t] = r]

\* A step of process_header or process_body changes nothing but the thread's
\* own state (and, where said otherwise, the statuses store).
InThread == UNCHANGED <<headerVars, bodyVars, virtualVars, resultVars, restarts>>

-----------------------------------------------------------------------------
(* Entering the pipeline *)

\* validate_and_insert_block_impl sends a request, signal_exit the exit
\* message.
Submit(m) ==
    /\ H!Send(m)
    /\ UNCHANGED <<bodyVars, virtualVars, resultVars, pc, unread, res, status, restarts>>

-----------------------------------------------------------------------------
(* The header processor *)

\* try_begin returned the task.
HStart(t) ==
    /\ H!Start(t)
    /\ Goto(t, "hLookup", "None")
    /\ UNCHANGED <<bodyVars, virtualVars, resultVars, unread, status, restarts>>

\* Variant: a known header is validated and committed again.
HLookupRevalidating(t) ==
    /\ pc[t] = "hLookup"
    /\ LET s == status[HashOf[t]] IN
       IF s = "Invalid" THEN Goto(t, "hEnd", "KnownInvalid") /\ UNCHANGED unread
       ELSE /\ Goto(t, IF t \in TrustedTask THEN "hConclude" ELSE "hParents", "None")
            /\ unread' = [unread EXCEPT ![t] = Parents[HashOf[t]]]
    /\ InThread /\ UNCHANGED status

\* process_header reads the status of the block and returns early when it is
\* known.  Otherwise the header is validated in isolation, which may fail.
HLookup(t) ==
    /\ pc[t] = "hLookup"
    /\ LET s == status[HashOf[t]] IN
       \/ s = "Invalid" /\ Goto(t, "hEnd", "KnownInvalid") /\ UNCHANGED unread
       \/ s \notin {"None", "Invalid"} /\ Goto(t, "hEnd", s) /\ UNCHANGED unread
       \/ s = "None" /\ Goto(t, "hEnd", "Rejected") /\ UNCHANGED unread
       \/ /\ s = "None"
          /\ Goto(t, IF t \in TrustedTask THEN "hConclude" ELSE "hParents", "None")
          /\ unread' = [unread EXCEPT ![t] = Parents[HashOf[t]]]
    /\ InThread /\ UNCHANGED status

\* check_parents_exist takes the lock anew for every parent.
HReadParent(t, p) ==
    /\ pc[t] = "hParents"
    /\ p \in unread[t]
    /\ unread' = [unread EXCEPT ![t] = @ \ {p}]
    /\ CASE status[p] = "Invalid" -> Goto(t, "hEnd", "InvalidParent")
         [] status[p] = "None"    -> Goto(t, "hParents", "MissingParents")
         [] OTHER                 -> Goto(t, "hParents", res[t])
    /\ InThread /\ UNCHANGED status

\* Variant: missing parents are noted and forgotten.
HParentsReadLax(t) ==
    /\ pc[t] = "hParents"
    /\ unread[t] = {}
    /\ Goto(t, "hConclude", res[t])
    /\ InThread /\ UNCHANGED <<unread, status>>

\* All parents were read.
HParentsRead(t) ==
    /\ pc[t] = "hParents"
    /\ unread[t] = {}
    /\ IF res[t] = "MissingParents" THEN Goto(t, "hEnd", res[t]) ELSE Goto(t, "hConclude", "None")
    /\ InThread /\ UNCHANGED <<unread, status>>

\* The rest of the validation, then commit_header or commit_trusted_header.
\* A header that fails the rules that precede the proof-of-work checks (the
\* incest rule among them) is rejected, one that fails the later ones is
\* also marked invalid; trusted headers skip both.
HConclude(t) ==
    /\ pc[t] = "hConclude"
    /\ \/ /\ Goto(t, "hEnd", "HeaderOnly")
          /\ status' = [status EXCEPT ![HashOf[t]] = "HeaderOnly"]
       \/ /\ t \notin TrustedTask
          /\ Goto(t, "hEnd", "Rejected")
          /\ status' \in {status, [status EXCEPT ![HashOf[t]] = "Invalid"]}
    /\ InThread /\ UNCHANGED unread

\* A request that stops at the header processor completes both futures; the
\* others are sent to the body processor, still under the manager's mutex.
HEnd(t) ==
    /\ pc[t] = "hEnd"
    /\ H!HandOver(t)
    /\ Goto(t, "out", "None")
    /\ unread' = [unread EXCEPT ![t] = {}]
    /\ IF res[t] \in Error \/ t \in HeaderOnlyTask
       THEN /\ blockResult' = [blockResult EXCEPT ![t] = res[t]]
            /\ virtualResult' = [virtualResult EXCEPT ![t] = res[t]]
            /\ UNCHANGED bodyVars
       ELSE B!Send(t) /\ UNCHANGED resultVars
    /\ UNCHANGED <<virtualVars, status, restarts>>

\* Variant: the exit message is passed on as soon as it is received.
HPassExitAtOnce ==
    /\ ~ hexited
    /\ \E i \in 1..Len(hchan) : hchan[i] = Exit
    /\ hexited' = TRUE
    /\ UNCHANGED <<hchan, hrunning, hdone>>
    /\ B!Send(Exit)
    /\ UNCHANGED <<virtualVars, resultVars, pc, unread, res, status, restarts>>

\* The header worker is idle after the exit message.
HPassExit ==
    /\ H!PassExit
    /\ B!Send(Exit)
    /\ UNCHANGED <<virtualVars, resultVars, pc, unread, res, status, restarts>>

-----------------------------------------------------------------------------
(* The body processor *)

BStart(t) ==
    /\ B!Start(t)
    /\ Goto(t, "bLookup", "None")
    /\ UNCHANGED <<headerVars, virtualVars, resultVars, unread, status, restarts>>

\* process_body reads the status of the block.
BLookup(t) ==
    /\ pc[t] = "bLookup"
    /\ LET s == status[HashOf[t]] IN
       \/ s = "Invalid" /\ Goto(t, "bEnd", "KnownInvalid")
       \/ s = "HeaderOnly" /\ Goto(t, "bValidate", "None")
       \/ HasBlockBody(s) /\ Goto(t, "bEnd", s)
    /\ InThread /\ UNCHANGED <<unread, status>>

\* validate_body_in_isolation fails.  A wrong merkle root only rejects the
\* request, any other error marks the block invalid.
BIsolationFails(t) ==
    /\ pc[t] = "bValidate"
    /\ Goto(t, "bEnd", "Rejected")
    /\ status' \in {status, [status EXCEPT ![HashOf[t]] = "Invalid"]}
    /\ InThread /\ UNCHANGED unread

\* Variant: only bodies that passed UTXO verification count.
BCheckParentsUtxoValid(t) ==
    /\ pc[t] = "bValidate"
    /\ IF t \notin TrustedTask /\ \E p \in Parents[HashOf[t]] : status[p] # "Valid"
       THEN Goto(t, "bEnd", "MissingParents")
       ELSE Goto(t, "bConclude", "None")
    /\ InThread /\ UNCHANGED <<unread, status>>

\* Variant: a parent header is enough.
BCheckParentsHeaders(t) ==
    /\ pc[t] = "bValidate"
    /\ IF t \notin TrustedTask /\ \E p \in Parents[HashOf[t]] : status[p] = "None"
       THEN Goto(t, "bEnd", "MissingParents")
       ELSE Goto(t, "bConclude", "None")
    /\ InThread /\ UNCHANGED <<unread, status>>

\* check_parent_bodies_exist reads all parents under one lock; trusted
\* blocks skip the validation in context.
BCheckParents(t) ==
    /\ pc[t] = "bValidate"
    /\ IF t \notin TrustedTask /\ \E p \in Parents[HashOf[t]] : ~ HasBlockBody(status[p])
       THEN Goto(t, "bEnd", "MissingParents")
       ELSE Goto(t, "bConclude", "None")
    /\ InThread /\ UNCHANGED <<unread, status>>

\* The other checks in context, then commit_body.
BConclude(t) ==
    /\ pc[t] = "bConclude"
    /\ \/ /\ Goto(t, "bEnd", "Pending")
          /\ status' = [status EXCEPT ![HashOf[t]] = "Pending"]
       \/ /\ t \notin TrustedTask
          /\ Goto(t, "bEnd", "Rejected")
          /\ status' = [status EXCEPT ![HashOf[t]] = "Invalid"]
    /\ InThread /\ UNCHANGED unread

\* Variant: a block that is already known skips the virtual processor.
BEndKnownIsDone(t) ==
    /\ pc[t] = "bEnd"
    /\ B!HandOver(t)
    /\ Goto(t, "out", "None")
    /\ blockResult' = [blockResult EXCEPT ![t] = res[t]]
    /\ IF res[t] \in Error \/ t \in TrustedTask \/ res[t] # "Pending"
       THEN virtualResult' = [virtualResult EXCEPT ![t] = res[t]] /\ UNCHANGED vchan
       ELSE vchan' = Append(vchan, t) /\ UNCHANGED virtualResult
    /\ UNCHANGED <<headerVars, vworker, vbatch, included, covered, unread, status, restarts>>

\* Variant: the virtual future of a trusted request is left open.
BEndTrustedOpen(t) ==
    /\ pc[t] = "bEnd"
    /\ B!HandOver(t)
    /\ Goto(t, "out", "None")
    /\ blockResult' = [blockResult EXCEPT ![t] = res[t]]
    /\ IF t \in TrustedTask THEN UNCHANGED <<vchan, virtualResult>>
       ELSE IF res[t] \in Error
       THEN virtualResult' = [virtualResult EXCEPT ![t] = res[t]] /\ UNCHANGED vchan
       ELSE vchan' = Append(vchan, t) /\ UNCHANGED virtualResult
    /\ UNCHANGED <<headerVars, vworker, vbatch, included, covered, unread, status, restarts>>

\* The result of header and body processing is sent; an accepted ordinary
\* block goes on to the virtual processor, known or not.
BEnd(t) ==
    /\ pc[t] = "bEnd"
    /\ B!HandOver(t)
    /\ Goto(t, "out", "None")
    /\ blockResult' = [blockResult EXCEPT ![t] = res[t]]
    /\ IF res[t] \in Error \/ t \in TrustedTask
       THEN virtualResult' = [virtualResult EXCEPT ![t] = res[t]] /\ UNCHANGED vchan
       ELSE vchan' = Append(vchan, t) /\ UNCHANGED virtualResult
    /\ UNCHANGED <<headerVars, vworker, vbatch, included, covered, unread, status, restarts>>

BPassExit ==
    /\ B!PassExit
    /\ vchan' = Append(vchan, Exit)
    /\ UNCHANGED <<headerVars, vworker, vbatch, included, covered, resultVars,
                   pc, unread, res, status, restarts>>

-----------------------------------------------------------------------------
(* The virtual processor *)

\* The worker receives a message; an exit message ends it, otherwise it
\* collects all pending messages and resolves the virtual state.
VReceive ==
    /\ vworker = "recv"
    /\ vchan # <<>>
    /\ IF Head(vchan) = Exit
       THEN /\ vworker' = "exited"
            /\ vchan' = Tail(vchan)
            /\ UNCHANGED <<vbatch, included>>
       ELSE /\ vworker' = "resolve"
            /\ vbatch' = vchan
            /\ vchan' = <<>>
            /\ included' = {b \in Block : HasBlockBody(status[b])}
    /\ UNCHANGED <<headerVars, bodyVars, resultVars, covered, pc, unread, res, status, restarts>>

\* Variant: a verified block is verified again.
VVerifyAgain(b) ==
    /\ vworker = "resolve"
    /\ HasBlockBody(status[b]) /\ b # Genesis
    /\ \E s \in {"Valid", "Disqualified"} : status' = [status EXCEPT ![b] = s]
    /\ UNCHANGED <<headerVars, bodyVars, virtualVars, resultVars, pc, unread, res, restarts>>

\* resolve_virtual settles a block that is pending verification.  Which
\* blocks, and how, is the subject of `VirtualProcessor`.
VVerify(b) ==
    /\ vworker = "resolve"
    /\ status[b] = "Pending"
    /\ \E s \in {"Valid", "Disqualified"} : status' = [status EXCEPT ![b] = s]
    /\ UNCHANGED <<headerVars, bodyVars, virtualVars, resultVars, pc, unread, res, restarts>>

\* The requests in the batch, up to the exit message if there is one.
Answered ==
    {vbatch[i] : i \in {j \in 1..Len(vbatch) : \A k \in 1..j : vbatch[k] # Exit}}

\* Variant: an exit message in the batch only ends the inner loop.
VReplyInnerBreak ==
    /\ vworker = "resolve"
    /\ virtualResult' = [t \in Task |->
          IF t \in Answered THEN status[HashOf[t]] ELSE virtualResult[t]]
    /\ vworker' = "recv"
    /\ covered' = covered \cup included
    /\ vbatch' = <<>>
    /\ UNCHANGED <<headerVars, bodyVars, vchan, included, blockResult, pc, unread, res, status, restarts>>

\* resolve_virtual has returned: the requests of the batch are answered with
\* the current status of their block, up to an exit message in the batch.
VReply ==
    /\ vworker = "resolve"
    /\ virtualResult' = [t \in Task |->
          IF t \in Answered THEN status[HashOf[t]] ELSE virtualResult[t]]
    /\ vworker' = IF \E i \in 1..Len(vbatch) : vbatch[i] = Exit THEN "exited" ELSE "recv"
    /\ covered' = covered \cup included
    /\ vbatch' = <<>>
    /\ UNCHANGED <<headerVars, bodyVars, vchan, included, blockResult, pc, unread, res, status, restarts>>

-----------------------------------------------------------------------------

\* The node stops at an arbitrary moment and starts again: only the stores
\* survive.  Every write of the statuses store is one atomic batch.
Restart ==
    /\ restarts < MaxRestarts
    /\ restarts' = restarts + 1
    /\ hchan' = <<>> /\ hrunning' = {} /\ hdone' = {} /\ hexited' = FALSE
    /\ bchan' = <<>> /\ brunning' = {} /\ bdone' = {} /\ bexited' = FALSE
    /\ vchan' = <<>> /\ vworker' = "recv" /\ vbatch' = <<>>
    /\ pc' = [t \in Task |-> "out"]
    /\ unread' = [t \in Task |-> {}]
    /\ res' = [t \in Task |-> "None"]
    /\ blockResult' = [t \in Task |-> "None"]
    /\ virtualResult' = [t \in Task |-> "None"]
    /\ UNCHANGED <<included, covered, status>>

Terminated ==
    /\ vworker = "exited"
    /\ UNCHANGED vars

HeaderStep(t) ==
    HStart(t) \/ HLookup(t) \/ (\E p \in Block : HReadParent(t, p)) \/ HParentsRead(t)
              \/ HConclude(t) \/ HEnd(t)

BodyStep(t) ==
    BStart(t) \/ BLookup(t) \/ BIsolationFails(t) \/ BCheckParents(t) \/ BConclude(t) \/ BEnd(t)

Next ==
    \/ \E m \in Task \cup {Exit} : Submit(m)
    \/ \E t \in Task : HeaderStep(t) \/ BodyStep(t)
    \/ HPassExit
    \/ BPassExit
    \/ VReceive
    \/ \E b \in Block : VVerify(b)
    \/ VReply
    \/ Restart
    \/ Terminated

Spec == Init /\ [][Next]_vars

\* Pool threads and workers run; a resolve ends (it verifies finitely many
\* blocks).
Fairness ==
    /\ \A t \in Task : WF_vars(HeaderStep(t)) /\ WF_vars(BodyStep(t))
    /\ WF_vars(HPassExit) /\ WF_vars(BPassExit)
    /\ WF_vars(VReceive) /\ WF_vars(VReply)

FairSpec == Spec /\ Fairness

-----------------------------------------------------------------------------
(* Properties *)

\* Types of the pipeline's state; a task's thread is in the station where the
\* task runs.
TypeOK ==
    /\ hchan \in Seq(Task \cup {Exit}) /\ bchan \in Seq(Task \cup {Exit})
    /\ hrunning \subseteq Task /\ hdone \subseteq Task
    /\ brunning \subseteq Task /\ bdone \subseteq Task
    /\ {hexited, bexited} \subseteq BOOLEAN
    /\ \A t \in Task :
          /\ t \in hrunning <=> pc[t] \in {"hLookup", "hParents", "hConclude", "hEnd"}
          /\ t \in brunning <=> pc[t] \in {"bLookup", "bValidate", "bConclude", "bEnd"}
          /\ pc[t] \in {"hEnd", "bEnd"} => res[t] # "None"
          /\ res[t] = "MissingParents" => pc[t] \in {"hParents", "hEnd", "bEnd"}
    /\ unread \in [Task -> SUBSET Block]
    /\ res \in [Task -> Result]
    /\ vchan \in Seq(Task \cup {Exit}) /\ vbatch \in Seq(Task \cup {Exit})
    /\ vworker \in {"recv", "resolve", "exited"}
    /\ status \in [Block -> Status]
    /\ blockResult \in [Task -> Result] /\ virtualResult \in [Task -> Result]
    /\ included \subseteq Block /\ covered \subseteq Block
    /\ restarts \in 0..MaxRestarts

Ordinary(b) == b # Genesis /\ \A t \in TrustedTask : HashOf[t] # b

\* The body of an ordinary block is stored only on top of the bodies of all
\* its parents, whatever the order in which headers, bodies and duplicates
\* arrive and wherever the node crashes: commit_body relies on a check made
\* under a lock that was released in between.
BodiesRestOnBodies ==
    \A b \in Block : Ordinary(b) /\ HasBlockBody(status[b]) =>
        \A p \in Parents[b] : HasBlockBody(status[p])

\* Request u made p known to the extent that t needs it.
Delivered(u, t) ==
    IF t \in HeaderOnlyTask THEN blockResult[u] \in Status \ {"None"} ELSE HasBlockBody(blockResult[u])

\* A caller that submits parents before children never gets MissingParents
\* for a parent whose own request succeeds, without awaiting any result in
\* between: the order survives both stations.
NoSpuriousMissingParents ==
    \A t \in Task : blockResult[t] = "MissingParents" =>
        \E p \in Parents[HashOf[t]] \ {Genesis} :
            \A u \in Task : H!SentBefore(u, t) /\ HashOf[u] = p => ~ Delivered(u, t)

\* virtual_state_task of an accepted ordinary block is completed only after a
\* resolve that began when the block had its body (api/mod.rs), duplicates of
\* known blocks included, and after block_task.
VirtualTaskIsLate ==
    \A t \in Task :
        /\ virtualResult[t] # "None" => blockResult[t] # "None"
        /\ virtualResult[t] \in Status \ {"None"} /\ t \notin TrustedTask \cup HeaderOnlyTask =>
              HashOf[t] \in covered

\* A completed future is about a committed fact: an accepted body is in the
\* store, and the node never tells a caller more than the store holds.
ResultsAreCommitted ==
    \A t \in Task : LET s == status[HashOf[t]] IN
        /\ HasBlockBody(blockResult[t]) => HasBlockBody(s)
        /\ blockResult[t] = "HeaderOnly" => s # "None"
        /\ virtualResult[t] \in {"Valid", "Disqualified"} => s = virtualResult[t]

\* The exit message is the last one each station sees, and when the virtual
\* worker has ended every request sent before it has both its results.
ExitIsLast ==
    /\ \A i \in 1..Len(bchan) : bchan[i] = Exit => i = Len(bchan)
    /\ \A q \in {vchan, vbatch} : \A i \in 1..Len(q) : q[i] = Exit => i = Len(q)
    /\ vworker = "exited" => \A t \in Task : H!SentBefore(t, Exit) =>
          blockResult[t] # "None" /\ virtualResult[t] # "None"

\* What may follow a status.  A duplicate request never takes a block back,
\* a verdict of the virtual processor is final, and an invalid block stays
\* invalid, across crashes as well.
Successors(s) ==
    CASE s = "None"       -> {"HeaderOnly", "Invalid"}
      [] s = "HeaderOnly" -> {"Pending", "Invalid"}
      [] s = "Pending"    -> {"Valid", "Disqualified"}
      [] OTHER            -> {}

StatusesAdvance ==
    [][\A b \in Block : status'[b] # status[b] => status'[b] \in Successors(status[b])]_vars

\* Every request sent before the exit message gets both its results.
EveryRequestAnswered ==
    \A t \in Task :
        (\E i \in 1..Len(hchan) : hchan[i] = t /\ \A j \in 1..i : hchan[j] # Exit)
            ~> (blockResult[t] # "None" /\ virtualResult[t] # "None")

\* The exit message reaches the end of the pipeline.
ExitReachesTheEnd ==
    (\E i \in 1..Len(hchan) : hchan[i] = Exit) ~> vworker = "exited"
=============================================================================
