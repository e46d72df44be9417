------------------------------ MODULE CommitLog ------------------------------
(***************************************************************************)
(* The Delivery Service's commit log for one conversation, with its        *)
(* retention floor (pollis-delivery/src/commit.rs and the two handlers of  *)
(* pollis-delivery/src/lib.rs that drive it).                              *)
(*                                                                         *)
(* A submit is one IMMEDIATE transaction, so it is one action.  A prune    *)
(* reads the head, the roster and the reported epochs and then deletes, on *)
(* two databases and in no transaction, so it is four actions of a Worker  *)
(* (a prune under way); submits, reports and other prunes run between them.*)
(*                                                                         *)
(* The clients are kept to what retention depends on: the epoch up to      *)
(* which a device has replayed the log, the Welcome it may still apply,    *)
(* and the detached reports of its epoch.  Any number of those are in      *)
(* flight: a report of an epoch the device once stood at may arrive at any *)
(* later time, in any order or never.  The devices' own steps are the      *)
(* subject of EpochSync.                                                   *)
(*                                                                         *)
(* A device that merges its own commit before the service answered (see    *)
(* EpochSync, NeverAhead) stands ahead of what it replayed and reports     *)
(* that epoch: MaxAhead bounds by how much.  Each epoch of it takes an     *)
(* encryption that races a submit, and the slack is assumed to exceed it.  *)
(* The conversation exists throughout: the leave that empties a group      *)
(* deletes it and is not a step here.                                      *)
(***************************************************************************)
EXTENDS Integers, Sequences, FiniteSets, FiniteSetsExt, Functions

CONSTANTS
    Device,                   \* devices that are or may become members
    Commit,                   \* commit payloads
    Worker,                   \* prunes that may be under way at once
    PRUNE_SLACK_EPOCHS,       \* 8 in the code
    PRUNE_MAX_BEHIND_HEAD,    \* 512 in the code
    MaxAhead,                 \* bound: own commits merged and undecided
    MaxEpoch                  \* bound: commits accepted in a behaviour

ASSUME SlackAssumption == PRUNE_SLACK_EPOCHS \in Nat \ {0}
ASSUME AheadAssumption == MaxAhead \in Nat /\ MaxAhead < PRUNE_SLACK_EPOCHS
ASSUME CapAssumption == PRUNE_MAX_BEHIND_HEAD \in Nat \ {0}
ASSUME BoundAssumption == MaxEpoch \in Nat

VARIABLES
    log,        \* mls_commit_log: a function from the retained epochs
    accepted,   \* every Accepted answer given, in order (history)
    since,      \* mls_commit_since: device -> reported epoch, or NoEpoch
    members,    \* unrevoked devices of current members (main database)
    applied,    \* device -> epoch its local group has replayed to, or NoEpoch
    welcome,    \* device -> epoch of the Welcome it can still apply, or NoEpoch
    held,       \* device -> highest epoch its group ever stood at, or NoEpoch
    pruner      \* worker -> its prune in progress

clientVars == <<applied, held, welcome>>
vars == <<log, accepted, since, members, clientVars, pruner>>

NoEpoch == -1                                   \* SQL NULL / no row
Epoch == Nat
OptEpoch == Nat \cup {NoEpoch}

Idle == [at |-> "idle", head |-> 0, devices |-> {}, floor |-> 0]
PruneState == [at : {"idle", "head", "members", "recorded", "delete"},
               head : Nat, devices : SUBSET Device, floor : Nat]

-----------------------------------------------------------------------------
(* Mutant: the + 1 of the head is lost.                                    *)
HeadOf_max(rows) == IF rows = {} THEN -1 ELSE Max(rows)

(* head_epoch_of: COALESCE(MAX(epoch), -1) + 1 over the retained rows.     *)
HeadOf(rows) == IF rows = {} THEN 0 ELSE Max(rows) + 1

head_epoch == HeadOf(DOMAIN log)

(* Mutants of tier1: no slack; a device without a report ignored instead   *)
(* of stopping Tier 1.                                                     *)
tier1_no_slack(devices, rec) ==
    IF devices # {} /\ \A d \in devices : rec[d] # NoEpoch
    THEN Min({rec[d] : d \in devices}) ELSE 0

tier1_ignores_unreported(devices, rec) ==
    LET reported == {d \in devices : rec[d] # NoEpoch}
    IN  IF reported # {}
        THEN Max({Min({rec[d] : d \in reported}) - PRUNE_SLACK_EPOCHS, 0})
        ELSE 0

(* prune_floor, with min_since and all_reported folded in from             *)
(* prune_commit_log: an empty roster counts as not reported.               *)
tier1(devices, rec) ==
    IF devices # {} /\ \A d \in devices : rec[d] # NoEpoch
    THEN Max({Min({rec[d] : d \in devices}) - PRUNE_SLACK_EPOCHS, 0})
    ELSE 0

tier2(head) == Max({head - PRUNE_MAX_BEHIND_HEAD, 0})

prune_floor(devices, rec, head) == Max({tier1(devices, rec), tier2(head)})

-----------------------------------------------------------------------------
Init ==
    /\ log = << >>
    /\ accepted = << >>
    /\ since = [d \in Device |-> NoEpoch]
    /\ \E creator \in Device :
          /\ members = {creator}
          /\ applied = [d \in Device |-> IF d = creator THEN 0 ELSE NoEpoch]
    /\ held = applied
    /\ welcome = [d \in Device |-> NoEpoch]
    /\ pruner = [w \in Worker |-> Idle]

(* Mutant: the INSERT keeps ON CONFLICT DO NOTHING but loses its WHERE.    *)
InsertCommit_any_free_epoch(b, c) ==
    /\ Len(accepted) < MaxEpoch
    /\ b \notin DOMAIN log
    /\ log' = [e \in DOMAIN log \cup {b} |-> IF e = b THEN c ELSE log[e]]
    /\ accepted' = Append(accepted, [epoch |-> b, commit |-> c])

(* Mutant: a conflicting commit replaces the row it conflicts with.        *)
InsertCommit_upsert(b, c) ==
    /\ Len(accepted) < MaxEpoch
    /\ b \in DOMAIN log \cup {head_epoch}
    /\ log' = [e \in DOMAIN log \cup {b} |-> IF e = b THEN c ELSE log[e]]
    /\ accepted' = Append(accepted, [epoch |-> b, commit |-> c])

(* The conditional INSERT of submit_commit: it takes effect only at head.  *)
InsertCommit(b, c) ==
    /\ Len(accepted) < MaxEpoch
    /\ b = head_epoch
    /\ log' = [e \in DOMAIN log \cup {b} |-> IF e = b THEN c ELSE log[e]]
    /\ accepted' = Append(accepted, [epoch |-> b, commit |-> c])

(* The local group of d comes to stand at epoch e, or is gone.             *)
StandAt(d, e) ==
    /\ applied' = [applied EXCEPT ![d] = e]
    /\ held' = [held EXCEPT ![d] = Max({held[d], e})]

(* After an accepted submit or a recorded report the handler starts a      *)
(* prune (that it may fail at once is PruneAbandon's to say).              *)
StartPrune ==
    IF \E w \in Worker : pruner[w].at = "idle"
    THEN \E w \in Worker : /\ pruner[w].at = "idle"
                           /\ pruner' = [pruner EXCEPT ![w].at = "head"]
    ELSE UNCHANGED pruner

(* POST /v1/commits by a member at epoch b: the commit and the Welcomes of *)
(* the devices it adds are written together, one Welcome row per device.   *)
(* A reconcile adds devices that have no leaf: ones without a group, and   *)
(* ones whose group is behind a commit that removed them (which commit     *)
(* that was is not recorded: any they have not replayed may be).           *)
Submit(b, c, added) ==
    /\ \A d \in added : applied[d] < b
    /\ InsertCommit(b, c)
    /\ welcome' = [d \in Device |-> IF d \in added THEN b + 1 ELSE welcome[d]]
    /\ StartPrune
    /\ UNCHANGED <<since, members, applied, held>>

(* POST /v1/commits by a device that joins by external commit because it   *)
(* has no group.  It prefers a Welcome, but has_pending_welcome answers    *)
(* "none" when its read fails, so a Welcome may be overtaken.              *)
ExternalJoin(d, b, c) ==
    /\ applied[d] = NoEpoch /\ d \in members
    /\ InsertCommit(b, c)
    /\ StandAt(d, b + 1)
    /\ StartPrune
    /\ UNCHANGED <<since, members, welcome>>

(* GET /v1/commits?since=s&user_id&device_id, sent by report_applied_epoch *)
(* in a detached task: the upsert keeps the larger of the stored and the   *)
(* reported epoch, then a prune starts.  The epoch is one the device stood *)
(* at, its own commits merged but undecided included.                      *)
record_commit_since(d, s) ==
    /\ held[d] # NoEpoch /\ s <= held[d] + MaxAhead
    /\ since' = [since EXCEPT ![d] = Max({since[d], s})]
    /\ StartPrune
    /\ UNCHANGED <<log, accepted, members, clientVars>>

-----------------------------------------------------------------------------
(* prune_commit_log, one action per read.                                  *)
PruneReadHead(w) ==
    /\ pruner[w].at = "head"
    /\ pruner' = [pruner EXCEPT ![w].at = "members", ![w].head = head_epoch]
    /\ UNCHANGED <<log, accepted, since, members, clientVars>>

PruneReadMembers(w) ==
    /\ pruner[w].at = "members"
    /\ pruner' = [pruner EXCEPT ![w].at = "recorded", ![w].devices = members]
    /\ UNCHANGED <<log, accepted, since, members, clientVars>>

PruneReadSince(w) ==
    /\ pruner[w].at = "recorded"
    /\ pruner' = [pruner EXCEPT ![w].at = "delete",
          ![w].floor = prune_floor(pruner[w].devices, since, pruner[w].head)]
    /\ UNCHANGED <<log, accepted, since, members, clientVars>>

(* delete_commits_below: DELETE ... WHERE epoch < floor.                   *)
PruneDelete(w) ==
    /\ pruner[w].at = "delete"
    /\ log' = Restrict(log, {e \in DOMAIN log : e >= pruner[w].floor})
    /\ pruner' = [pruner EXCEPT ![w] = Idle]
    /\ UNCHANGED <<accepted, since, members, clientVars>>

(* Pruning is best effort: any statement may fail, and the service may be  *)
(* restarted, at any point of it.                                          *)
PruneAbandon(w) ==
    /\ pruner[w].at # "idle"
    /\ pruner' = [pruner EXCEPT ![w] = Idle]
    /\ UNCHANGED <<log, accepted, since, members, clientVars>>

-----------------------------------------------------------------------------
(* The devices.                                                            *)

(* Replay of the next commit, whoever wrote it.  A group that lost its     *)
(* leaf is never replayed up to the Welcome that gave the device a new one *)
(* (the commit that removed it comes before).                              *)
Advance(d) ==
    /\ applied[d] \in DOMAIN log
    /\ applied[d] + 1 # welcome[d]
    /\ StandAt(d, applied[d] + 1)
    /\ UNCHANGED <<log, accepted, since, members, welcome, pruner>>

(* The local group is dropped: an epoch gap, an eviction, a wiped device.  *)
DropGroup(d) ==
    /\ applied[d] # NoEpoch
    /\ StandAt(d, NoEpoch)
    /\ UNCHANGED <<log, accepted, since, members, welcome, pruner>>

(* Mutant: the Welcome can be applied again (its row is not marked         *)
(* delivered and its key package is not used up).                          *)
ApplyWelcome_reusable(d) ==
    /\ welcome[d] # NoEpoch
    /\ \E e \in {welcome[d], applied[d], NoEpoch} : StandAt(d, e)
    /\ UNCHANGED <<log, accepted, since, members, welcome, pruner>>

(* A Welcome is tried once: it replaces the local group, or fails before   *)
(* or after that was deleted, and is acknowledged whatever came of it.     *)
(* Should the acknowledgement be lost, a second try finds its key package  *)
(* used up and fails before it touches the group.                          *)
ApplyWelcome(d) ==
    /\ welcome[d] # NoEpoch
    /\ \E e \in {welcome[d], applied[d], NoEpoch} : StandAt(d, e)
    /\ welcome' = [welcome EXCEPT ![d] = NoEpoch]
    /\ UNCHANGED <<log, accepted, since, members, pruner>>

(* Main-database membership: an accepted invite or a newly enrolled device *)
(* adds a device.                                                          *)
EnterRoster(d) ==
    /\ d \notin members
    /\ members' = members \cup {d}
    /\ UNCHANGED <<log, accepted, since, clientVars, pruner>>

(* A leave, a removal or a revocation takes one away.  The device that     *)
(* leaves forgets its local group; one that is removed, or whose sibling   *)
(* leaves, keeps it.  The last leave deletes the conversation.             *)
LeaveRoster(d) ==
    /\ d \in members /\ members # {d}
    /\ members' = members \ {d}
    /\ \E e \in {applied[d], NoEpoch} : StandAt(d, e)
    /\ UNCHANGED <<log, accepted, since, welcome, pruner>>

DeviceStep(d) ==
    \/ Advance(d)
    \/ DropGroup(d)
    \/ ApplyWelcome(d)
    \/ EnterRoster(d)
    \/ LeaveRoster(d)

PruneStep(w) ==
    \/ PruneReadHead(w)
    \/ PruneReadMembers(w)
    \/ PruneReadSince(w)
    \/ PruneDelete(w)
    \/ PruneAbandon(w)

Next ==
    \/ \E b \in 0 .. MaxEpoch, c \in Commit :
          \/ \E added \in SUBSET Device : Submit(b, c, added)
          \/ \E d \in Device : ExternalJoin(d, b, c)
    \/ \E d \in Device, s \in 0 .. MaxEpoch + MaxAhead :
          record_commit_since(d, s)
    \/ \E w \in Worker : PruneStep(w)
    \/ \E d \in Device : DeviceStep(d)

Spec == Init /\ [][Next]_vars

-----------------------------------------------------------------------------
(* Every variable keeps its table's or its field's type.                   *)
TypeOK ==
    /\ DOMAIN log \subseteq Epoch
    /\ \A e \in DOMAIN log : log[e] \in Commit
    /\ accepted \in Seq([epoch : Epoch, commit : Commit])
    /\ since \in [Device -> OptEpoch]
    /\ members \subseteq Device
    /\ applied \in [Device -> OptEpoch]
    /\ welcome \in [Device -> OptEpoch]
    /\ held \in [Device -> OptEpoch]
    /\ pruner \in [Worker -> PruneState]

(* The rows are the unpruned end of what was accepted: no hole, and the    *)
(* newest row always kept, because MAX(epoch) over the rows is the only    *)
(* record of the head (submit_commit, prune_commit_log).                   *)
GaplessSuffix ==
    /\ \A e \in DOMAIN log : e < Len(accepted)
    /\ \A e \in DOMAIN log : e .. (Len(accepted) - 1) \subseteq DOMAIN log
    /\ Len(accepted) > 0 => Len(accepted) - 1 \in DOMAIN log

(* The row of an epoch is the commit whose submitter was told it won.      *)
RowsAreWinners == \A e \in DOMAIN log : log[e] = accepted[e + 1].commit

(* No two submitters are ever told they won the same epoch, and epochs are *)
(* won in order, whatever was pruned in between (submit_commit's answer).  *)
EpochsWonInOrder == \A i \in 1 .. Len(accepted) : accepted[i].epoch = i - 1

(* The epochs a device may go on from: its group's and its Welcome's.      *)
Needs(d) == {applied[d], welcome[d]} \ {NoEpoch}

(* The device stands, or its Welcome will make it stand, below an epoch it *)
(* once stood at and may have reported: the upsert keeps the MAX.          *)
FellBack(d) == \E n \in Needs(d) : n < held[d]

(* A prune never deletes a commit that a device of the roster it read may  *)
(* have yet to replay, unless the hard cap behind the head it read allows  *)
(* it (prune_floor Tier 1 against Tier 2) or the device fell back, however *)
(* long ago the prune read its inputs and whatever was submitted, reported *)
(* or lost meanwhile.                                                      *)
NoLossForReadMember ==
    [][\A w \in Worker : PruneDelete(w) =>
          \A d \in pruner[w].devices, e \in DOMAIN log \ DOMAIN log' :
             \/ \A n \in Needs(d) : e < n
             \/ e < tier2(pruner[w].head)
             \/ FellBack(d)]_vars

(* A device comes to fall back in one way only: it had a Welcome pending,  *)
(* has_pending_welcome's read failed, and the external join overtook the   *)
(* Welcome (external_join_attempt).  No re-add of a device that still      *)
(* holds an old group, no failed Welcome, no loss or replay does it.       *)
FallsBackByOvertaking ==
    [][\A d \in Device : ~FellBack(d) /\ FellBack(d)' =>
          /\ welcome[d] # NoEpoch
          /\ \E b \in 0 .. MaxEpoch, c \in Commit : ExternalJoin(d, b, c)]_vars

(* No loss for the roster as it is when the rows go: commit.rs says the   *)
(* prune runs "WITHOUT ever dropping a commit a current member still       *)
(* needs".  A device that holds a Welcome, and whose invite is accepted    *)
(* between the roster read and the DELETE, is a counterexample.            *)
NoLossForCurrentMember ==
    [][\A d \in members, e \in DOMAIN log \ DOMAIN log' :
          (applied[d] = NoEpoch /\ welcome[d] # NoEpoch) =>
             \/ e < welcome[d]
             \/ e < tier2(head_epoch)
             \/ FellBack(d)]_vars

(* Seen through its head and its rows, with the pruned ones remembered,    *)
(* the table is one sequence that only grows (submit_commit, prune).       *)
ChainView ==
    [i \in 1 .. head_epoch |->
        IF i - 1 \in DOMAIN log THEN log[i - 1] ELSE accepted[i].commit]

Chain == INSTANCE AppendLog WITH chain <- ChainView

ImplementsAppendLog == Chain!Spec
=============================================================================
