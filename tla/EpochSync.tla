----------------------------- MODULE EpochSync -----------------------------
(***************************************************************************)
(* The client side of one MLS group: how the devices of a conversation     *)
(* advance through its epochs against the delivery service (DS).           *)
(*                                                                         *)
(* An MLS epoch state is identified with the commit that created it.  A    *)
(* commit names the epoch it was built on (base), the state it extends     *)
(* (parent) and the ratchet tree it leads to: the leaves, each named by    *)
(* the id of the commit that added it.  The DS compares epoch numbers      *)
(* only; whether a commit extends the state a device holds is what MLS     *)
(* itself checks when the device applies it.                               *)
(*                                                                         *)
(* Steps are cut at the code's awaits.  The MLS group lock of a device     *)
(* (state.mls_group_lock) is task[d] # Idle; sending a message and         *)
(* applying a Welcome do not take it.                                      *)
(*                                                                         *)
(* Two sets of devices are told apart, as in the code: the members, whose  *)
(* submits the DS admits and who may join by external commit, and the      *)
(* pending invitees, whom a reconcile adds to the tree before they accept. *)
(***************************************************************************)
EXTENDS Integers, Sequences, FiniteSets

CONSTANTS
  Device,             \* the devices (each the only device of its user)
  Creator,            \* the device that created the group
  MAX_JOIN_ATTEMPTS,  \* external_join_group_inner's retry bound
  MaxCommits,         \* bound: commits ever built
  MaxFaults           \* bounds: the budget of each kind of mishap, see Faults

ASSUME CreatorAssumption == Creator \in Device
ASSUME AttemptsAssumption == MAX_JOIN_ATTEMPTS \in Nat \ {0}
ASSUME CommitsAssumption == MaxCommits \in Nat

\* roster: a membership change; crash: a client restart; race: an encryption
\* that finds a staged commit; lose: a request or answer lost on the way;
\* late: a timeout or restart while the submit is still on its way; blind: a
\* remote read that fails or lags; prune: a commit-log prune.
Faults == {"roster", "crash", "race", "lose", "late", "blind", "prune"}

ASSUME FaultsAssumption == MaxFaults \in [Faults -> Nat]

VARIABLES
  chain,      \* DS: chain[e + 1] is the commit accepted at epoch e
  floor,      \* DS: rows below this epoch have been pruned
  groupInfo,  \* DS: mls_group_info, the state it describes, or None
  welcome,    \* DS: mls_welcome, per device, or None
  roster,     \* main DB: the devices of the members
  invited,    \* main DB: the devices of the pending invitees
  net,        \* submits sent and not yet answered by the DS
  grp,        \* device: local MLS group, or None
  pend,       \* device: staged commit persisted on the local group, or None
  task,       \* device: what the holder of the MLS group lock is doing
  poll,       \* device: the Welcome poll in progress, see NoPoll
  opened,     \* device: ids of the Welcomes whose key package is used up
  nextId,     \* id of the next commit built
  left,       \* remaining budget of each fault
  early       \* history: has a device adopted a commit the log did not hold

ds == <<chain, floor, groupInfo, welcome>>
local == <<grp, pend>>
polling == <<poll, opened>>
people == <<roster, invited>>
vars == <<chain, floor, groupInfo, welcome, roster, invited, net, grp, pend, task,
          poll, opened, nextId, left, early>>

None == [id |-> -1]
Idle == [k |-> "idle"]
NoPoll == [k |-> "idle"]

\* The state init_mls_group creates: epoch 0, one leaf.
Genesis == [id |-> 0, kind |-> "create", author |-> Creator, base |-> -1,
            parent |-> -1, tree |-> [d \in {Creator} |-> 0]]

EpochOf(c) == c.base + 1
head == Len(chain)
\* The state every member should hold at epoch e.
Canonical(e) == IF e = 0 THEN Genesis ELSE chain[e]
InLog(c) == c.base < head /\ chain[c.base + 1] = c

\* The tree after removing and adding leaves; added leaves are named by id.
Retree(tree, removed, added, id) ==
  [d \in (DOMAIN tree \ removed) \union added |->
     IF d \in added THEN id ELSE tree[d]]

\* own_leaf_node() is Some: the device's leaf is in the tree of its state.
Active(d) ==
  grp[d] # None /\ d \in DOMAIN grp[d].at.tree /\ grp[d].at.tree[d] = grp[d].leaf

Spend(f) == left[f] > 0 /\ left' = [left EXCEPT ![f] = @ - 1]

Init ==
  /\ chain = << >> /\ floor = 0
  /\ groupInfo \in {None, Genesis}      \* the create-time publish may be lost
  /\ welcome = [d \in Device |-> None]
  /\ roster = {Creator} /\ invited = {}
  /\ net = {}
  /\ grp = [d \in Device |->
              IF d = Creator THEN [id |-> 0, at |-> Genesis, leaf |-> 0] ELSE None]
  /\ pend = [d \in Device |-> None]
  /\ task = [d \in Device |-> Idle]
  /\ poll = [d \in Device |-> NoPoll]
  /\ opened = [d \in Device |-> {}]
  /\ nextId = 1
  /\ left = MaxFaults
  /\ early = FALSE

-----------------------------------------------------------------------------
(* Local group storage. *)

Group(c, leaf) == [id |-> c.id, at |-> c, leaf |-> leaf]

\* merge_pending_commit: advances to the staged commit; Ok and without effect
\* when nothing is staged.
Merged(d) == IF pend[d] = None THEN grp[d] ELSE Group(pend[d], grp[d].leaf)

merge_pending_commit(d) ==
  /\ grp' = [grp EXCEPT ![d] = Merged(d)]
  /\ pend' = [pend EXCEPT ![d] = None]
  /\ early' = (early \/ (pend[d] # None /\ ~InLog(pend[d])))

clear_pending_commit(d) ==
  pend' = [pend EXCEPT ![d] = None] /\ UNCHANGED <<grp, early>>

\* Mutant: the staged commit outlives its group.
SetGroup_keeps_staged(d, g) ==
  grp' = [grp EXCEPT ![d] = g] /\ UNCHANGED pend

\* Installing or deleting a group takes any staged commit with it.
SetGroup(d, g) ==
  /\ grp' = [grp EXCEPT ![d] = g]
  /\ pend' = [pend EXCEPT ![d] = None]

forget_local_mls_group(d) == SetGroup(d, None) /\ UNCHANGED early

-----------------------------------------------------------------------------
(* The delivery service. *)

\* Mutant: the last writer wins.
upsert_group_info_unguarded(c) == groupInfo' = c

\* Epoch-monotone upsert of mls_group_info.
upsert_group_info(c) ==
  groupInfo' = IF groupInfo = None \/ EpochOf(c) > EpochOf(groupInfo) THEN c ELSE groupInfo

\* The client still waiting for the answer to request r receives it; the
\* answer may also be lost on the way.
Answer(r, ans) ==
  LET waiting == task[r.from].k = "submit" /\ task[r.from].c = r.c /\ task[r.from].ans = "none" IN
  \/ waiting /\ task' = [task EXCEPT ![r.from].ans = ans] /\ UNCHANGED left
  \/ waiting /\ Spend("lose") /\ UNCHANGED task
  \/ ~waiting /\ UNCHANGED <<task, left>>

\* The membership gate of the submit handler, on the main DB, before the
\* transaction on the log DB.
Admit(r) ==
  /\ ~r.admitted
  /\ IF r.from \in roster
     THEN /\ net' = (net \ {r}) \union {[r EXCEPT !.admitted = TRUE]}
          /\ UNCHANGED <<task, left>>
     ELSE net' = net \ {r} /\ Answer(r, "error")
  /\ UNCHANGED <<ds, people, local, polling, nextId, early>>

\* The submit transaction: commit, GroupInfo and Welcomes, or nothing.
submit_commit(r) ==
  /\ r.admitted
  /\ net' = net \ {r}
  /\ IF r.c.base = head
     THEN /\ chain' = Append(chain, r.c)
          /\ upsert_group_info(r.c)
          /\ welcome' = [d \in Device |->
               IF d \in r.added THEN [id |-> r.c.id, at |-> r.c, delivered |-> FALSE]
               ELSE welcome[d]]
          /\ Answer(r, "committed")
     ELSE Answer(r, "lost") /\ UNCHANGED <<chain, groupInfo, welcome>>
  /\ UNCHANGED <<floor, people, local, polling, nextId, early>>

\* A request that never reaches the DS.
LoseRequest(r) ==
  /\ net' = net \ {r} /\ Spend("lose")
  /\ UNCHANGED <<ds, people, local, task, polling, nextId, early>>

\* Retention: rows below a floor under the newest row are deleted.
prune_commit_log ==
  /\ \E f \in (floor + 1)..(head - 1) : floor' = f
  /\ Spend("prune")
  /\ UNCHANGED <<chain, groupInfo, welcome, people, net, local, task, polling, nextId, early>>

\* A join request approved or a device enrolled; a leave, a removal or a
\* revocation (the last leave deletes the group).  An invite is left as it is.
ChangeRoster(d) ==
  /\ roster' = IF d \in roster THEN roster \ {d} ELSE roster \union {d}
  /\ roster' # {}
  /\ Spend("roster")
  /\ UNCHANGED <<invited, ds, net, local, task, polling, nextId, early>>

\* An invite is created, accepted or declined.
ChangeInvite(d) ==
  /\ \/ d \notin roster \union invited /\ invited' = invited \union {d} /\ UNCHANGED roster
     \/ d \in invited /\ invited' = invited \ {d} /\ roster' = roster \union {d}
     \/ d \in invited /\ invited' = invited \ {d} /\ UNCHANGED roster
  /\ Spend("roster")
  /\ UNCHANGED <<ds, net, local, task, polling, nextId, early>>

-----------------------------------------------------------------------------
(* Committing: reconcile_group_mls_impl and the shared submit path. *)

Request(d, c, added) == [from |-> d, c |-> c, added |-> added, admitted |-> FALSE]
\* tries counts an external join's attempts; start (history) is the head when
\* the first of them began.
Submitting(c, tries, start) ==
  [k |-> "submit", c |-> c, ans |-> "none", tries |-> tries, start |-> start]

\* The tree a reconcile aims at: members and pending invitees.
Desired == roster \union invited

\* Merge whatever is staged, diff the tree against Desired, stage one commit
\* for the difference and send it.  A device without an unclaimed key package
\* is not added; the actor never removes itself.
reconcile_group_mls_impl(d) ==
  /\ task[d] = Idle /\ Active(d)
  /\ \E added \in SUBSET (Desired \ DOMAIN Merged(d).at.tree) :
       LET at      == Merged(d).at
           removed == DOMAIN at.tree \ (Desired \union {d})
           c       == [id |-> nextId, kind |-> "commit", author |-> d, base |-> EpochOf(at),
                       parent |-> at.id, tree |-> Retree(at.tree, removed, added, nextId)]
       IN IF removed \union added = {}
          THEN /\ pend[d] # None
               /\ merge_pending_commit(d)
               /\ UNCHANGED <<net, task, nextId>>
          ELSE /\ nextId <= MaxCommits
               /\ grp' = [grp EXCEPT ![d] = Merged(d)]
               /\ pend' = [pend EXCEPT ![d] = c]
               /\ early' = (early \/ (pend[d] # None /\ ~InLog(pend[d])))
               /\ net' = net \union {Request(d, c, added)}
               /\ task' = [task EXCEPT ![d] = Submitting(c, 0, 0)]
               /\ nextId' = nextId + 1
  /\ UNCHANGED <<ds, people, polling, left>>

\* The DS has not decided the submit the device is waiting for.
OnItsWay(d) == task[d].k = "submit" /\ \E r \in net : r.c = task[d].c

\* No answer: a network error.
SubmitTimesOut(d) ==
  /\ task[d].k = "submit" /\ task[d].ans = "none"
  /\ task' = [task EXCEPT ![d].ans = "error"]
  /\ IF OnItsWay(d) THEN Spend("late") ELSE UNCHANGED left
  /\ UNCHANGED <<ds, people, net, local, polling, nextId, early>>

\* Mutant: any row at the epoch counts as ours.
our_commit_any_row(c) == c.base >= floor /\ c.base < head

\* our_commit_is_canonical, a read of the retained row at the commit's epoch.
our_commit_is_canonical(c) == c.base >= floor /\ InLog(c)

\* Mutant: after a network error the log is not consulted.
Resolved_error_is_loss(d, won) ==
  won = (task[d].ans = "committed") /\ task[d].ans # "none" /\ UNCHANGED left

\* Whether the submit is taken as won: a confirmed insert, or our own bytes
\* found in the log after an ambiguous answer.  A failed read answers "no".
Resolved(d, won) ==
  LET c == task[d].c IN
  \/ task[d].ans = "committed" /\ won /\ UNCHANGED left
  \/ task[d].ans \in {"lost", "error"} /\ won = our_commit_is_canonical(c) /\ UNCHANGED left
  \/ task[d].ans \in {"lost", "error"} /\ our_commit_is_canonical(c) /\ ~won /\ Spend("blind")

\* finalize_won_commit, or clear_pending_best_effort on a rollback.  The lock is
\* dropped either way; the catch-up that follows a lost race takes it again, so
\* it is a CatchUp of its own, which others may precede.
ResolveCommit(d) ==
  /\ task[d].k = "submit" /\ task[d].c.kind = "commit"
  /\ \E won \in BOOLEAN :
       /\ Resolved(d, won)
       /\ IF won /\ grp[d] # None THEN merge_pending_commit(d) ELSE clear_pending_commit(d)
  /\ task' = [task EXCEPT ![d] = Idle]
  /\ UNCHANGED <<ds, people, net, polling, nextId>>

-----------------------------------------------------------------------------
(* External join. *)

Joining(tries, start) == [k |-> "join", gi |-> None, tries |-> tries, start |-> start]

\* An undelivered Welcome row for the device.
Pending(d) == welcome[d] # None /\ ~welcome[d].delivered
\* Mutant: no arbitration between the two ways in.
has_pending_welcome_never(d, answer) == ~answer /\ UNCHANGED left
\* has_pending_welcome reads FALSE when the read fails.
has_pending_welcome(d, answer) ==
  \/ answer = Pending(d) /\ UNCHANGED left
  \/ Pending(d) /\ ~answer /\ Spend("blind")

\* The first read of an attempt: the stored GroupInfo.
JoinReadInfo(d) ==
  /\ task[d].k = "join" /\ task[d].gi = None
  /\ task' = [task EXCEPT ![d] =
       IF groupInfo = None THEN Idle ELSE [@ EXCEPT !.gi = groupInfo]]
  /\ UNCHANGED <<ds, people, net, local, polling, nextId, left, early>>

\* The second read, the Welcome check, then the external commit: it replaces
\* the local group before it is submitted.  (At the bound on commits the
\* attempt fails.)
JoinBuild(d) ==
  /\ task[d].k = "join" /\ task[d].gi # None
  /\ \E deferred \in BOOLEAN :
       /\ has_pending_welcome(d, deferred)
       /\ IF deferred \/ nextId > MaxCommits
          THEN task' = [task EXCEPT ![d] = Idle] /\ UNCHANGED <<net, local, nextId>>
          ELSE /\ LET gi == task[d].gi
                      c  == [id |-> nextId, kind |-> "join", author |-> d, base |-> EpochOf(gi),
                             parent |-> gi.id, tree |-> Retree(gi.tree, {}, {d}, nextId)]
                  IN /\ SetGroup(d, Group(c, c.id))
                     /\ net' = net \union {Request(d, c, {})}
                     /\ task' = [task EXCEPT ![d] = Submitting(c, task[d].tries, task[d].start)]
               /\ nextId' = nextId + 1
  /\ UNCHANGED <<ds, people, polling, early>>

\* Mutant: the orphaned group of a failed join is kept.
ResolveJoin_keeps_orphan(d) ==
  /\ task[d].k = "submit" /\ task[d].c.kind = "join"
  /\ \E won \in BOOLEAN : Resolved(d, won)
  /\ task' = [task EXCEPT ![d] = Idle]
  /\ UNCHANGED <<ds, people, net, local, polling, nextId, early>>

\* Mutant: a retry builds on the GroupInfo of the attempt that lost.
ResolveJoin_old_info(d) ==
  /\ task[d].k = "submit" /\ task[d].c.kind = "join"
  /\ \E won \in BOOLEAN :
       /\ Resolved(d, won)
       /\ IF won THEN task' = [task EXCEPT ![d] = Idle] /\ UNCHANGED <<local, early>>
          ELSE /\ forget_local_mls_group(d)
               /\ task' = [task EXCEPT ![d] =
                    IF task[d].ans = "lost" /\ task[d].tries + 1 < MAX_JOIN_ATTEMPTS
                    THEN [Joining(task[d].tries + 1, task[d].start)
                            EXCEPT !.gi = Canonical(task[d].c.base)]
                    ELSE Idle]
  /\ UNCHANGED <<ds, people, net, polling, nextId>>

\* A won join republishes GroupInfo; a lost race discards the local group and
\* retries; any other failure discards it and gives up.
ResolveJoin(d) ==
  /\ task[d].k = "submit" /\ task[d].c.kind = "join"
  /\ \E won \in BOOLEAN :
       /\ Resolved(d, won)
       /\ IF won
          THEN /\ \/ Active(d) /\ d \in roster /\ upsert_group_info(grp[d].at)
                  \/ UNCHANGED groupInfo
               /\ task' = [task EXCEPT ![d] = Idle]
               /\ UNCHANGED <<local, early>>
          ELSE /\ forget_local_mls_group(d)
               /\ task' = [task EXCEPT ![d] =
                    IF task[d].ans = "lost" /\ task[d].tries + 1 < MAX_JOIN_ATTEMPTS
                    THEN Joining(task[d].tries + 1, task[d].start) ELSE Idle]
               /\ UNCHANGED groupInfo
  /\ UNCHANGED <<chain, floor, welcome, people, net, polling, nextId>>

-----------------------------------------------------------------------------
(* Catching up: process_pending_commits_locked_impl. *)

may_rejoin(d) == d \in roster

\* Entry.  With a group, the rows from its epoch on are fetched.  Without one,
\* join_recovery arbitrates: a pending Welcome first, then an external join if
\* the device is still a member, else nothing.
CatchUp(d) ==
  /\ task[d] = Idle
  /\ IF grp[d] # None
     THEN /\ task' = [task EXCEPT ![d] =
               [k |-> "replay", cur |-> EpochOf(grp[d].at), lo |-> floor, hi |-> head]]
          /\ UNCHANGED left
     ELSE /\ may_rejoin(d)
          /\ has_pending_welcome(d, FALSE)
          /\ task' = [task EXCEPT ![d] = Joining(0, head)]
  /\ UNCHANGED <<ds, people, net, local, polling, nextId, early>>

Finishing == [k |-> "finish"]

\* MLS accepts the commit: the device is in the group and holds its parent.
Applies(d, c) == Active(d) /\ EpochOf(grp[d].at) = c.base /\ grp[d].id = c.parent
\* "created by this client": MLS refuses to process the device's own commit.
Own(d, c) == Applies(d, c) /\ c.kind = "commit" /\ c.author = d

\* One fetched row.  A gap or a row MLS rejects deletes the local group; the
\* device's own commit is adopted by merging what is staged; a self-add whose
\* device row is not visible yet stops the pass.
ReplayRow(d) ==
  /\ task[d].k = "replay" /\ task[d].cur < task[d].hi
  /\ LET c == chain[task[d].cur + 1] IN
     \/ /\ grp[d] = None
        /\ task' = [task EXCEPT ![d] = Finishing]
        /\ UNCHANGED <<local, left, early>>
     \/ /\ task[d].lo <= task[d].cur /\ c.kind = "join" /\ c.author # d
        /\ Spend("blind")
        /\ task' = [task EXCEPT ![d] = Finishing]
        /\ UNCHANGED <<local, early>>
     \/ /\ grp[d] # None
        /\ task[d].lo > task[d].cur \/ ~Applies(d, c)
        /\ forget_local_mls_group(d)
        /\ task' = [task EXCEPT ![d] = Finishing]
        /\ UNCHANGED left
     \/ /\ task[d].lo <= task[d].cur /\ Applies(d, c)
        /\ IF Own(d, c) THEN merge_pending_commit(d)
           ELSE SetGroup(d, Group(c, grp[d].leaf)) /\ UNCHANGED early
        /\ task' = [task EXCEPT ![d].cur = @ + 1]
        /\ UNCHANGED left
  /\ UNCHANGED <<ds, people, net, polling, nextId>>

\* Mutant: no GroupInfo backstop.
ReplayDone_no_backstop(d) ==
  /\ task[d].k = "finish" \/ (task[d].k = "replay" /\ task[d].cur >= task[d].hi)
  /\ clear_pending_commit(d)
  /\ task' = [task EXCEPT ![d] =
       IF grp[d] = None /\ may_rejoin(d) THEN Joining(0, head) ELSE Idle]
  /\ UNCHANGED <<ds, people, net, polling, nextId, left>>

\* The tail of a pass: clear a dangling staged commit, republish a missing or
\* stale GroupInfo (best effort), and recover a deleted group by external join.
ReplayDone(d) ==
  /\ task[d].k = "finish" \/ (task[d].k = "replay" /\ task[d].cur >= task[d].hi)
  /\ clear_pending_commit(d)
  /\ \/ Active(d) /\ d \in roster /\ upsert_group_info(grp[d].at) /\ UNCHANGED left
     \/ ~(Active(d) /\ d \in roster) /\ UNCHANGED <<groupInfo, left>>
     \/ Active(d) /\ d \in roster /\ UNCHANGED groupInfo /\ Spend("lose")
  /\ task' = [task EXCEPT ![d] =
       IF grp[d] = None /\ may_rejoin(d) THEN Joining(0, head) ELSE Idle]
  /\ UNCHANGED <<chain, floor, welcome, people, net, polling, nextId>>

-----------------------------------------------------------------------------
(* What a device does without the MLS group lock. *)

\* try_mls_encrypt (and any other load_group_with_signer): a staged commit is
\* merged, whatever became of its submit.
try_mls_encrypt(d) ==
  /\ pend[d] # None /\ Active(d)
  /\ Spend("race")
  /\ merge_pending_commit(d)
  /\ UNCHANGED <<ds, people, net, task, polling, nextId>>

\* poll_mls_welcomes_inner: fetch the undelivered row, apply it over any local
\* group (its key package is used up by that; a second apply fails and leaves
\* the group alone), then acknowledge the row, which a later Welcome for the
\* same device may have refreshed.
FetchWelcome(d) ==
  /\ poll[d] = NoPoll /\ Pending(d)
  /\ poll' = [poll EXCEPT ![d] = [k |-> "fetched", at |-> welcome[d].at]]
  /\ UNCHANGED <<ds, people, net, local, task, opened, nextId, left, early>>

apply_welcome(d) ==
  /\ poll[d].k = "fetched"
  /\ LET at == poll[d].at IN
     /\ opened' = [opened EXCEPT ![d] = @ \union {at.id}]
     /\ IF at.id \in opened[d] THEN UNCHANGED local ELSE SetGroup(d, Group(at, at.id))
  /\ poll' = [poll EXCEPT ![d] = [k |-> "applied"]]
  /\ UNCHANGED <<ds, people, net, task, nextId, left, early>>

AckWelcome(d) ==
  /\ poll[d].k = "applied"
  /\ poll' = [poll EXCEPT ![d] = NoPoll]
  /\ \/ welcome' = [welcome EXCEPT ![d].delivered = TRUE] /\ UNCHANGED left
     \/ UNCHANGED welcome /\ Spend("lose")
  /\ UNCHANGED <<chain, floor, groupInfo, people, net, local, task, opened, nextId, early>>

\* A restart: tasks in progress are gone, what was persisted stays, the group
\* of an unfinished external join included.
Crash(d) ==
  /\ task[d] # Idle \/ poll[d] # NoPoll
  /\ task' = [task EXCEPT ![d] = Idle]
  /\ poll' = [poll EXCEPT ![d] = NoPoll]
  /\ IF OnItsWay(d) THEN Spend("late") ELSE Spend("crash")
  /\ early' = (early \/ (task[d].k = "submit" /\ task[d].c.kind = "join" /\ ~InLog(task[d].c)))
  /\ UNCHANGED <<ds, people, net, local, opened, nextId>>

-----------------------------------------------------------------------------
ServiceStep == \E r \in net : Admit(r) \/ submit_commit(r) \/ LoseRequest(r)

Continue(d) ==
  \/ SubmitTimesOut(d) \/ ResolveCommit(d) \/ ReplayRow(d) \/ ReplayDone(d)
  \/ JoinReadInfo(d) \/ JoinBuild(d) \/ ResolveJoin(d)

PollWelcomes(d) == FetchWelcome(d) \/ apply_welcome(d) \/ AckWelcome(d)

DeviceStep(d) ==
  \/ reconcile_group_mls_impl(d) \/ CatchUp(d) \/ Continue(d)
  \/ try_mls_encrypt(d) \/ PollWelcomes(d) \/ Crash(d)

Next == ServiceStep \/ prune_commit_log \/ \E d \in Device : 
  ChangeRoster(d) \/ ChangeInvite(d) \/ DeviceStep(d)

Spec == Init /\ [][Next]_vars

\* reconcile_backstop runs only while the local tree holds a stale leaf.
local_tree_has_stale_leaf(d) == grp[d] # None /\ ~(DOMAIN grp[d].at.tree \subseteq Desired)
catch_up_all_mls_groups(d) == d \in roster /\ CatchUp(d)
reconcile_backstop(d) ==
  d \in roster /\ local_tree_has_stale_leaf(d) /\ reconcile_group_mls_impl(d)

\* The DS answers what reaches it; a device holding the lock goes on; a member
\* device polls, catches up and evicts stale leaves again and again.
Fairness ==
  /\ WF_vars(\E r \in net : Admit(r) \/ submit_commit(r))
  /\ \A d \in Device :
       /\ WF_vars(Continue(d))
       /\ WF_vars(PollWelcomes(d))
       /\ SF_vars(catch_up_all_mls_groups(d))
       /\ SF_vars(reconcile_backstop(d))

FairSpec == Spec /\ Fairness

-----------------------------------------------------------------------------
(* Properties. *)

\* Every variable has its shape; a staged commit extends the group it is
\* stored with.
TypeOK ==
  /\ \A i \in 1..head : chain[i].base = i - 1
  /\ floor \in 0..head
  /\ roster \in SUBSET Device \ {{}} /\ invited \in SUBSET Device
  /\ \A d \in Device :
       /\ pend[d] # None => grp[d] # None /\ pend[d].author = d /\ pend[d].parent = grp[d].id
       /\ task[d].k \in {"idle", "submit", "join", "replay", "finish"}
       /\ poll[d].k \in {"idle", "fetched", "applied"}
       /\ opened[d] \subseteq 1..MaxCommits
  /\ nextId \in 1..(MaxCommits + 1)
  /\ left \in [Faults -> Nat]
  /\ early \in BOOLEAN

\* An external join whose outcome is not known yet: its group is provisional.
Provisional(d) ==
  task[d].k = "submit" /\ task[d].c.kind = "join" /\ grp[d].id = task[d].c.id

\* One history.  As long as no device adopts a commit before the log holds it,
\* every accepted commit extends the accepted commit before it, although the
\* DS compares epoch numbers only, and every local group is the state the log
\* leads to at its epoch.
OneHistory ==
  ~early =>
    /\ \A i \in 1..head : chain[i].parent = Canonical(i - 1).id
    /\ \A d \in Device : grp[d] # None /\ ~Provisional(d) =>
         EpochOf(grp[d].at) <= head /\ grp[d].at = Canonical(EpochOf(grp[d].at))

\* The stored GroupInfo is the state at the head from the first accepted commit
\* on, whoever republishes: a joiner never builds on an epoch already taken
\* when it read.
JoinableAtHead == ~early /\ head > 0 => groupInfo = Canonical(head)

\* Reconcile merges a submitted commit on resolution only if the log holds that
\* very commit (invariants::resolve, "Adopt").
NoForeignAdopt ==
  [][\A d \in Device :
       task[d].k = "submit" /\ task'[d] = Idle /\ grp'[d] # grp[d] /\ grp'[d] # None
         => InLog(grp'[d].at)]_vars

\* Nothing was given up early and no remote read has failed so far.
Clear == left.late = MaxFaults.late /\ left.blind = MaxFaults.blind

\* A replayed row moves the group: when the pass counts a row as applied, the
\* group is at the epoch the pass believes it is at, the device's own commits
\* included.  Holds as long as no submit was given up on while on its way and
\* no log read failed.
ReplayAdvances ==
  [][Clear => \A d \in Device :
       task[d].k = "replay" /\ task'[d].k = "replay" /\ task'[d] # task[d]
         => EpochOf(grp'[d].at) = task'[d].cur]_vars

\* The same without the proviso, as the replay loop's comments have it.
OwnCommitAdvances ==
  [][\A d \in Device :
       task[d].k = "replay" /\ task'[d].k = "replay" /\ task'[d] # task[d]
         => EpochOf(grp'[d].at) = task'[d].cur]_vars

\* Every refused join attempt lost to a different commit: however the devices
\* contend, a device whose n-th attempt was refused has seen at least n commits
\* land since it began, so the bounded retries give up only while the group
\* makes progress (external_join_group_inner re-reads GroupInfo every time).
LosesOnlyToWinners ==
  \A d \in Device :
    task[d].k = "submit" /\ task[d].c.kind = "join" /\ task[d].ans = "lost"
      => head - task[d].start > task[d].tries

\* No external join of a device lands while a Welcome for that device waits to
\* be delivered: the two ways in exclude each other.
JoinExclusive ==
  [][chain' # chain /\ Clear /\ ~early =>
       LET c == chain'[head + 1] IN c.kind = "join" => ~Pending(c.author)]_vars

\* The local epoch is never ahead of the log, outside an external join whose
\* outcome is open.
NeverAhead ==
  \A d \in Device : grp[d] # None /\ ~Provisional(d) => EpochOf(grp[d].at) <= head

\* Every member device is in the state at the head, and the head's tree holds
\* the members and, beyond them, at most the pending invitees.
Converged ==
  /\ roster \subseteq DOMAIN Canonical(head).tree
  /\ DOMAIN Canonical(head).tree \subseteq Desired
  /\ \A d \in roster : Active(d) /\ grp[d].at = Canonical(head)

\* Nobody is left who could let anyone in.
Stranded == groupInfo = None /\ \A d \in roster : ~Active(d)
\* A member device that applied its own removal before it was added again keeps
\* the dead group, which no catch-up deletes before the next commit.
Evicted == \E d \in roster : grp[d] # None /\ ~Active(d)

\* Whatever membership changes, lost messages, restarts and pruning happened,
\* the members converge, unless a commit was adopted early, the GroupInfo was
\* never published before the last member who could went away, a member is left
\* with a dead group, or the bound on commits is reached.
Converges ==
  \/ <>(early \/ nextId > MaxCommits)
  \/ []<>Stranded
  \/ []<>Evicted
  \/ <>[]Converged

=============================================================================
