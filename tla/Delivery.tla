------------------------------ MODULE Delivery ------------------------------
(***************************************************************************)
(* Message delivery in the conversations bound to one MLS group: sending,  *)
(* the interleaved catch-up, the per-conversation watermarks and the       *)
(* envelope garbage collection of the delivery service (DS).               *)
(*                                                                         *)
(* The commit history is linear (EpochSync), so only its length matters    *)
(* here.  A device decrypts a message only while its group is at the       *)
(* message's epoch (max_past_epochs = 0): every message of an epoch has to *)
(* be read before the group leaves that epoch.                             *)
(*                                                                         *)
(* A device runs one catch-up pass at a time here.  The pass reads the     *)
(* envelopes before it takes the MLS group lock, so other steps of the     *)
(* same device slip in between.  sent_at comes from the sender's own       *)
(* clock: any order, and ties between senders, are possible.               *)
(*                                                                         *)
(* A device comes in by the commit of a member that adds its leaf, before  *)
(* its owner is in the roster (an invite) or after (a join request, a new  *)
(* device), and a Welcome it applies at some later time; or by an external *)
(* commit of its own.  Messages may be sealed at its epochs before it      *)
(* holds the group.  Nobody leaves here, and a pending Welcome is never    *)
(* overtaken by a failed read (CommitLog, EpochSync).                      *)
(***************************************************************************)
EXTENDS Integers, FiniteSets, FiniteSetsExt

CONSTANTS
  Device,      \* the registered devices
  Founder,     \* the devices in the roster and the group at the start
  Conv,        \* the conversations (sibling channels) bound to the group
  MaxTime,     \* bound: timestamps are 1..MaxTime
  MaxEpoch,    \* bound: commits
  MaxMsgs,     \* bound: messages sent
  Faults,      \* the faults that happen
  MaxFaults    \* bound: how many of them

ASSUME FounderAssumption == Founder \subseteq Device /\ Founder # {}
ASSUME BoundsAssumption == {MaxTime, MaxEpoch, MaxMsgs, MaxFaults} \subseteq Nat
ASSUME FaultsAssumption ==
  Faults \subseteq {"send", "forget", "welcome", "decrypt", "replay", "advance", "gc", "ttl", "crash"}

VARIABLES
  roster,     \* DS: the devices of the conversation's members
  head,       \* DS: number of accepted commits
  env,        \* DS: message_envelope
  wm,         \* DS: conversation_watermark, 0 = no row
  welcome,    \* DS: epoch of the device's undelivered Welcome, or NoGroup
  epoch,      \* device: epoch of the local group, NoGroup without one
  out,        \* device: the send in progress
  got,        \* device: the local message table
  pass,       \* device: the catch-up pass in progress
  faults,     \* how many faults have happened
  leaf,       \* the epoch the device was first added to the tree at, or NoGroup
  owed,       \* history, device: the messages posted for it as a member
  excused     \* history, device: the owed messages lost to a named race

server == <<roster, env, wm>>
group == <<head, welcome, epoch, leaf>>
history == <<owed, excused>>
vars == <<server, group, out, got, pass, faults, history>>

NoGroup == -1
Idle == [k |-> "idle"]
Time == 1..MaxTime
Message == [by : Device, conv : Conv, at : Time, epoch : 0..MaxEpoch]

Init ==
  /\ roster = Founder
  /\ head = 0
  /\ env = {}
  /\ wm = [d \in Device |-> [c \in Conv |-> 0]]
  /\ epoch = [d \in Device |-> IF d \in Founder THEN 0 ELSE NoGroup]
  /\ leaf = epoch
  /\ welcome = [d \in Device |-> NoGroup]
  /\ out = [d \in Device |-> Idle]
  /\ pass = [d \in Device |-> Idle]
  /\ got = [d \in Device |-> {}]
  /\ owed = [d \in Device |-> {}] /\ excused = owed
  /\ faults = 0

Fault(f) == f \in Faults /\ faults < MaxFaults /\ faults' = faults + 1

\* The messages of M that d is owed are lost to the race at hand.
Excuse(d, M) == excused' = [excused EXCEPT ![d] = @ \cup (M \cap owed[d])]

\* mls_group_lock: held while a pass replays commits.
Locked(d) == pass[d].k = "replay"

-----------------------------------------------------------------------------
(* Sending. *)

\* The timestamp is taken before the catch-up and the encryption.
SendStart(d, c) ==
  /\ d \in roster
  /\ out[d] = Idle
  /\ Cardinality(UNION {got[x] : x \in Device})
       + Cardinality({x \in Device : out[x].k = "started"}) < MaxMsgs
  /\ \E at \in Time \ {m.at : m \in {x \in got[d] : x.by = d}} :
       out' = [out EXCEPT ![d] = [k |-> "started", conv |-> c, at |-> at]]
  /\ UNCHANGED <<server, group, got, pass, faults, history>>

\* try_mls_encrypt at the local epoch, and the local INSERT.  Without a group
\* the send fails.
SendEncrypt(d) ==
  /\ out[d].k = "started"
  /\ IF epoch[d] = NoGroup
       THEN out' = [out EXCEPT ![d] = Idle] /\ UNCHANGED got
       ELSE LET m == [by |-> d, conv |-> out[d].conv, at |-> out[d].at, epoch |-> epoch[d]]
            IN /\ out' = [out EXCEPT ![d] = [k |-> "posting", msg |-> m]]
               /\ got' = [got EXCEPT ![d] = @ \cup {m}]
  /\ UNCHANGED <<server, group, pass, faults, history>>

\* x holds, or its Welcome will give it, a state from which m's epoch is ahead.
CanRead(x, m) ==
  IF epoch[x] # NoGroup THEN epoch[x] <= m.epoch
  ELSE welcome[x] # NoGroup /\ welcome[x] <= m.epoch

\* x is a member, and in the tree at m's epoch.
Entitled(x, m) == x \in roster /\ leaf[x] # NoGroup /\ leaf[x] <= m.epoch

\* The message reaches the DS too late for x: x has left its epoch, or lost its
\* group, or x's watermark has passed its timestamp.
TooLate(x, m) == ~CanRead(x, m) \/ wm[x][m.conv] >= m.at

\* The pass x is in has already read m's conversation.
ReadBefore(x, m) == pass[x] # Idle /\ m.conv \notin pass[x].unread

\* POST /v1/messages/send: the envelope becomes visible.
SendPost(d) ==
  /\ out[d].k = "posting"
  /\ LET m   == out[d].msg
         for == {x \in Device \ {d} : Entitled(x, m)} IN
       /\ env' = env \cup {m}
       /\ owed' = [x \in Device |-> IF x \in for THEN owed[x] \cup {m} ELSE owed[x]]
       /\ excused' = [x \in Device |->
            IF x \in for /\ TooLate(x, m) THEN excused[x] \cup {m} ELSE excused[x]]
       /\ pass' = [x \in Device |->
            IF x # d /\ ReadBefore(x, m) THEN [pass[x] EXCEPT !.late = @ \cup {m}] ELSE pass[x]]
  /\ out' = [out EXCEPT ![d] = Idle]
  /\ UNCHANGED <<roster, wm, group, got, faults>>

\* The POST fails; the local copy stays.
SendFails(d) ==
  /\ out[d].k = "posting"
  /\ Fault("send")
  /\ out' = [out EXCEPT ![d] = Idle]
  /\ UNCHANGED <<server, group, got, pass, history>>

-----------------------------------------------------------------------------
(* Roster and epochs.  EpochSync has the detail of how a commit wins. *)

\* Joining the roster seeds the watermarks of the new device's conversations
\* with the DS's clock (best effort: the seed may be missing).
add_member_rows(d) ==
  /\ d \notin roster
  /\ roster' = roster \cup {d}
  /\ \E now \in {0} \cup Time : wm' = [wm EXCEPT ![d] = [c \in Conv |-> now]]
  /\ UNCHANGED <<env, group, out, got, pass, faults, history>>

\* d enters by an external commit, which replaces any local group it has: what
\* it has not read by now it cannot read any more.
Enter(d) ==
  /\ head < MaxEpoch
  /\ head' = head + 1
  /\ epoch' = [epoch EXCEPT ![d] = head']
  /\ leaf' = [leaf EXCEPT ![d] = IF @ = NoGroup THEN head' ELSE @]
  /\ Excuse(d, owed[d] \ got[d])
  /\ UNCHANGED welcome

\* Mutant: the device comes in at the head and not at its Welcome's epoch.
apply_welcome_at_head(d) ==
  /\ welcome[d] # NoGroup
  /\ welcome' = [welcome EXCEPT ![d] = NoGroup]
  /\ epoch' = [epoch EXCEPT ![d] = head]
  /\ UNCHANGED <<server, head, leaf, out, got, pass, faults, history>>

\* poll_mls_welcomes: the device joins at the Welcome's epoch and acknowledges
\* it, or fails to (its key package is gone) and acknowledges it all the same.
apply_welcome(d) ==
  /\ welcome[d] # NoGroup
  /\ welcome' = [welcome EXCEPT ![d] = NoGroup]
  /\ \/ epoch' = [epoch EXCEPT ![d] = welcome[d]] /\ UNCHANGED <<faults, excused>>
     \/ Fault("welcome") /\ Excuse(d, owed[d] \ got[d]) /\ UNCHANGED epoch
  /\ UNCHANGED <<server, head, leaf, out, got, pass, owed>>

\* What d would no longer be able to read if it left its epoch now.
Unread(d) == {m \in env : m.epoch = epoch[d]} \ got[d]

\* reconcile_group_mls_impl wins the next epoch and merges its own commit, with
\* a Welcome for every device whose leaf it adds.  Several callers (DM add and
\* remove, join-request approval, device revoke) reconcile without a catch-up.
reconcile_group_mls(d) ==
  /\ ~Locked(d)
  /\ d \in roster /\ epoch[d] = head /\ head < MaxEpoch
  /\ head' = head + 1
  /\ \E added \in SUBSET {x \in Device : leaf[x] = NoGroup} :
       /\ leaf' = [x \in Device |-> IF x \in added THEN head' ELSE leaf[x]]
       /\ welcome' = [x \in Device |-> IF x \in added THEN head' ELSE welcome[x]]
  /\ epoch' = [epoch EXCEPT ![d] = head']
  /\ Excuse(d, Unread(d))
  /\ UNCHANGED <<server, out, got, pass, faults, owed>>

\* The local group is deleted to recover from a fork, a gap or an eviction, and
\* with it the keys of everything the device has not read.
forget_local_mls_group(d) ==
  /\ epoch[d] # NoGroup
  /\ Fault("forget")
  /\ epoch' = [epoch EXCEPT ![d] = NoGroup]
  /\ Excuse(d, owed[d] \ got[d])
  /\ UNCHANGED <<server, head, welcome, leaf, out, got, pass, owed>>

-----------------------------------------------------------------------------
(* The interleaved catch-up of one device. *)

SetPass(d, p) == pass' = [pass EXCEPT ![d] = p]

NewPass == [k |-> "fetch", unread |-> Conv, snap |-> {}, late |-> {}]

\* Mutant: only the opened channel is fetched.
FetchEnvelopes_opened_only(d, c) ==
  /\ d \in roster
  /\ pass[d] = Idle
  /\ SetPass(d, [NewPass EXCEPT
       !.unread = {},
       !.snap = {m \in env : m.conv = c /\ m.at > wm[d][c]}])
  /\ UNCHANGED <<server, group, out, got, faults, history>>

\* catch_up_mls_group_interleaved: one query per bound conversation, the first
\* of which starts the pass.
FetchEnvelopes(d, c) ==
  /\ d \in roster
  /\ pass[d].k \in {"idle", "fetch"}
  /\ LET p == IF pass[d] = Idle THEN NewPass ELSE pass[d] IN
       /\ c \in p.unread
       /\ SetPass(d, [p EXCEPT
            !.unread = @ \ {c},
            !.snap = @ \cup {m \in env : m.conv = c /\ m.at > wm[d][c]}])
  /\ UNCHANGED <<server, group, out, got, faults, history>>

\* The per-epoch hook: decrypt_and_persist_one on each fetched envelope sealed
\* at e.  A decryption or the INSERT may fail, and the hook goes on.  gone is
\* what the step that calls the hook loses besides.
on_epoch(d, e, gone) ==
  LET sealed == {m \in pass[d].snap : m.epoch = e} \ got[d] IN
  \E bad \in SUBSET sealed :
    /\ \/ bad = {} /\ UNCHANGED faults
       \/ bad # {} /\ Fault("decrypt")
    /\ got' = [got EXCEPT ![d] = @ \cup (sealed \ bad)]
    /\ Excuse(d, bad \cup gone)

Replaying(d, fired, upto) ==
  [k |-> "replay", unread |-> {}, snap |-> pass[d].snap, late |-> pass[d].late,
   fired |-> fired, upto |-> upto]

\* Takes the lock, fires the hook at the starting epoch, fetches the commits.
\* Without a group there is nothing to fire.
StartReplay(d) ==
  /\ pass[d].k = "fetch" /\ pass[d].unread = {}
  /\ SetPass(d, Replaying(d, epoch[d], head))
  /\ \/ epoch[d] # NoGroup /\ on_epoch(d, epoch[d], {})
     \/ epoch[d] = NoGroup /\ UNCHANGED <<got, excused, faults>>
  /\ UNCHANGED <<server, group, out, owed>>

\* The pass found no group, or the group was deleted under it.
Outside(d) == pass[d].fired = NoGroup \/ epoch[d] = NoGroup

\* Mutant: one commit too many.
ReplayCommit_off_by_one(d) ==
  /\ Locked(d)
  /\ ~Outside(d) /\ epoch[d] <= pass[d].upto
  /\ epoch' = [epoch EXCEPT ![d] = @ + 1]
  /\ on_epoch(d, epoch[d] + 1, {m \in pass[d].late : m.epoch = epoch[d]})
  /\ SetPass(d, [pass[d] EXCEPT !.fired = epoch[d] + 1])
  /\ UNCHANGED <<server, head, welcome, leaf, out, owed>>

\* One fetched commit is applied and the hook fired at the new epoch.  What
\* reached the DS after the fetch and was sealed at the old epoch is gone.
ReplayCommit(d) ==
  /\ Locked(d)
  /\ ~Outside(d) /\ epoch[d] < pass[d].upto
  /\ epoch' = [epoch EXCEPT ![d] = @ + 1]
  /\ on_epoch(d, epoch[d] + 1, {m \in pass[d].late : m.epoch = epoch[d]})
  /\ SetPass(d, [pass[d] EXCEPT !.fired = epoch[d] + 1])
  /\ UNCHANGED <<server, head, welcome, leaf, out, owed>>

\* Decrypted, or sealed before this device could read; no group reads nothing.
is_handled(m, fired) == m.epoch <= fired

\* Mutant: on a tie the watermark reaches the envelope to be retried.
next_watermark_tie(snap, fired) ==
  LET retry == {m \in snap : ~is_handled(m, fired)}
      below == {m.at : m \in {x \in snap : \A r \in retry : x.at <= r.at}}
  IN IF below = {} THEN 0 ELSE Max(below)

\* The latest timestamp strictly below the first envelope to be retried.
next_watermark(snap, fired) ==
  LET retry == {m \in snap : ~is_handled(m, fired)}
      below == {m.at : m \in {x \in snap : \A r \in retry : x.at < r.at}}
  IN IF below = {} THEN 0 ELSE Max(below)

\* The replay is over: at the end of the fetched commits, or stopped by an
\* error.  A device without a group defers to its Welcome, or else joins by
\* external commit, or fails to (at the bound it cannot).
FinishReplay(d) ==
  /\ Locked(d)
  /\ \/ ~Outside(d) /\ epoch[d] >= pass[d].upto /\ UNCHANGED <<group, faults, excused>>
     \/ ~Outside(d) /\ epoch[d] < pass[d].upto /\ Fault("replay") /\ UNCHANGED <<group, excused>>
     \/ Outside(d) /\ welcome[d] # NoGroup /\ UNCHANGED <<group, faults, excused>>
     \/ Outside(d) /\ welcome[d] = NoGroup /\ Enter(d) /\ UNCHANGED faults
     \/ Outside(d) /\ welcome[d] = NoGroup /\ Fault("replay") /\ UNCHANGED <<group, excused>>
     \/ Outside(d) /\ welcome[d] = NoGroup /\ head = MaxEpoch /\ UNCHANGED <<group, faults, excused>>
  /\ SetPass(d, [k |-> "mark", unread |-> {}, late |-> pass[d].late,
       todo |-> Conv, gc |-> {},
       mark |-> [c \in Conv |->
         next_watermark({m \in pass[d].snap : m.conv = c}, pass[d].fired)]])
  /\ UNCHANGED <<server, out, got, owed>>

\* apply_advance_watermark: a monotone upsert; nothing is posted without a
\* timestamp, and the request may fail.  What arrived below the new watermark
\* after the fetch is not fetched again.
apply_advance_watermark(d, c) ==
  /\ pass[d].k = "mark" /\ pass[d].gc = {} /\ c \in pass[d].todo
  /\ LET ts == pass[d].mark[c] IN
       \/ /\ wm' = [wm EXCEPT ![d][c] = Max({@, ts})]
          /\ Excuse(d, {m \in pass[d].late : m.conv = c /\ m.at <= ts} \ got[d])
          /\ UNCHANGED faults
       \/ ts > 0 /\ Fault("advance") /\ UNCHANGED <<wm, excused>>
  /\ SetPass(d, [pass[d] EXCEPT !.todo = @ \ {c}, !.gc = {c}])
  /\ UNCHANGED <<roster, env, group, out, got, owed>>

\* Mutant: devices without a watermark do not hold the envelopes back.
Passed_ignores_missing(c) ==
  {m \in env : m.conv = c /\ \A x \in roster : wm[x][c] = 0 \/ m.at < wm[x][c]}

\* The watermark gate: what every device of the roster has a watermark above.
Passed(c) ==
  IF \E x \in roster : wm[x][c] = 0 THEN {}
  ELSE {m \in env : m.conv = c /\ \A x \in roster : m.at < wm[x][c]}

\* apply_envelope_gc, for the conversation whose watermark was just posted;
\* the request may be lost.  The TTL gate takes all up to some timestamp.
apply_envelope_gc(d, c) ==
  /\ pass[d].k = "mark" /\ c \in pass[d].gc
  /\ \/ env' = env \ Passed(c) /\ UNCHANGED <<excused, faults>>
     \/ \E ttl \in {m.at : m \in env} :
          LET old == {m \in env : m.conv = c /\ m.at <= ttl} IN
          /\ Fault("ttl")
          /\ env' = env \ (Passed(c) \cup old)
          /\ excused' = [x \in Device |-> excused[x] \cup ((old \ got[x]) \cap owed[x])]
     \/ Fault("gc") /\ UNCHANGED <<env, excused>>
  /\ SetPass(d, IF pass[d].todo = {} THEN Idle ELSE [pass[d] EXCEPT !.gc = {}])
  /\ UNCHANGED <<roster, wm, group, out, got, owed>>

\* The pass fails or the app dies in it.
AbandonPass(d) ==
  /\ pass[d] # Idle
  /\ Fault("crash")
  /\ SetPass(d, Idle)
  /\ UNCHANGED <<server, group, out, got, history>>

-----------------------------------------------------------------------------
Send(d) ==
  \/ \E c \in Conv : SendStart(d, c)
  \/ SendEncrypt(d)
  \/ SendPost(d)
  \/ SendFails(d)

Membership(d) ==
  \/ add_member_rows(d)
  \/ apply_welcome(d)
  \/ reconcile_group_mls(d)
  \/ forget_local_mls_group(d)

PassStep(d) ==
  \/ \E c \in Conv : FetchEnvelopes(d, c)
  \/ StartReplay(d)
  \/ ReplayCommit(d)
  \/ FinishReplay(d)
  \/ \E c \in Conv : apply_advance_watermark(d, c) \/ apply_envelope_gc(d, c)

Next == \E d \in Device : Send(d) \/ Membership(d) \/ PassStep(d) \/ AbandonPass(d)

Spec == Init /\ [][Next]_vars

\* Catch-up passes keep being started (launch sweep, realtime hints, focusing a
\* conversation, sending), each polls for a Welcome first, and none of them
\* waits for another device.
FairSpec ==
  Spec /\ \A d \in Device : WF_vars(PassStep(d)) /\ WF_vars(apply_welcome(d))

-----------------------------------------------------------------------------
(* Properties. *)

\* Each variable keeps to its domain, only what was owed is excused, no device
\* is ahead of the commit log, and a Welcome waits only for a device that has a
\* leaf and no group.
TypeOK ==
  /\ roster \subseteq Device
  /\ head \in 0..MaxEpoch /\ faults \in 0..MaxFaults
  /\ env \subseteq Message
  /\ wm \in [Device -> [Conv -> {0} \cup Time]]
  /\ epoch \in [Device -> NoGroup..head] /\ leaf \in [Device -> NoGroup..head]
  /\ \A d \in Device :
       /\ leaf[d] <= head /\ (epoch[d] # NoGroup => leaf[d] \in 0..epoch[d])
       /\ welcome[d] # NoGroup => leaf[d] = welcome[d] /\ epoch[d] = NoGroup
       /\ got[d] \subseteq Message
       /\ excused[d] \subseteq owed[d] /\ owed[d] \subseteq {m \in Message : m.by # d}
       /\ pass[d].k \in {"idle", "fetch", "replay", "mark"}
       /\ Locked(d) => pass[d].fired <= pass[d].upto
       /\ out[d].k \in {"idle", "started", "posting"}

\* The next catch-up passes of d fetch and decrypt m.
Retrievable(d, m) == m \in env /\ wm[d][m.conv] < m.at /\ CanRead(d, m)

\* A message posted for a member, sealed at an epoch its device is in the tree
\* at, is on the device, or the device's next passes still find it at the DS,
\* whether it holds the group or has yet to apply its Welcome, unless it met
\* one of seven named races: it was posted after the device left its epoch, or
\* below its watermark, or behind the back of a pass of the device; the device
\* committed over it; its decryption failed; its TTL ran out; or the device
\* lost its group or its Welcome before it was read.  No interleaving of
\* passes, replays, joins, watermark posts and the GC of any device loses a
\* message in any other way, and siblings never lose each other's messages
\* (catch_up_mls_group_interleaved, next_watermark, envelope GC).
NoSilentLoss ==
  \A d \in Device : \A m \in owed[d] :
    m \in got[d] \cup excused[d] \/ Retrievable(d, m)

\* As long as passes are run, each such message does arrive on d.
AllDelivered ==
  \A d \in Device :
    <>[](owed[d] \subseteq got[d] \cup excused[d])

\* "a current member reads every message sent while they were a member"
\* (ingest.rs): no device has moved past a message it is owed and has not read.
MemberReadsAll ==
  \A d \in Device : \A m \in owed[d] \cap env :
    epoch[d] > m.epoch => m \in got[d]

\* "Decrypt failed - leave the envelope in message_envelope for a future retry;
\* the watermark is computed to not skip past it" (ingest.rs): a watermark post
\* passes no envelope of the current epoch that the device has not read.
FailedIsRetried ==
  [][\A d \in Device : \A m \in env :
       wm[d][m.conv] < m.at /\ m.at <= wm'[d][m.conv] /\ m.epoch = epoch[d]
       => m \in got[d]]_vars

=============================================================================
