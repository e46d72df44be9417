# Pollis: a TLA+ verification project

Pollis is an end-to-end encrypted messenger. A conversation is an MLS group:
its members move together through numbered *epochs*, each opened by one
*commit*. The clients (`pollis-core`) build the commits; the delivery service
(`pollis-delivery`, "DS" below) orders them, stores sealed messages and throws
away what nobody needs any more. Nothing coordinates the devices but the DS's
tables, and a client keeps only the keys of its current epoch
(`max_past_epochs = 0`), so every mistake of ordering is a fork, a wedged device
or a message nobody can read again.

This project models those parts, checks them with TLC on small instances, and
proves the commit log's properties with TLAPS for every instance.

## The system

| Part | Source | Here |
|---|---|---|
| Commit log: submit, epoch reports, retention prune | `pollis-delivery/src/commit.rs`, `lib.rs` | `CommitLog`, `CommitLogProofs` |
| Client epochs: replay, external join, recovery | `pollis-core/src/commands/mls/group_state.rs`, `invariants.rs` | `EpochSync` |
| Client commits: reconcile, submit, resolution | `mls/reconcile.rs`, `delivery.rs`, `ds_client.rs` | `EpochSync` |
| Welcomes, GroupInfo | `mls/welcomes.rs`, `pollis-delivery/src/writes.rs` | `EpochSync` (reset, purge, resubmit planned) |
| Catch-up sweep | `mls/sweep.rs` | `EpochSync`, as its fairness |
| Messages: send, ingest, watermarks | `messages/send.rs`, `ingest.rs`, `watermark.rs` | `Delivery` |
| Message endpoints, envelope GC | `pollis-delivery/src/messages.rs` | `Delivery` (edit, delete, reactions, attachments planned) |
| Groups, invites, join requests, DMs | `pollis-delivery/src/groups.rs`, `profile.rs`, `commands/groups`, `dm.rs` | as roster changes and watermark seeds; own module planned |
| Sign-in: OTP, session, PIN, enrolment, rate limits | `otp.rs`, `session.rs`, `ratelimit.rs`, `pin.rs`, `device_enrollment.rs` | planned |
| Key packages, device certificates | `mls/key_packages.rs`, `devices.rs`, `cert.rs`, `pollis-device-cert` | planned; `EpochSync` lets any device lack a key package |
| Transparency log | `verifiable-log*`, `transparency.rs` | planned |
| Relay, overlay | `pollis-relay`, `net/` | planned |
| Voice key rotation | `voice_e2ee.rs` | planned |
| Realtime hints | `realtime.rs` | a hint only starts a pass, and passes start at any time |
| Audio, video, storage, updates, front ends | `voice*`, `r2.rs`, `src-tauri`, `frontend`, `mobile`, `pollis-tui`, capture crates | no protocol state of their own |

How they interact: a client's reconcile compares its ratchet tree with the
roster, stages a commit and submits it. The DS accepts it if it was built on the
head epoch, and stores the commit, the new GroupInfo and the Welcomes in one
transaction. The other members replay the log; a device without a group enters
by its Welcome or by an external commit built on the GroupInfo. During a replay
the client decrypts, at each epoch, the messages sealed at it, then posts a
watermark per conversation; the DS deletes envelopes below everyone's watermark.
Clients also report their epoch, and the DS prunes the log below the slowest.

## Modules

**`AppendLog`** is what the commit log promises: a sequence that only grows, one
commit at a time. `CommitLog` is shown to implement it.

**`CommitLog`** is the DS's log of one conversation.

| State | Code |
|---|---|
| `log`, `since` | tables `mls_commit_log`, `mls_commit_since` |
| `members` | unrevoked devices of current members, on the *other* database |
| `pruner` | local variables of a `prune_commit_log` in progress, per request |
| `applied`, `held`, `welcome` | the epoch a device has replayed to, the highest it ever stood at, the Welcome it can still apply |
| `accepted` | history: every `Accepted` answer |

A submit is an IMMEDIATE transaction and one action. A prune runs four
statements on two databases in no transaction, so it is four actions of a
`Worker`, and any of them may be its last (`PruneAbandon`). Submits, joins,
reports and roster changes run between them whether or not a prune is under way.
Reports are sent from detached tasks: `record_commit_since` records, at any
time, any epoch the device once stood at, so any number of reports are in flight
and they are late, out of order, repeated or lost. The head is `MAX(epoch) + 1`
over the retained rows, as in the code, so a prune that deleted the newest row
would hand out old epochs again.

What it takes from the clients, and where that is looked at:

- A device may stand ahead of what it has replayed, because an encryption merged
  its own undecided commit (`sync_ahead`), and report that. `MaxAhead` is by how
  much. Each epoch of it takes an encryption that races a submit; it is assumed
  to stay below the slack (8 in the code).
- A reconcile adds only devices without a leaf: ones without a group, or whose
  group is behind a commit that removed them.
- A pending Welcome is preferred to an external join, but the check reads "none"
  when its query fails, so `ExternalJoin` may overtake a Welcome. A device whose
  Welcome then puts it below what it reported *fell back*; retention does not
  protect it, and `FallsBackByOvertaking` says that this is the only way there.

**`EpochSync`** is the clients against that log. An epoch state is identified
with the commit that created it: epoch built on, parent state, resulting tree.
The DS compares only numbers; whether a commit fits the state a device holds is
decided by the device, as in MLS (the OpenMLS operations are marked external).

| State | Code |
|---|---|
| `chain`, `floor`, `groupInfo`, `welcome` | DS tables, with the pruned rows below `floor` |
| `roster`, `invited` | devices of members, and of pending invitees |
| `net` | submits on their way; `admitted` after the handler's membership check |
| `grp`, `pend` | persisted MLS group and its staged commit |
| `task` | holder of `mls_group_lock`: waiting for a submit, joining, replaying |
| `poll`, `opened` | Welcome poll in progress; key packages used up |
| `left` | remaining budget per kind of fault; a bound, not code |

Actions are cut at the code's awaits: `reconcile_group_mls_impl` up to the
submit, `ResolveCommit`; `CatchUp`, `ReplayRow`, `ReplayDone`; `JoinReadInfo`,
`JoinBuild`, `ResolveJoin`; `FetchWelcome`, `apply_welcome`, `AckWelcome`;
`try_mls_encrypt`; `Crash`. Sending and applying a Welcome do not take the lock
in the code and do not need it here. Reconcile's remote reads, which precede its
local staging under the same lock, are taken together with it. A reconcile aims
at members and pending invitees together (`Desired`), while the submit gate and
the re-join check look at members only; invites are created, accepted and
declined at any time (`ChangeInvite`).

**`Delivery`** is the messages of the conversations of one group. The log is
linear there (that is `EpochSync`'s result), so an epoch is a number. A catch-up
pass goes through `FetchEnvelopes` for each conversation (before the lock),
`StartReplay`, `ReplayCommit` per commit, `FinishReplay`, then per conversation
`apply_advance_watermark` and `apply_envelope_gc`. `sent_at` is an arbitrary
number chosen at `SendStart`, so clock skew, ties and late posts are all there.

A device comes in as in the code: a member's commit adds its leaf and leaves a
Welcome, before its owner is in the roster (an invite) or after (a join request,
a new device), and it applies the Welcome at some later time; or it joins by
external commit. `owed` are the messages posted for a member whose device is in
the tree at their epoch, whether or not it holds the group yet; `excused` are
those of them that met a race `NoSilentLoss` names.

Its limits: a device runs one pass at a time; nobody leaves; a pending Welcome
is never overtaken by a failed read; edits, redactions and tombstones are not
there yet.

## Runs

State counts are distinct states.

| Run | Checks | Instance |
|---|---|---|
| `log` | type, gapless rows, winners, order of epochs, retention, falling back, refinement of `AppendLog` | a steady member and a device that comes and goes, 2 commits, 1 prune at a time, slack 2, cap 2, 3 epochs; 0.5 million |
| `sync_safety` | one history, joinable GroupInfo, sound resolution, replay moves the group, Welcome and join exclude each other | 2 devices, 3 commits, 2 roster or invite changes, one fault of each kind, at most three kinds in a behaviour; 2.6 million |
| `sync_contend` | one history, a join attempt loses only because another commit landed | 3 devices, 4 commits, no faults; 1.1 million |
| `sync_live` | convergence | 2 devices, 6 commits, a lost message, a prune, a restart; 207 thousand |
| `delivery_siblings` | type, no silent loss | 2 devices, 2 channels, 2 messages, 2 epochs; 3.2 million |
| `delivery_faults` | no silent loss | a device is added, welcomed and enters; one of: failing decryption, replay, Welcome, watermark, GC or send, crash, lost group, TTL; 4.5 million |
| `delivery_live` | every message owed arrives | 2 channels, a device that is added and welcomed, one fault; 0.9 million |

### What the passing runs show

- *One history.* However submits, lost answers, restarts and external joins
  interleave, the accepted commits form one chain of states and every device is
  on it. The condition is that no device has adopted a commit the log did not
  hold yet (`early`); the run `sync_ahead` shows the code reaching that.
- *Ambiguous answers.* A reconcile adopts only its own landed commit
  (`NoForeignAdopt`), and a landed commit is never rolled back into a replay
  that stands still (`ReplayAdvances`), unless a submit was abandoned while on
  its way or a read of the log failed.
- *Retention.* `NoLossForReadMember`: whatever happens between its reads and its
  DELETE, a prune costs no device it read a commit, except under the hard cap
  and for a device that fell back.
- *Contention.* `LosesOnlyToWinners`: a device whose n-th join attempt is refused
  has seen n commits land since it began, because every attempt re-reads the
  GroupInfo; the bounded retries give up only while the group makes progress.
- *Delivery.* `NoSilentLoss`: a message posted for a member, at an epoch its
  device is in the tree at, is on the device, or still retrievable by it, or met
  one of seven named races: posted after the device left the epoch or lost its
  group, posted below its watermark, posted behind a running pass, committed
  over, failed to decrypt, outlived its TTL, or unread when the device lost its
  group or its Welcome (an external join included). Sibling channels, watermark
  ties, devices without a watermark, Welcomes applied late, partial failures and
  the GC lose nothing by themselves.

### Disagreements between code and comments

Each is a run that TLC answers with a counterexample. The quotes and lines are
in `PROJECT.json` under `findings`.

| Run | What is said | What happens |
|---|---|---|
| `prune_race` | never drops a commit a current member still needs | an invited device holds a Welcome; its invite is accepted between the roster read and the DELETE, which takes the commit the Welcome starts from |
| `sync_ahead` | the local epoch is never ahead of the log | an encryption merges the staged commit, without the lock, while the submit is open |
| `sync_late` | a cleared commit that had landed is adopted later | the replay "adopts" it with nothing staged: the group stands still while the pass counts on |
| `delivery_strand` | a member reads every message of its membership | a reconcile without catch-up commits over unread messages |
| `delivery_retry` | a failed decryption is retried | the watermark passes it |

Two more races are in the models without a run of their own. A Welcome that
arrives after an external join's last Welcome check (`group_state.rs:298-322`)
is applied without the lock, and the discard of the join, once it has lost,
deletes the group the Welcome installed. And a message posted after a pass has
read the envelopes (`ingest.rs:144`) is skipped when the pass leaves its epoch;
`Delivery` keeps it in `late` and `NoSilentLoss` counts it among its races.

### Bounds

All races above need two devices, a base epoch and one or two more. With slack 2,
cap 2 and `MaxAhead` 1, three epochs put both retention tiers in force; the
proofs do without these bounds. TLC runs one prune at a time there, with requests
of every kind between its steps (two prunes at once are beyond five minutes);
the proofs have any number. `SteadyStays` keeps one device in the roster with a
group, so that the log is used while the other comes and goes. Three commits let
a reconcile, a competing join and a retry meet; the run with three devices adds
two competing joiners. `FewMishaps` stops `sync_safety` where a fourth kind of
mishap would come in. Two timestamps and two messages give order, reversal and
tie. Each kind of fault happens at most once or twice in a behaviour; longer
combinations of faults are not explored. Where the bound on commits stops a
client (`nextId`, `head = MaxEpoch`), it fails as it does on any refused request.
Devices, commits and channels are interchangeable where a run uses symmetry, and
no liveness run uses it.

### Deadlock

Every run leaves TLC's deadlock check on: a device can always start another
catch-up.

### Fairness

- The DS handles a request that reached it; a task holding the lock goes on to
  its next step, since each of its awaits ends in an answer or a timeout (weak).
- Welcome polls are part of every ingest and of the sweep (weak).
- `catch_up_all_mls_groups`, with its `reconcile_backstop`, runs whenever the
  signed-in app is opened (`AppShell.tsx`); catch-ups also follow realtime hints,
  sends and opened conversations. They wait for the lock, which others take in
  between, and tokio's mutex is FIFO, so a waiter does get it (strong). This is
  an assumption about users too: a device that is never opened again promises
  nothing.
- `Delivery`: passes of a device follow one another, and a waiting Welcome is
  polled for, as every ingest does first (weak).

Nothing is assumed of sends, roster changes, faults or ordinary reconciles.
`Converges` names four ways out: a commit adopted early, the commit bound, a
group whose GroupInfo was never published before its last publisher left, and a
re-added member resting on a dead group, which no catch-up replaces before the
next commit. A join that was adopted while undecided and a member so evicted are
therefore not shown to recover.

## Proofs

`CommitLogProofs` holds for every set of devices, commits and concurrent
prunes, every bound, slack and cap of at least 1 (8 and 512 in the code), and
`MaxAhead` below the slack.

| Theorem | States |
|---|---|
| `TypeCorrect` | `[]TypeOK` |
| `LogIsGapless` | `[](GaplessSuffix /\ RowsAreWinners)` |
| `OneWinnerPerEpoch` | `[]EpochsWonInOrder` |
| `PruneSparesReadMembers` | the action property `NoLossForReadMember` |
| `OnlyOvertakingFallsBack` | the action property `FallsBackByOvertaking` |
| `RefinesAppendLog` | `CommitLog` implements `AppendLog` |

The invariants are not inductive: that the next commit gets the next epoch needs
the newest row to be there, which needs every floor to be below the head, which
needs no device to have stood, or to hold a Welcome, above the head, and its
report to exceed the highest epoch it stood at by no more than `MaxAhead`. So the
inductive invariant `IInv` adds `BelowHead` and `FloorBelowHead`. Retention needs
more: a floor already computed stays sound although the devices move on, because
it is at most `held` of every device the prune read, `held` only grows, and a
device that has not fallen back needs nothing below it (`FloorSound`). That
losing a group, replaying or applying a Welcome makes no device fall back rests
on `WelcomeApart`: a pending Welcome is never for the highest epoch its device
stood at. The strictness of the floor comes from the slack, which must exceed `MaxAhead`: with
slack 0 the theorem fails, and so does the run. `Invariance` proves
`Spec => []IInv`, one step per action; the lemmas before it carry the arithmetic
of the two tiers.

Only model-checked: everything about `EpochSync` and `Delivery`, and liveness,
which is out of this prover's reach.

## Plan

1. Message edits, redactions, tombstones and reactions as an extension of
   `Delivery`; several passes per device; a shrinking roster.
2. Invites, join requests, roles and DM membership, with the reset, purge and
   resubmit endpoints and key packages; device enrolment and revocation.
3. OTP, session, PIN and rate limits: attempt counters, expiry and lock-out.
4. Transparency log: Merkle inclusion and consistency against a reference.
5. Relay circuits and voice key rotation.
6. A composition of `CommitLog` and `EpochSync` with the real prune, and of
   `EpochSync` and `Delivery`.
7. Proofs: the type invariant and `JoinableAtHead` or `OneHistory` of
   `EpochSync`; `NoSilentLoss` of `Delivery`; lemmas on `next_watermark`.

## Running

    tlc -workers 2 -config MCCommitLog_pass.cfg MCCommitLog
    tlapm CommitLogProofs.tla
