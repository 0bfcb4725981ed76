# clix in TLA+

clix lets the machines of one owner run commands on each other. Every machine
has a *sidecar*, a daemon with a durable store; machines are paired by hand, a
tool is callable from another machine only under a grant its owner made, and
invocations, permission requests, history and pinned files travel between the
sidecars over mutually authenticated TLS. This directory is a TLA+ model of
that system: modules that describe its parts, TLC configurations that check
them on small instances, and proofs, checked by TLAPS, of the results that hold
for every value of the constants.

Paths like `exec.rs:105` are under `src/src/`; `docs/...` is under `src/docs/`.

- [1. The system](#1-the-system)
- [2. Modules and how they correspond to the code](#2-modules-and-how-they-correspond-to-the-code)
- [3. What the runs check](#3-what-the-runs-check)
- [4. Fairness](#4-fairness)
- [5. What is proved](#5-what-is-proved)
- [6. Where the code and what is said of it disagree](#6-where-the-code-and-what-is-said-of-it-disagree)
- [7. Abstractions and what is not modelled](#7-abstractions-and-what-is-not-modelled)
- [8. Plan](#8-plan)

## 1. The system

One sidecar is one process with a tokio runtime. All its durable state is one
`Store`, kept in memory behind a mutex and on disk as `state.json`. An RPC of
the owner (a Unix socket), an RPC of a peer (the mesh), the dispatcher and the
tasks that wait for child processes all take the mutex for a moment, and never
keep it across an await or while a command runs. Hence the shape of the models:
what happens under one lock is one action, and everything else interleaves.

### Durable store (`store.rs`)
*State*: the `Store` (machine name, peers, grants, jobs, requests, receipts,
history), the file, and `write_error`. *Operations*: `Store::update` clones the
store, edits the clone, validates it, refreshes history, asks the storage policy,
writes a temporary file, fsyncs, renames, fsyncs the directory, and only then
publishes the clone to memory. After a failed save nothing can be saved until a
restart. `Store::open` reads the file and `recover_jobs` turns every `Running`
row into `Uncertain`. *Hard*: a save can fail after the rename, so that the disk
is ahead of the memory which goes on answering. *Correct if* nothing is
published that a crash takes back.

### Execution admission and runs (`exec.rs`, `limits.rs`)
*State*: the jobs, the reservation of a single-use grant, a child permit per
task, the tasks. *Operations*: `submit` (answer a known ID from its row, check
the grant, reserve, take a permit, save, spawn), the task (start the child,
collect its output, `finish`), and the error path of a completion that cannot be
saved. *Hard*: the same ID delivered again, a crash between any two of: durable
admission, start of the child, end of the child, durable completion. *Correct
if* no ID is started twice, a single-use decision of the owner pays for one run,
what a row says happened did happen, and every admitted run comes to an end.

### Grants (`grant.rs`) and permission requests (`request.rs`)
*State*: one grant slot per tool; the pending requests. *Operations*: `check`
and `check_args`; `commit`, which replaces a slot and invalidates its requests;
`remove`; `decide`, which answers a request by its ID: allow (always or once) or
dismiss. *Hard*: decisions are made in notifications that may be old, and grants
are replaced while runs under the previous decision go on. *Correct if* an old
request can never undo a later decision, and a slot is busy only for a run.

### Request delivery (`request.rs`, `local.rs`, `mesh.rs`)
*State*: outbound requests at the sender; rows and delivery receipts at the
receiver. *Operations*: queue durably, attempt, receive (with a receipt), decide.
*Hard*: lost answers, late copies, crashes around either save. *Correct if* what
was decided stays decided, and a delivery reported as made is durable.

### Job delivery (`job.rs`, `mesh.rs`)
*State*: the row of the origin, the row of the runner, calls under way.
*Operations*: queue durably, ask the runner what it knows of the ID
(`job_get_v2`), send (`exec_v2`), and apply the answer. *Hard*: a call that
timed out may still arrive; the row may have changed when the answer comes.
*Correct if* the origin shows only what the runner has saved, the composition
runs an ID once, and every order ends when machines and network come back.

### Shared history (`history.rs`)
*State*: per machine, a record of signed facts per invocation and role, a local
change counter, and per peer a cursor into the changes of that peer.
*Operations*: sign the facts a machine owns in the update that changes the row;
page through a peer's changes; merge; serve on what was merged. *Hard*: facts come
by reply, page and relay in any order; an author may be unknown on one page and
be paired later; a crash may make an author sign again. *Correct if* two facts of
one revision never differ, a cursor means everything before it was seen, and
outcomes reach every machine, and what `clix log` shows only advances.

### Storage policy (`storage.rs`)
*State*: what the store weighs: rows, history entries, saved output, receipts of
output that was given up. *Operations*: every update is normalized (receipts are
applied, double copies dropped), trimmed to the output budget, oldest first, and
accepted only if the completions of all admitted runs still fit; `clix prune`.
*Hard*: everything a later completion or pruning can add, down to the digits of a
change number, must be charged in advance; output comes back by replies and pages
from machines that kept it. *Correct if* admitted work can always end, the owner
can always make room, and what was given up stays given up.

### The dispatcher loop (`job.rs:157-312`)
*State*: the tasks under way, the next attempt of each row, and a cursor into the
sorted candidates. *Operations*: a turn joins a task, forgets rows that left, and
starts due rows behind the cursor while there are slots. *Hard*: more rows than
slots, and peers whose history is fetched for ever compete with deliveries.
*Correct if* there are never more tasks than slots and no row is passed over for ever.

### Pairing (`pair.rs`)
*State*: the trust of both machines, and the state of each handshake.
*Operations*: `clix pair` (wait for a guest), `clix pair <phrase>` (dial the
online machines one after the other), the handshake, which saves at the joiner,
then at the listener. *Hard*: it is not a distributed transaction, and owners are
told a result on both sides. Several handshakes may run at once. *Correct if* no
peer is replaced or made ambiguous, and what the owners are told is so.

### Pinned files (`pin.rs`, `pin_owner.rs`)
*State*: a tree, a baseline per peer, and a recovery journal (`.clix-recovery`)
of receipts and retained versions. *Operations*: publish one file through the
journal; inspect, keep, restore, discard; the three-way sync of two trees.
*Hard*: other programs write to the same files at any time, also through old
descriptors; the process can be killed at any step; two syncs run at once; the
answer to a commit may be lost. *Correct if* no version is lost except by an
order of the owner, a sync displaces common versions only, and trees converge.

### The rest
`daemon.rs` and `install.rs` (life cycle), `notify.rs` and `tray.rs` (desktop), `transport.rs` and `tailscale.rs` (TLS and addresses),
`cli.rs` and small files (command line). Section 7 says how far they are modelled.

### Who talks to whom

    owner --RPC--> [grants, requests, jobs, pairing, pins]
                                |  Store::update
                                v
    dispatcher --calls--> peer: exec_v2, job_get_v2, request_v2, history_page
                                |
                                v
                 admission --spawn--> task --finish--> Store::update

## 2. Modules and how they correspond to the code

Each component has a module with its state and actions, a `...Properties` module
with its type invariant, invariants, action properties and fairness, an `MC...`
module with instances for TLC and a `...Proofs` module.

| Component | Specification | Properties | Proofs | Instance |
|---|---|---|---|---|
| admission, runs, grants, requests, store | `Runner` | `RunnerProperties`, `RunnerRefinement` with `SingleUse` | `RunnerProofs` | `MCRunner` |
| a job between two machines (extends `Runner`) | `Delivery` | `DeliveryProperties` | `DeliveryProofs` | `MCDelivery` |
| request delivery | `Requests` | `RequestProperties` | `RequestProofs` | `MCRequests` |
| the dispatcher loop | `Dispatcher`, and with the deliveries it makes (extends `Requests`) `RequestDispatch` | in `RequestDispatch` | `RequestProofs` | `MCRequests` |
| shared history | `History` | `HistoryProperties` | `HistoryProofs` | `MCHistory` |
| storage policy | `Storage` | `StorageProperties` | `StorageProofs` | `MCStorage` |
| pairing | `Pairing` | `PairingProperties` | `PairingProofs` | `MCPairing` |
| publication of a pinned file | `PinJournal` | `PinJournalProperties` | `PinJournalProofs` | `MCPinJournal` |
| synchronization of two pin trees | `PinSync` | `PinSyncProperties` | `PinSyncProofs` | `MCPinSync` |

A definition marked "Mutant:" is a plausible bug: it has the parameters of the
definition that follows it, is used by nothing, and is there to be put in its
place, whereupon TLC must find a named property violated. Each property has one.

**Runner.** `mem` is the store behind the mutex, `disk` is `state.json`.
`Saved` and `SaveFailed` are the two ends of `Store::update`: the second keeps
the memory, leaves either state on the disk, and sets `writeError`. A job goes
through `Submit` (`Admit`, `Deny`, `AwaitCapacity`: the branches of `submit` and
of the dispatcher's local work), then through the spawned task (`Start`, `Exit`,
`Finish`, `Release`). `Finish` is the whole end of the task, with its error path,
which is memory only. `Release` is the drop of the child permit. `Add`, `Remove`,
`Allow` and `Dismiss` are the owner. `Crash` may come at any moment; `Restart` is
`Store::open` and `recover_jobs`. `starts`, `effect`, `serial` in a grant,
`decided` in a store, and `under` once the task is over are history variables:
they record what happened and restrict nothing.

**SingleUse** is the abstract specification of the runner: invocations live once,
and a single-use decision is free, held by one invocation, or gone.
`RunnerRefinement` maps `Runner` to it by what survives a crash (`disk`) and what
really happened (`starts`, `effect`), never by what memory says.

**Delivery** adds the origin (`known`, `saved`), its calls, stray requests and the
network to `Runner`. The runner's actions are conjoined, unchanged, with what
calls them: `HandleExec` is a submission with an answer, `RunnerAlone` is everything
the runner does that is not for the origin. `Dispatch`, `SendExec`, `Learn`, `Defer`
and `GiveUp` are the steps of one attempt of `dispatch_one`; a call that times out
(`Unreachable`) may leave its request on the wire.

**Requests** has the sender's row and the receiver's rows and receipts, each in
memory and saved, with one call per delivery and late copies.

**Dispatcher** is the loop of one machine: a `Turn` joins a task that has ended and
starts the foremost due rows behind the cursor (`Foremost`, by `Distance`), as many
as there are free slots; `Warm` is a next attempt that has come, `End` the end of a
task. **RequestDispatch** puts the deliveries of `Requests` into its tasks, next to
tasks that fetch the history of peers and come again for ever; a crash of the sender
takes tasks, next attempts and cursor with it. Its `DispatchSpec` replaces the
assumption of `Requests` that an open delivery is sent again.

**History** has per machine a store in memory and saved; rows change (`Order`,
`Admit`, `Settle`, ...) and facts are signed in the same update (`Refreshed`);
`Fetch` is the answer of `history_page`, `Apply` the merge of a page with its
cursor. A signature is what it guarantees: only authors make facts, and a fact
is merged if its authors are paired. `Shown` is the status `projected_views` gives to
`clix log`: the runner's fact, or else the origin's, or else the row, and the doubt
of a run here whose end could not be saved before all of them. A behaviour follows one
of `Plans`, the statuses its jobs may go through; it is chosen in `Init` and only
narrows what is looked at.

**Storage** has one machine's store as what it weighs. `Update` is `Store::update` as
the policy sees it: `Stored` normalizes and trims an edit, `Accepts` has the five
limits. A state to open is one that can be read (`store.rs:107`), perhaps with more in
it than the policy would have let in. The edits are those that bring rows, facts or
output: `Admit`, `Complete`, `GiveUp`, `Poll` (a runner's reply), `Fetch` (a page),
`Prune`, and `Others`, which changes the weight of everything else. `CompletionCharge`
is `completion_charge`: the state as it would be written, without its output, with a
receipt for every ID, every number at its full width, a full output budget and a reserve
per open run.

**Pairing** has a link per listener with the state of both sides of the handshake
and the messages that have left (`sent`), and a report per side and per command.

**PinJournal** is one path, its file, the names of `.clix-recovery`, and the step
of the operation that holds the journal's lock. `Kill` may come between any two
steps; `Write` goes to whatever file a descriptor was opened on (`held`).

**PinSync** is two trees with a baseline each, and any number of syncs, each at its
own step; what a sync has read before an await is kept in its record and used as
read. `LatePut` and `LateCommit` are calls carried out after their sync has
given up.

How they compose: `Delivery` extends `Runner`, and `RunnerSpec` with
`DeliveryIsRunner` shows that composing does not add behaviour to the runner.
`RequestDispatch` extends `Requests` and `Dispatcher`, and `FairRequests` with
`DispatchIsRequests` shows that the loop is an implementation of what `Requests`
assumes. `History`, `Requests`, `Pairing`, `Storage`, `PinJournal` and `PinSync` share
only the store with the runner, a durable update of other fields, and are checked alone.

## 3. What the runs check

No run has symmetry. Every run sets `CHECK_DEADLOCK FALSE`: each system comes to
rest, once all jobs have ended, all requests are answered or all trees agree,
and the bounded owner and faults are used up; that this rest is the wanted one
is what the liveness properties say.

The type invariants of `Runner`, `Delivery`, `Requests`, `History`, `Storage` and of the
dispatcher are theorems (section 5) or part of their inductive invariants, and not
repeated here.

### `runner`
One child permit, one tool, a job of a peer and a job of this machine,
permissions "once, from everywhere" and "within a time window, from the peer";
two owner decisions, one request, up to three crashes and failed saves. Two jobs are what it takes to compete for a permit and a
reservation; two decisions, to replace a grant under a run; three faults, for a
failed save, a crash and a failed recovery in a row.

- `RunsAtMostOnce`, `TruthfulStatus`: what is started, and what rows say of it.
- `OncePermission`: two runs under one single-use decision are never both going on,
  successful or of unknown result. With one permit a second run comes after
  the first one; section 5 has it for any number of permits.
- `ReservationHasRun`: a busy slot names a run, in memory and saved.
- `FreshRequests`: no request predates the last decision about its slot.
- `OutcomesFinal`, `ReservationOutlivesDoubt`: what a step may never do: change a
  saved outcome, or free a grant whose run has no known result.
- `ImplementsSingleUse`: the refinement to `SingleUse`.
- `RunsSettle`, `QueueDrains`: admitted jobs end; the local queue drains. The second supposes
  a store that admits new work: a full one keeps local jobs waiting (section 7).

### `delivery`
The same runner with an origin: two calls lost on a working network, an abandoned
request that arrives later, one fault of each side.
`OriginTruthful`: an outcome shown by the origin is in the runner's file.
`OrderedBeforeStart`: no run without a durable order. `EndsFinal`: an end is not
rewritten, whatever answers are late. `RunnerSpec`: still a `Runner`.
`OrdersEnd`: every order ends unless a machine waits for the repair of its disk.
`LossIsNoEnd` is the other half of a timeout (`job.rs`: "loss of connectivity is not
evidence that execution stopped"): while the runner can save, no row is failed for want
of an answer, whatever is lost, late or abandoned. With a runner that cannot save it is
false, which is what `delivery_regress` shows.

### `requests`
Two deliveries for one tool, so that one row can stand for both and be decided on
between them, and the history of one peer, in competition for one dispatch slot:
each of the three has to wait for the others, and the peer is always due again. Two
faults and a late copy of a delivery. `DeliveredMeansReceived`,
`OrderedBeforeReceived`, `NoRevival`; `RequestsEnd` under the fairness of the loop,
which the cursor has to earn: with scans that begin at the first row the peer starves
both deliveries. `FairRequests` is the fair specification of `Requests`, implemented
by the loop.

### `history`
Three machines in a row, where the last one reaches the runner only through a relay,
one row per page, so that every scan of two entries is a scan of several pages, and one
crash, failed save or lost call. Two plans take one job through every status, two
take two jobs through the relay, and the last machine pairs with the author late.
`FactsAreDurable` (nothing is seen that its author can lose, so no two facts of one
revision exist), `PagesMerge` (no page is ever refused: a refused page would be
refused at every retry), `CursorMeansSeen`, `LogsAgree` (what logs
show of an end is the same everywhere, and on the runner it is its row),
`ShownAdvances` (what a log shows never goes back, but for the runner's first word and
a runner that restarts with what it could save) and, under fairness, `Converges`: a
published end is shown on every machine.

### `storage`
One run here, one ordered from a peer, and one of which pages tell. Two texts, one
whose JSON weighs little more than it has bytes and one at the worst ratio; limits of
two rows, three entries and 75 bytes, and a rest of the store that weighs 0, 7, 45 or 58,
the last two beyond what admitting allows, as after an upgrade. `CompletionFits`: within
the limit, each open run can save any outcome. `PruneAccepted`: `clix prune` never adds
to the charge, is accepted within the limit and wherever the result can be written, and
keeps exactly what it was told to. `StoredOnce`, `PrunedStaysGone`, `OldestFirst`. The
numbers are small so that limits are met; a change number has base 4, so that one
gains a digit, and two receipts weigh more than a short text, as 36 byte IDs do.

### `pairing`
Three machines, two of one name once `mB` is renamed by `--name`, three listeners
and three joiners: `mA` joins `mB` (and would try `mC` next) while it listens for
`mB` and for `mC`, so that one machine is in three handshakes at once, as host and
as guest; two faults. `Unambiguous`, `TrustConfirmed`, `ReportsTruthful`.

### `pin_recovery`
One path, four journal names of which two stay free (`Reserve` is the code's
spare for a review), one edit by a program, one kill, two versions.
`DisposalInspected`, `NoVersionLost`, `ReviewEnds`. Three tokens are enough for
a stale one and a resumed one. `DisposalInspected` is about two steps: the one that
goes on to the unlink does so over the bytes its owner inspected, also when an old
disposal is resumed, and after it Clix changes nothing but to remove that version. It
does not say that the bytes which go were inspected: a program with an old descriptor
may write between the comparison and the unlink (`pin.rs:1682`, a hazard without a
property; section 6).

### `pin_sync`
One sync of each machine at once over two paths, of which the second is made by the one
edit, and one broken or late call. `EditsSurvive`: a sync displaces only what both
machines had recorded. `Settles`: while one owner goes on syncing and deciding, trees and
baselines come to agree, or they stay in `Unnamed`: the baselines differ and the trees
do, and no path is in conflict. That exception is the state `pin_unnamed` is about, and
two paths are what it takes; with one path, baselines that differ over trees that differ
are always a conflict of that path.

### Runs that find a disagreement
`runner_reapproval`, `delivery_regress`, `pin_overwrite`, `pin_unnamed`: section 6. The
last one looks only at a sync that stops alone, on two machines that are as it has read
them, so that what it names cannot be out of date.

## 4. Fairness

Safety runs state none. Where liveness is checked, it is weak fairness of what
the program itself schedules, and never of owners, peers, edits, faults or losses:

- *Tasks* (`Task(j)`, `Working(s)`, `Serve(j)`): tokio polls every spawned task, and
  no handler keeps the mutex across an await. That a command terminates is an
  assumption about the owner's tools.
- *The dispatcher* (`Submit` of own jobs, `Attempt(j)`, `Deliver(a)`, `Sync(l)`):
  its loop starts every candidate again after `poll_interval`, from a cursor that
  goes round (`job.rs:198`). In `requests` the loop itself is modelled, and fair are only
  its turns (`Dispatched`: it wakes after every poll interval and joins each task that
  has ended), time (`Warmed`) and the tasks. `Delivery` and `History` assume what
  `FairRequests` shows the loop to give a row.
- *Timeouts* (`Dead(j) /\ Unreachable(j)`): each call has one.
- *Restarts*: the service manager starts the sidecar again (`install.rs`).
- *Reviews* (`FairPin`): for an owner who looks at what stops a sync and decides on
  what he has seen, strongly fair, since an edit may make his token stale. It is an
  assumption on the owner, stated as such: `ReviewEnds` says that reviewing is enough.
- *Syncs* (`Retries`): one owner goes on syncing and choosing; `Settles` supposes that
  the other one stops taking versions of him.

`QueueDrains`, `OrdersEnd`, `RequestsEnd` and `Converges` leave out a
machine whose storage failed: the code refuses every update there until the owner
repairs it and restarts.

## 5. What is proved

Every theorem is a consequence of the specification without fairness, for any
sets of jobs, tools, machines, versions and names, any limit of children, and
any bound. Assumed are only the named `ASSUME`s of the modules: the types of
the constants, sentinels that differ from what they stand beside (`SlotMarks`: no
job is named like the state of a slot), in `Delivery`, that the origin is another
machine, and in `Storage`, that sizes and limits are naturals and what the constants of `storage.rs` guarantee (an
output fits the budget, a completion its reserve, JSON is at most `Blowup` times its
text). The proofs follow one pattern: an inductive invariant, one lemma per
family of actions, and a last step by temporal logic.

**Runner** (`RunnerProofs`).
`TypeCorrect` is inductive by itself. `RunsAtMostOnce` is not: a row may be accepted
in memory and not on disk, or the reverse, and admission looks at the memory.
`RunInv` adds that while saving works the two agree (`MemoryIsDisk`), that a task and a start exist only for
jobs both know as accepted (`TaskAccepted`), and how far task and command are
(`TaskProgress`). Then:

- `RunOnce`: no ID is started twice.
- `DurableAdmission`: whatever was started is accepted in `state.json`.
- `StatusIsTrue`: `done_ok` and `done_err` happened; a row not accepted never ran. It
  needs, beyond `RunInv`, that a row changes to an end only in `Finish`.
- `OnceIsOnce`: one single-use decision pays for one run. The invariant is
  `SpendersApart`: a serial is one decision about one slot, and while it is in
  force, on disk or in memory, the run that may spend it holds its reservation.
  A reservation freed by a known failure frees it for the next run, so "may spend"
  must leave out known failures; one kept by a crash must not.
- `RequestsAreFresh`, by `RequestsInOrder`: IDs and decisions never run ahead of the IDs
  issued, in either copy.
- `ReservationsAreHeld`: a busy slot names a run of its tool that goes on or whose
  result is unknown. The invariant `ReservationsHeld` adds that this run captured
  the grant as single-use: otherwise `finish` would not free the slot.
- `OutcomesAreFinal`. A row in memory and the saved one may differ after a failed save,
  so that neither copy says by itself what a restart will show. `OutcomesSaved` is what is
  missing: a known outcome is shown only once it is saved.
- `DoubtKeepsReservation`, by `GrantStep`: each step leaves a saved slot alone, decides
  it anew, or is the known end of the run that holds it.
- `RunnerIsSingleUse`: with the mapping of `RunnerRefinement`, the initial states are
  initial states of `SingleUse` and each step is one of its steps or a stutter. The
  mapping reads the saved rows and grants and what the commands did, never the memory.
  `RefinementInv` is `RunInv` and `SpendersApart` with two facts more: a command whose
  end nobody saw is being executed (`StartedObserved`), and serials are those issued
  (`SerialsIssued`). A lemma per action (`AdmitSimulated` ... `RemoveSimulated`) names
  the abstract step.

**Delivery** (`DeliveryProofs`). `DeliveryIsRunner`: each step of the composition is
a step of `Runner` or leaves its variables alone; with it, `RemoteRunOnce` is `RunOnce`
for an ID that is sent again and again. `DeliveryTypeCorrect` adds the origins and the
wire to the runner's types. `OriginShowsTruth`, `LossMakesNoEnd`, `OrderComesFirst` and
`EndsStay` rest on
`OriginInv`, which says what is on the way as well: a row the origin shows is behind the
saved one at most by what is no end (`RowsInStep`), no call is made before its order is
saved (`CallsOrdered`), and an answer is still true however late it comes
(`AnswersTrue`), which needs of the runner that what it answers is on disk
(`MemoryIsDisk`) and that saved outcomes stay. That last one is a result about `Runner`,
taken over by `DeliveryIsRunner`. `LossMakesNoEnd` has an invariant of behaviours in which the
runner's saving never fails (`NoOwnEnd`): no error is on its way to an origin, which is the
only answer `job.rs:390` makes an end of.

**Requests** (`RequestProofs`). `RequestTypeCorrect`, `DeliveryKept`, `OrderFirst`,
`NeverRevived`. `RequestInv` has `Backed`: what is in memory, on the wire or in an answer
is backed by what is saved. In the same module, `DispatchIsRequests`: every step of the
loop with its tasks is a step of `Requests` or a stutter, so that these results hold
for it; and `AttemptsWithinSlots`: never more tasks than slots, and each request that is
out belongs to a running task of its own delivery.

**History** (`HistoryProofs`). `HistoryTypeCorrect`, `FactsDurable`, `PagesAccepted`,
`OutcomesPublished`, `LogsAlwaysAgree`, for any machines, links, pairings and plans. What an author
has saved alone does not carry them: a save that fails may or may not have reached the
disk. `IInv` adds `OneFact` (facts of one revision are one fact), `Agreed` (while a
machine can save, it shows what it has saved), `Behind` (nobody has seen more than the
author shows, so that a fact which only reached the disk is nobody's yet) and `Logged`
(how the row and the facts of a runner go together, unsigned doubts included). Every
step is shown to write one machine's two stores in one way (`Written`), and one lemma
(`WrittenKeeps`) has the invariant of such a step: a fact is a copy of one that went
round, or the only successor of one that has not ended, saved by its author.
`CursorsAreReceipts` is about two machines and needs an argument about time: a cursor
was right when the page was made, and is right now because a log only goes on. `Follows`
is that order of logs: an entry at or below an old clock is the entry that was there. The
invariant `SeenInv` has the receipts of both stores (`Receipts`), those of the pages
on the wire (`PagesAnswer`), and that a disk is a later log than its memory
(`DiskFollows`), so that a restart takes no entry back. `LogsOnlyAdvance` adds that a later fact of the same
author is at a later stage (`FactsAdvance`) and that the row of an origin is the one its
fact tells (`OriginRow`); then `ShownIs` gives what a log shows as a function of the two
facts and the row, and `FactsGoOn` what a step may do to them.

**Storage** (`StorageProofs`), for any sizes and limits. `StorageTyped`,
`OutputStoredOnce` and `PrunedOutputStaysGone` are about receipts and copies, and the
argument never looks at what they weigh. `OutcomesCanBeSaved`, `PruningIsAccepted` and
`OldestMakesRoom` do, in three layers:

- *Sums.* The community modules define a sum by a recursive function. `SubsetInduction`
  proves what is needed of one, with the set of parts that satisfy the hypothesis in
  place of an operator: sums add (`SumPlus`), grow with their terms (`SumWithin`) and
  count (`SumCount`).
- *Weights.* `ChargeWeighs`: the charge is one sum of a `Weight` per invocation, and of
  what does not depend on them. An ID array has a comma less than IDs; a number and its
  headroom make the full width; so what adds to no weight adds nothing to the charge
  (`ChargeFollowsWeights`), and a state within its output budget can be written in its
  charge (`EncodedWithin`). A completion takes the reserve of its run.
- *Ages.* `SizeInv` adds to the first invariant that changes are numbered apart and by
  the clock (`Numbered`), that a row has a fact and a fact an entry (`Placed`), and that
  output is within its budget. Then the oldest `k` are `k` (`OldestCount`), an update
  gives up no more of them than it must (`TrimmedIsLeast`), an edit only renews entries
  (`Ahead`), and the entry of a run that ends is the newest and fits alone
  (`NewestStays`).

The proof of `PruneAccepted` corrected it: that a prune is never refused holds of the
charge, but not of the 128 MiB a state may have (section 6).

**Pairing** (`PairingProofs`). `PairTypeCorrect`, `NeverAmbiguous` (any number of
handshakes at once), `NothingConcealed`, `BothTrust`. `Unambiguous` is inductive
with the type invariant alone, since `Store::update` validates what it saves. The
reports need `PairInv`: `HandshakeOrder` (how far the sides are, which messages
left, what was written), `OneAttempt` (a command has one connection at a time and
goes on only after one that saved nothing) and `TrustSaved` (what a side has saved
is on its disk under the names both announced, because a machine with a peer
cannot be renamed).

**PinJournal** (`PinJournalProofs`). `JournalTypeCorrect`, `OnlyInspectedDisposed`,
`VersionsKept`. `JournalInv` has `Placed` (an operation has the names it works
under, staging overwrites nothing, and a descriptor always has a file) and
`Ordered` (what is compared and disposed of was inspected under the token that
ordered it, and a receipt remembers that token across kills).

**PinSync** (`PinSyncProofs`). `SyncTypeCorrect`, `EditsKept` for any number of syncs
and paths. `SyncInv` has `Grounded`: whatever a sync or a late call expects to displace
was once recorded by the machine it displaces it on, and by its peer.

Only model-checked, on the instances above: liveness (`RunsSettle`, `QueueDrains`,
`OrdersEnd`, `RequestsEnd`, `FairRequests`, `Converges`, `ReviewEnds`, `Settles`), which is out
of the prover's reach, since it rests on fairness and `ENABLED`. Every invariant and
every action property of a passing run is a theorem.

## 6. Where the code and what is said of it disagree

Each run checks one property that quotes the repository; TLC's trace is a
behaviour of the code.

| Run | Says | Does |
|---|---|---|
| `runner_reapproval` | `request.rs`: an identical re-approval is idempotent | It commits the grant again, which drops the reservation of the run that holds it |
| `delivery_regress` | `job.rs:379`: a known Running job must never regress because of a later error | A runner that cannot save answers the next query with an error, and `job.rs:390` makes that a failure |
| `pin_overwrite` | `docs/operations.md:66`: a normal sync never overwrites a path both changed | A sync that planned before another one recorded a baseline applies its old plan |
| `pin_unnamed` | `docs/operations.md:66`: a normal sync stops and names the path | After a lost commit answer and an edit of another path every sync stops at "(sync baseline)", and `clix pin conflicts` lists no path the owner could decide on |

Three behaviours the models reach are not runs. A state from before the storage policy
may be just under 128 MiB; a prune of short outputs gives back fewer bytes than its
receipts take, and then `clix prune` is refused, although `storage.rs:312` says that
removals are preserved for such a state: the charge does not grow, but
`storage::encode` refuses what is over 128 MiB (`PruneAccepted` states both). The
other two are listed as hazards: a write through an old descriptor between the last
comparison of a disposal and its unlink goes uninspected with the file (`pin.rs:1682`;
`docs/operations.md:112` promises only that observed changes are detected), and a pairing that ends
after the joiner saved and before the listener did, whereupon the listener is renamed:
the joiner refuses it as already paired, and no command forgets a peer (`pair.rs:332`).

## 7. Abstractions and what is not modelled

- *Data*: command output, binaries, phrases, keys, addresses, formats and wording
  are left out. A verdict of `grant::check` is the first error in the code's
  order; the calendar of a schedule and an expiry are a Boolean the clock answers.
- *Atomicity*: one lock, one step. A scan of a tree and an owner's inspection of a
  conflict are one step each (`PinSync`); the last look at a path and
  its replacement are one step there, and many steps in `PinJournal`, which shows
  that what comes in between is retained and can be reviewed. Some handlers that take
  the lock more than once are one step where nothing of theirs is read in between:
  `Finish` (`exec.rs:173` and `:229`), `HandleExec` of `Delivery` (`mesh.rs:309-329`),
  `Choose` (the second read of the peer, `pin.rs:1834`).
- *Bounds*: every counter a behaviour could run up is bounded by a constant named
  `Max...` in the guards, and commented where it is declared.
- *Storage policy*: `Storage` has rows, history, output and their receipts. The limits
  on requests, request receipts and pairings have the form of the two it has and are
  left out, and so are pre-upgrade rows and the figures of `clix storage`. A change
  number past the largest `u64` is not modelled (`Digits` stays at the full width). The
  other modules leave the policy out: the whole completion of a run is charged when it
  is admitted, so that it is never refused later (`OutcomesCanBeSaved`); an admission or
  an edit that is refused changes nothing, and a local job it refuses waits for capacity.
- *Dispatcher loop*: modelled with the deliveries of requests; in `Delivery` it stays
  the fairness that this shows. How long a call may hold a slot is not modelled, only
  that it ends.
- *Desktop*: a decision made there is `Allow` or `Dismiss` with an ID that may be old.
- *Pairing*: `pair_await` takes whichever receiver was set last (`local.rs:630`); this
  slot of the owner connection is not modelled.
- *Pins*: excluded paths, `pin on` and `pin off`, paging, export and a third machine
  are left out.
- *History*: of a view there is its status and whether it is verified; pre-upgrade
  records, retries grouped under one ID and paging by bytes are left out. Output is
  in `Storage`. The runner's answer takes no time in `Learn`: late answers are in
  `Delivery`, late pages in `History`.
- *Smaller cuts*: `AwaitCapacity` has the capacity error only (the other one a local job
  can meet is a failed save, after which the update that would fail its row is refused
  too); `Storage` weighs one fact per entry, fetches no pages about its own jobs, and
  gives up orders that wait but not those it has seen running; `PinJournal` keeps the
  token of the last inspection only.
- *Transport, installation, command line*: cryptography, I/O and parsing.

## 8. Plan

The order was: `Runner` first, since every promise to an owner ends in it; then
what brings work to it (`Delivery`, `Requests`); then what it publishes
(`History`); then the parts with state of their own (`PinJournal`, `PinSync`,
`Pairing`); then what all of them rest on (`Storage`, `Dispatcher`). Next:

1. `PinSync` with excluded paths, `pin on` and `pin off`, and a third machine.
2. `Pairing` with the owner connections and the receiver slot of `pair_done`.
3. An abstract specification of `History`, a set of facts that only grows, and
   `History` as an implementation of it: `FactsMove` of `HistoryProofs` is its step.
