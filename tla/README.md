# Etcd Studio in TLA+

Etcd Studio is a web administration tool for etcd clusters: a Go server with an
embedded page.  Its promise is that working on production keys through it is
safe: a write never tramples on somebody else's, what is overwritten can be
restored, and a rollback restores exactly the version that was chosen.  This
directory holds TLA+ models of the code that has to keep that promise, TLC
configurations for small instances, and TLAPS proofs for all instances.

## 1. The system

| Component | Code | State | Operations |
|---|---|---|---|
| key write handlers | `internal/app/server.go` | none between requests; locals during one | `handlePutKey`, `handleDeleteKey`, `handleRollbackKey`, with `archiveCurrent`, `rollbackTarget`, `saveSnapshot` |
| etcd client | `internal/store/etcd.go` | none; etcd's key space is behind it | `Get`, `GetAtRevision`, `Put`, `Delete`, `List`, status calls |
| history manager | `internal/store/history_manager.go` | backend, retention policy, configuration file | `Configure`, `Save`, `LatestBefore`/`ListBefore`, `UpdateRetention`, `SaveAudit`, `ListAudit`, `load` |
| history in a file | `internal/store/history.go` | JSON-lines file, index in memory, open handle | `NewFileHistory`, `Save`, `PruneKey`, `Prune`, `ListBefore`, `Close` |
| history in a database | `internal/store/history_database.go` | PostgreSQL or MySQL tables | the same through SQL, and the audit table |
| audit trail | `server.go`, `audit_file.go`, `history_database.go` | pending queue (at most 100), file or table | `recordAudit`, `saveAuditEvent`, `flushPendingAudit`, `handleListAudit`, daily pruning |
| rollback preview, version listing | `server.go` | none | `handleRollbackPreview`, `handleRollbackVersions` |
| authentication manager | `internal/auth/manager.go` | users, settings, file, sessions, temporary administrator | bootstrap, users, passwords, sessions, settings |
| permission handlers | `internal/app/auth.go` | none | login, logout, user management, `requireAuthentication`, `requireClusterAccess` |
| LDAP client | `internal/auth/ldap.go` | none | bind and look up |
| cluster registry | `internal/store/registry.go` | clusters, file, lazily created etcd clients | create, update, delete, `ClusterKV`, `Close` |
| lifecycle | `cmd/etcd-studio/main.go` | the process | start, `Shutdown` |
| browser page | `internal/app/web/app.js` | selected cluster and key, loaded revision, requests under way, dialogs | load, save, delete, roll back |
| configuration, file helpers, HTTP plumbing | `config.go`, `safefile.go`, `server.go` | none | decoding, limits, headers |

How they interact.  Every HTTP request runs in a goroutine of its own.  A write
handler asks the registry for the cluster's etcd client, reads the current entry
from etcd, saves it through the history manager, writes to etcd inside a
transaction that compares the modification revision, and hands an event to the
audit trail.  No lock spans these calls.  The manager reads its backend and its
policy under a read lock and then calls the backend without it; an administrator
changes the policy under the write lock and prunes after releasing it.  The
backends lock each call.  Writers that do not use Etcd Studio change etcd at any
time, and etcd compacts its history when it likes.

What is hard: the time between the read and the write of a handler; a deadline
that expires while a write is under way, so that the write happens after the
client was told it is unknown; prunes decided under an earlier policy; calls that
fail after they took effect; the end of the process between two steps; damaged or
replaced files.  `PROJECT.json` lists these hazards at their lines.

What makes each component correct:

- handlers: no lost update; what a write replaces is in the history; a rollback
  restores its target; an error means the key was left alone; success is real;
  every request ends.
- history manager: a revision is stored once; a prune removes only what enough
  newer snapshots outlive, on a file and on a table.
- history file: what was acknowledged survives failed calls and crashes.
- audit trail: no event is stored twice, none vanishes without a reason that is
  known, the queue is bounded, a start finds what the list shows, and pages neither
  skip nor repeat events.
- version listing: a page holds the newest versions there are, without gaps.
- authentication: there is always an administrator; nothing is configured before
  the temporary password is replaced; a password change that was overtaken by
  another password, or by a deletion, has no effect; sessions end with the rights
  they had.
- registry: a stored client belongs to the cluster's present settings, none is
  forgotten open, a request keeps the one it was given unless the cluster is
  changed; names are unique; a grant opens only the cluster that was chosen.
- page: whatever the order of the answers, a write names the cluster, key and
  revision that were read together; a rollback or deletion is of what its dialog
  shows; buttons are released.

## 2. Modules

| Module | Models | Extends |
|---|---|---|
| `Snapshots` | snapshots and what `Save`, `PruneKey`, `ListBefore` compute on those of one key | |
| `ValueHistory` | the `ValueHistory` interface as an abstract specification | `Snapshots` |
| `HistoryManager` | `Configure`, `Save`, `UpdateRetention`, `load`, `saveConfig` | `Snapshots` |
| `DatabaseHistory` | the manager over a table: prunes as separate SQL statements | `HistoryManager` |
| `FileHistory` | the append-only file, its index, crashes and file errors | `Snapshots` |
| `Etcd` | etcd's revisions as `store.Etcd` uses them | `Snapshots` |
| `KeyWrites` | the three write handlers, composed with the two below | `Etcd`, `HistoryManager` |
| `RollbackVersions` | the list of rollback targets, as functions of the state of `KeyWrites` | `KeyWrites` |
| `AuthManager` | accounts, settings, sessions, password changes, `AUTH_FILE`, the first start | |
| `Registry` | clusters, `CLUSTERS_FILE`, lazily created etcd clients, `Close` | |
| `ClusterAdmin` | deletion of clusters and grants to operators: registry and accounts together | `Registry` |
| `AuditTrail` | recording, pending queue, flush, storage, expiry and paging of audit events | |
| `Browser` | the key editor of the page, with answers in any order | |
| `KeyWritesProofs`, `KeyOutcomesProofs`, `DatabaseHistoryProofs`, `FileHistoryProofs`, `AuthManagerProofs`, `ClusterAdminProofs`, `AuditTrailProofs`, `BrowserProofs` | the theorems | the modules they are about |
| `MC...` | symmetry for TLC | the module they instantiate |

`HistoryManager` (state and code): `history` is the backend's content,
`configured` is `m.backend != nil`, `retention` is `m.retentionVersions`,
`configFile` what the configuration file says.  `Save` is three actions because
it is three critical sections: read backend and policy (`SaveBegin`), append
(`SaveAppend`), prune with the policy read first (`SavePrune`); `saving[r]` holds
its local variables.  `UpdateRetention` is two: store the policy under the lock,
prune after it.  `saveConfig` may report an error after its rename (the `Chmod`
at the end), so a failure leaves either policy in the file.  A failing backend
call may or may not have taken effect.  `Restart` ends every call and loads the
file, pruning everything with the stored policy as `load` does.

`Etcd`: `log[r]` is the write that took revision `r`, `live[k]` the modification
revision of a present key, `compacted` the oldest readable revision.  etcd is
external and taken to be linearizable.

`KeyWrites`: `pc[r]` is the call the handler of request `r` makes next, `current`
and `previous` are its Go variables of those names, `wire[r]` is a write that has
left the process.  One action per call: `Receive...` (decoding and checks),
`Archive...` (`archiveCurrent`), `Target...` (`rollbackTarget`: etcd, history,
etcd's own history), `SaveSnapshot...` (one call of `saveSnapshot`, over the
manager's actions), `SendWrite`, `EtcdApplies`/`EtcdRefuses` (the transaction at
etcd), `WriteReturns` or `WriteTimesOut`.  A write may be applied after the
deadline, after a restart, or never.  Everything the handlers refuse before they
touch a key is `Reject`.  The cluster id is left out: one cluster is modelled.

`RollbackVersions` adds no state.  `EtcdVersionsBefore` is the loop of
`etcdVersionsBefore`, a recursive function over the number of versions it may still
return; `Candidates`, `Page` and `HasMore` are `rollbackCandidates`; `Available` is
the reference they are compared with.  The preview and the rollback itself look their target up with
`rollbackTarget`, which is `Restorable` here and the `Target...` actions of
`KeyWrites`.

`DatabaseHistory`: `kind` says which storage is configured.  On a file the prunes
are the atomic actions of `HistoryManager`.  On a table `PruneKey` is
`SaveCutoff` and `SaveDelete`, with the cut-off between them in `cut`, and `Prune`
first lists its keys (`todo`).  `INSERT ... ON CONFLICT DO NOTHING` is
`AddSnapshot`.  A statement that fails may have taken effect.

`FileHistory`: `disk` is the set of snapshots in complete lines, `tail` what
follows the last newline (nothing, a torn record, or a whole record without its
newline), `corrupt` a complete line that does not decode, `orphan` that the open
handle is on a file a rename has replaced, `entries` the index.  `owed` and
`damaged` are history variables: what this process loaded or acknowledged, less
what a prune removed; and which of the two failures the code cannot undo (a
truncate, a reopen) have happened since the start.  Every call holds `h.mu`
throughout and is one action per outcome: success, failure at each step, end of
the process in the middle.  A record that is appended behind an incomplete one
shares its line: the line then fails to decode, or only its first record is read,
as `json.Decoder` does.

`Registry`: `clusters` is the map with settings and client of each cluster,
`clusterFile` the settings in the file.  `UpdateCluster` is two actions because it
reads its base in an earlier critical section, with the result in `updates`;
`ClusterKV` is two, because `NewEtcd` runs without the lock, with its variables in
`calls`.  `open` and `origin` say which clients are open and from which settings
each was created.  `saveLocked` either replaces the file or puts the memory back
and leaves either content.  Settings are name, password and the two times; a time
is the number of a reading of the clock, since `time.Now` is monotonic within a
process and no two readings are taken to be equal.  `used` remembers which ids
were drawn: 16 random bytes are taken not to repeat.

`ClusterAdmin` composes the registry with the accounts, reduced to the clusters
they grant.  `ValidateGrants` and `StoreGrants` are the two calls of
`handleCreateUser` and `handleUpdateUser`; `HandleDelete` and
`RemoveClusterPermissions` those of `handleDeleteCluster`, which returns early
when closing the client of the deleted cluster fails.  A grant is an id;
that it also remembers when its cluster was created serves the property only.

`AuditTrail`: `pending` is `s.pendingAudit`, `batch[r]` the local copy of a flush,
`saving[r]` the event a `SaveAudit` call is storing and the backend it read,
`events` what the list shows.  One action per critical section or backend call:
reading the backend, inserting, pruning, queueing, taking the queue, putting its
rest back.  The file is kept as in `FileHistory`: `disk` the complete lines (or the
rows of the table), `tail` what follows the last newline, `corrupt` a line that
does not decode, `orphan` the handle on a replaced file, and `damaged` which of the
two failures the code cannot undo, a truncate or a reopen, have happened since the
file was opened or rewritten.  `InsertFails` has all that a failed append can leave
behind: nothing, a line the list does not know, or a part of a line, to which the
next event is appended.  `Open` is `load`: it cuts off an incomplete line and
refuses a file it cannot decode.  A start that is refused (`process`) is repeated
with the same result; nobody repairs the file.  `gone` collects the events the code
gives up: dropped at the limit, expired, failed with a logged error, lost with the
process or with a file that a start refused.  `reader` is a user who pages through
the list with requests of his own, so that anything may happen between two pages: a
request carries the cursor of the page before and nothing else, and `pages` keeps
what was shown, for the properties.

`AuthManager`: `config` is `m.config`, `authFile` what the file holds, `process`
whether the process is down, about to print the first password, or up.  Every
operation holds `m.mu` from its checks to the end of `saveLocked` and is one
action; `Save` has two outcomes, and the failing one leaves either content in the
file because `Chmod` comes after the rename.  The two password changes release
the lock while they hash: `BeginChange` and `StoreChange` or `RefuseChange`, with
what they read in `changes`.  `overtaken` is a history variable: every operation that
stores a password for an account, or deletes it, puts the changes into it that had
read that account before.  It does not look at hashes, which is what the code
compares.  A login is two steps, authentication and
`CreateSession`.  `Administrating` is what `requireAuthentication` and
`requireAdmin` ask; which administrator sends a request is left open, because the
check was made earlier and the sender may have lost the role since.  A password is
its bcrypt hash, new each time one is computed; `generated` is the one of
`EnsureTemporaryAdmin`, `shown` whether `main` has printed it.

`Browser`: `page` is the script's `state` with what decides which element can be
clicked: the open dialog, `returnValue` of the delete dialog, disabled buttons,
whether `listState` covers the list.  The functions of the script are operators
from page to page, with their names; an action is a click, or the answer of one
request with the code that awaited it, which is what runs without interruption.
`page.calls` has a slot for each request under way.  A request's number and the object
`rollbackContext` are only ever compared with the current ones, so a request
carries the outcome of that comparison (`latest`), which the next request or
context takes away.  `then` and `by` say which function goes on after the answer.
The server may answer anything; the cluster a detail was read from, and what the
dialogs show, are kept for the properties.

`ValueHistory` ties the history modules together: the manager touches its backend
only as this specification allows, whether that is a table pruned in two
statements or a file (`UsesValueHistory`), and `FileHistory` implements it
(`ImplementsValueHistory`).

## 3. What TLC checks

Passing runs:

| Run | Configuration | Shows |
|---|---|---|
| `history_manager` | 1 key, 2 values, revisions to 3, 2 savers, 1 administrator, policies 0, 1, 2, file or table, faults | `OneSnapshotPerRevision`, `RemovalLeavesNewest`, `UsesValueHistory` |
| `key_writes` | 1 key, 2 values, revisions to 3, 2 requests, policy 1 | `HistoryIsFaithful`, `NoLostUpdate`, `RollbackRestoresTarget`, `OverwrittenIsArchived` |
| `key_writes_keys` | 2 keys, 1 value, revisions to 3, 1 request, 1 administrator, policies 0 and 1, pages of 1 and 2, faults | `PageIsNewest` when keys share etcd's revisions, the policy changes and etcd compacts; `RefusedChangesNothing` and `ReportedIsWritten` although the history backend fails; `EveryRequestEnds` under `FairSpec` |
| `file_history` | 2 keys, 1 value, revisions to 3, policies 0, 1, 2, all faults | `AcknowledgedIsDurable`, `AcknowledgedIsVisible`, `ImplementsValueHistory` |
| `auth_manager` | 2 users, 4 hashes, 1 password change, 1 login, faults | `AdministratorRemains`, `NothingBeforeFirstChange`, `PasswordChangeIsVerified`, `SessionsEndWithRights` |
| `cluster_admin` | 2 ids, 2 names, 1 password, 2 clients, 2 requests, 1 administrator, 1 operator, 2 readings of the clock, faults of both files | `StoredClientIsCurrent`, `NoClientLeaks`, `RequestKeepsClient`, `NamesAreUnique`, `GrantsOpenTheChosen` |
| `audit_trail` | 3 requests, one of which configures the storage, limit 1, 1 day of retention, pages of 1, days 0 to 2, file or table, faults | `NoEventTwice`, `NoEventForgotten`, `QueueIsBounded`, `ListedIsDurable`, `PagesAreComplete`, `PagesDescend` |
| `browser` | 2 clusters, 2 keys, revisions to 3, 2 requests under way | `WritesGoWhereLoaded`, `RollsBackThePreviewed`, `ListIsOfSelectedCluster`, `LockedOnlyWhileWaiting` |

The type invariant of each module is checked by one of its runs.

`key_writes` also passes with storage faults (1,621,317 states), and
`key_writes_keys` with four revisions and no faults (548,770 states); either takes
close to five minutes, so the faults are in the second only.  Several handlers together with policy changes are covered by the theorems of
section 4; so are two administrators who change clusters at the same time, two
password changes of one user, and two requests that configure the storage.

What some of the properties do not say.  `RemovalLeavesNewest` allows any policy
there ever was, so a prune under an outdated one is no violation.
`PasswordChangeIsVerified` is about the settings and the file, not about the answer
the user gets.  `SessionsEndWithRights` is about sessions that are open in the step
that revokes them: a login authenticated before that step may open its session
after it.  `NoEventForgotten` takes a queued event as there, also one that no flush
will save any more because it was queued after the flush (`server.go:992`); such an
event is lost when the process ends, or pushed out at the limit.  `ListedIsDurable`
says which failures make the file hold less than the list, not that nothing is lost
after them.  `PageIsNewest` is about one reading of the state.

Runs in which the code does not do what the documentation says:

- `browser_delete`: the delete dialog names the key that is open when the button is
  clicked, and `deleteSelected` deletes the one that is selected when the dialog
  closes.  The answer to an earlier click on another key may come in between; the
  revision is that of the other key, so the server accepts.  With `Keys = {k1}` the
  same configuration shows another way: Esc does not change `returnValue`, which is
  still "confirm" after a deletion, and deletes without being asked.
- `rollback_listed`: a version from before the compaction revision that was still
  current at it is found by reading at a later revision and listed, but
  `rollbackTarget` reads at the version's own revision, which is compacted.
- `file_history_reopen`: the pruned file cannot be opened (for instance, no file
  descriptor is left); later `Save`s are acknowledged and lost.
- `auth_first_start`: the first start stores the administrator and then prints the
  password.  If it ends in between, or writing the file fails after the rename,
  nobody knows the password, and the next start creates no other administrator.

More observations that are not runs.

- Without an expected revision, which the API does not require and the page always
  sends, a put or delete may replace a value that was written after
  `archiveCurrent` read the key, and that value is in no history.
  `OverwrittenIsArchived` is about writes that name a revision.
- A prune decided under an earlier policy still deletes after the policy became 0,
  "keep everything"; every removal leaves as many newer snapshots as some policy
  asked for, which is what `RemovalLeavesNewest` says.
- A failed truncate damages a file as a failed reopen does, the history's and the
  audit trail's: a record appended behind the remains of a failed one shares its
  line, and the next start refuses the whole file.
- Grants to deleted clusters do stay in `AUTH_FILE`, although the comment on
  `RemoveClusterPermissions` wants none to remain: when a grant was checked before
  the deletion and stored after it, when closing the client fails, when writing
  fails.  They are harmless as long as ids do not repeat, which is
  `GrantsOpenTheChosen`.
- In the page, a save whose editor was closed meanwhile is reported as an error
  although it succeeded (`Saved`); after a save, the key loaded again is the one
  open by then; and the end of one rollback takes away the context of a dialog
  opened since, whose buttons then do nothing (`Finally`).

Bounds.  `MaxRevision` bounds etcd's revisions, `MaxTime` the readings of the clock
in `Registry` and the days in `AuditTrail`, `Slots` the requests of the page under
way; all other sets are constants.  Three revisions are the fewest with a value,
its replacement and a write in between; a rollback needs a target, a current entry
and its own write, which is also three.  Two requests
are what every race here needs: the second one prunes, overwrites or archives the
same revision, and other clients are not bounded by the number of requests.
Policies 1 and 2 make prunes happen at these sizes.  Requests name revisions from
0 to the present one or none: a client cannot have loaded a later one.  In
`auth_manager` the first administrator and one more account are enough for one to
remove the other; four hashes are the generated one, the one a password change
has verified, the one an administrator sets meanwhile, and a new one; the one change
is overtaken by administrators.  In
`cluster_admin` two readings of the clock allow two clusters, or one and its
change, with two requests that create clients for it.  In `audit_trail` a limit of
1 stands for 100: three events are enough to reach it, to flush it and to put an
event back behind it; one day of retention lets an event expire by day 2; pages of
one event end between any two; the third event can share its line with a part of
the second and be followed by a refused start.  In `browser`, two requests under way are an early
and a late one, and three revisions are a current one and two to roll back to.  The
theorems below do not depend on any of these numbers.

Fairness.  `FairSpec` asks weak fairness of `Handler(r)` only: a goroutine keeps
running, an etcd call returns because of `operationTimeout`, and the history
backend answers.  Nothing is assumed of the network, of etcd, of clients or of
administrators; `EtcdApplies` may never happen.

Deadlock is checked in every run except `file_history`: a start that refuses its
file stops for good.

## 4. What is proved

`KeyWritesProofs`, for any keys, values, requests, administrators, policies and
any `MaxRevision`:

- `TypeCorrect` and `Faithful`: `TypeOK` and `HistoryIsFaithful` are invariants;
- `ArchivedBeforeOverwrite`: `OverwrittenIsArchived` holds of every step.

`OverwrittenIsArchived` is not inductive: it speaks of the moment a write is
applied, and what makes it true was done many steps before.  The inductive
invariant `IInv` follows the entry from the read to that moment.
`PendingWritesAreArchived` is its heart: from the append of `Save` on, through the
wait for etcd, past the deadline and past a restart, the entry a conditional write
would replace is in the history as long as it is the current one.  It survives the
prunes of everybody else under any policy because the current entry of a key is
newer than every snapshot of it, so every prune that keeps anything keeps it
(`PruneKeyKeepsLive`); this needs `LiveIsLatest` and `HistoryIsFaithful`.  It
survives other writes because they take a revision nobody has named yet
(`ExpectedIsPast`), so the pending write will be refused.  `LocalsAreVersions`,
`SavesAreOwned` and `WireIsOwned` say what each handler knows about its own
variables, its `Save` and its message.  The proof has one lemma per action; steps
that only shrink the history to a prune of itself share `HistoryStep`.

`KeyOutcomesProofs` builds on `IInv`:

- `NoUpdateIsLost`, `RollbacksRestore`, `RefusalsAreFinal`, `ReportsAreTrue`:
  `NoLostUpdate`, `RollbackRestoresTarget`, `RefusedChangesNothing` and
  `ReportedIsWritten` are invariants.

The added invariant is `OInv`.  For each request, `TargetIsKept` says that from the
lookup on the value a rollback holds, sends and has written is the one its target
revision has in etcd's log; `WrittenIsOver` that a write is in the log only if its
request has sent it and its message is no longer waiting, so that it is never applied twice;
`AnswerIsTrue` ties the answer to the result of the message.  `LatestIsLive`, the
converse of `LiveIsLatest`, is what makes the comparison of revisions exclude a
lost update.

- `PagesAreNewest`: `PageIsNewest` is an invariant, for every page size;
- `ListedRestorable`: what `rollback_listed` refutes holds of every listed version
  that is stored or whose own revision is not compacted.

Both follow from `IInv` alone, by lemmas about sets of revisions and about the walk.
`WalkFindsNewest`: for every limit, `EtcdVersionsBefore` returns the newest of
what can be reached (`Reach`): the version found at a revision, and then what is
reached from just before it (`FoundAndBefore`), or nothing at all
(`NothingFurther`, because the last write of the key up to there was a deletion or
is compacted).  The induction over the limit is a least counterexample, which
`WFMin` of the library provides for sets ordered by inclusion (`SmallestSet`,
`SmallestNumber`).  `PageOfMerged`: of two sources, one more than the page has room
for of either is enough to find the newest of both and to tell whether there are
more, also when they overlap.

`DatabaseHistoryProofs`, for any keys, values, requests, administrators and
policies, on a file and on a table:

- `TableTypeCorrect`, `RevisionsAreUnique`: `DBTypeOK` and
  `OneSnapshotPerRevision` are invariants;
- `RemovalsLeaveNewest`: `RemovalLeavesNewest` holds of every step;
- `TableImplementsValueHistory`: the behaviours are those of `ValueHistory`.

A prune in two statements removes rows by a cut-off that may be old when it is
used.  The invariant `EnoughStay` says why this goes well: from the moment it is
read on, at least as many rows at or above the cut-off are there as some policy
asks for.  Inserts only add to them; another prune may remove some of them, but
then its own cut-off is higher, and by the same invariant enough rows stay above
that one.  The refinement needs, for a given cut-off, the number of rows a policy
would have kept: the rows at or above it are the newest ones, so the deletion is a
`PruneBelow` for that policy.  Cardinalities are finite because revisions are
bounded (`RevisionsAreSaved`), and one snapshot per revision makes "newer" a total
order.

`FileHistoryProofs`, for any keys, values and policies:

- `FileTypeCorrect`, `Visible`: whatever fails, a running process finds what it
  acknowledged (`AcknowledgedIsVisible` is inductive with the types);
- `Durable` and `FileImplementsValueHistory`: from a start until a truncate of
  `rollbackAppend` or the reopening after a prune fails, what was acknowledged is
  durable and every step is one of `ValueHistory`; `IntactFileIsValueHistory` is
  the whole specification for a file on which these two never fail.  The invariant
  is `IndexIsFile`: while the process runs the index is exactly the file, which
  ends in a newline, and the handle is on that file.  Neither condition can be
  dropped; `file_history_reopen` shows it for the second.

`AuthManagerProofs`, for any users, hashes, concurrent password changes and
logins, with failing writes and restarts:

- `AuthTypeCorrect`; `AdministratorAlwaysRemains` and `FirstChangeComesFirst`:
  `AdministratorRemains` and `NothingBeforeFirstChange` are invariants;
- `ChangesAreVerified` and `RightsEndSessions`: `PasswordChangeIsVerified` and
  `SessionsEndWithRights` hold of every step.

`AuthTypeCorrect`, `AdministratorAlwaysRemains` and `FirstChangeComesFirst` together
are inductive (`IInv`).  The argument is that every
operation saves settings that are `Good`: an administrator is left and no account
is marked as temporary.  Administrators act only when some administrator is not
marked, and by `NothingBeforeFirstChange` marked accounts exist only in the first
settings, which have no other account (`AdministratingUnmarked`).  What is saved
reaches the memory, the file, or only the file; since both are always either good
or the first settings, it does not matter which one a restart finds (`SaveKeeps`).

That a change which was overtaken is noticed is an invariant, `OvertakenNoticed`:
the account is gone, or its hash is another one than the change has read.  It is
kept because a new hash differs from every hash that a change under way has read
(`NewHashDiffers`), whatever was stored or deleted in between.

`ClusterAdminProofs`, for any ids, names, clients, requests, administrators and
operators, with failing writes of both files and restarts:

- `ClusterTypeCorrect`, `StoredClientsAreCurrent`, `NoClientIsLeaked`,
  `RequestsKeepClients`, `NamesStayUnique`, `GrantsKeepTheirMeaning`: the six
  properties of the run are invariants.

Together they are not inductive; `CAInv` adds three facts.  `ClientsHaveOwners`: a
client that is not stored yet belongs to one call and to nobody else, and a
returned one is stored, if at all, under the cluster of its call.
`TimesTellApart`: the settings an update is about to store have an `UpdatedAt`
nothing else has, so a call whose cluster shows the time it read has read the
present settings; this is what makes comparing times in `ClusterKV` enough.
`IdsAreDrawnOnce`: all who mention an id (map, file, updates, grants in memory, in
the file and on their way) mean the same creation, and the id has been drawn, so
`newClusterID` does not return it again.  The proof has one lemma per action and
part of the invariant.

`AuditTrailProofs`, for any finite set of requests, any limit, retention and page
size, on a file and on a table, with failing calls and restarts:

- `AuditTypes`, `NothingRecordedTwice`, `NothingForgotten`, `ListIsDurable`,
  `PendingIsBounded`, `PagingIsComplete`, `PagingDescends`: the seven invariants of
  the run.

`NoEventTwice` and `NoEventForgotten` count copies; what is inductive says where an
event is.  `TrailInv` has `EachInOnePlace` (with its handler, in the queue, in the
batch of one flush, in one row being saved, or stored), `NoneForgotten` (in one of
these, or known to be gone) and `OwnEventLast` (a flush saves its own event after
the batch).  What is stored includes a line that only lacks its newline, because
the next append completes it.  `FileSound` is `ListedIsDurable` with what makes it
inductive: an incomplete or undecodable line is there only after a truncate that
failed, and the handle is on a replaced file only after a reopen that failed.
`FlushesAreBounded` is the reason for both halves of `QueueIsBounded`: unless a
storage was closed in between, at most one request is flushing, and only then may a
batch be put back behind a queue that has filled up again, once.

`ReaderKeepsUp` is about the reader: the cursor is the lowest event of all pages
shown (`CursorIsLowest`), and of the events he began with, those still listed were
shown or lie below it.  Hence a request that carries only the last cursor continues
below everything seen, which is `PagesDescend`.  It needs that an event which has
left the list does not return: `NoneWaitsAgain`, proved of every step.

`BrowserProofs`, for any clusters, keys and revisions and any number of requests
under way:

- `PageTypes`, `WritesAreWhereLoaded`, `RollbackIsOfPreviewed`, `ListIsOfCluster`,
  `LocksAreReleased`: the five invariants of the run.

The first four follow from `PageInv`.  Its part `Coherent` relates the open detail,
the dialogs and every request to each other: the detail is of the selected cluster,
a request that is still the latest of its function was sent for what is open now, a
rollback's context is of the detail the dialog was opened on.  `Listed` does the
same for the list of keys.  Both are stated of a page rather than of the state,
because an action is a chain of the script's functions: each function has a lemma
that it preserves them, and an action composes the lemmas.  Locks need a second
invariant, `Waiting`, with the function that is running as a parameter: every
locked button waits for a request whose answer ends in its release, but for the
one the running function itself will release.

Assumptions: clients send expected revisions they have loaded (0 to the present
one) or none; etcd is linearizable and a revision has one value; in `KeyWrites` the
history backend is a `ValueHistory` whose calls may fail with or without effect;
readings of the clock differ, and random ids do not repeat; constants are as the
named `ASSUME`s say (policies are naturals, `Nil` is no number, `Deleted` no value,
`External` no request, audit requests are finitely many, pages have room for at
least one version).

Only model-checked: liveness, that is `EveryRequestEnds` (temporal reasoning under
fairness is out of the prover's reach).  Every other property of a passing run is
stated by a theorem.

## 5. Not modelled

- Power loss: `FileHistory` ends the process, not the operating system.  The
  directory is not synced after the rename, so a file system may undo it.
- Several clusters in one history, and a cluster id that comes to mean another
  etcd: revisions then repeat with other values.
- Several servers on one database: more requests and administrators as far as the
  tables are concerned, but each server keeps its own policy until it restarts.
- Interleavings inside one listing of versions: the handler only reads, and what
  is chosen is looked up again.
- The filters of the audit list.  A start that fails because of the value history
  is in `FileHistory` only, one that fails because of the audit file in
  `AuditTrail` only.
- An administrator who repairs, moves or deletes a file the start refuses.
- The rest of the page: login, users, audit list and settings, the connection
  status, the text the user types, and the return to the login page after a 401.
  The `close` event of a dialog runs a task later than the click; `Browser` takes
  both as one step.
- LDAP, configuration, path checks, TLS, HTTP decoding and error texts: stateless
  or pure I/O.  `Status`, `Test`, `TestCluster`, listings of keys and clusters,
  health checks: they change nothing.  `Shutdown`, which only gives handlers time.
- Leases, create revisions, versions and times of entries: they are carried along
  and decide nothing.

## 6. Plan

Done: the write handlers, the history with both backends, authentication, the
registry with grants, the audit trail, the version listing and the key editor of
the page; and for each of them the theorems of section 4.  What could be added:

1. The relation between the components: `AuditTrail` takes its events from any
   request, and that a success of `KeyWrites` (`audited`) becomes one of them is
   only by construction.
2. The other violation runs under the condition that excludes them, as theorems:
   that what is deleted was confirmed when no other key's answer is awaited, and that
   a first start that is not interrupted leaves an administrator who can log in.
