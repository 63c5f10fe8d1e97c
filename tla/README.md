# VSAT Cluster v2: TLA+ models, checks and proofs

This directory holds a verification development of `vsat-webapp`, the Go program
that manages LXD containers ("VSatellites") on one host. It models the parts of
the program in which state is shared, lost or changed in several steps, checks
the models with TLC, and proves what matters most with TLAPS.

## 1. Inventory

| Component | State | Operations | Talks to |
|---|---|---|---|
| Container pool (`lxdctl`: List, Launch, Remove, EnsureImage, WarmPool; `handleAdd`, `handleRemove`) | none of its own: LXD's instances | add, remove, warm-up at start | LXD through `lxc` |
| Post-launch provisioning (`lxdctl`: PostLaunch and its helpers) | one goroutine per launch; the container's files; the k9s cache file | fix script with retries, finalize, k9s, IPv6 | the container, by name; the cache written by the warm-up |
| Install and removal of a VSatellite (`vsatinstall`, `handleInstall`, `handleRemove`) | the tenant's edge instances, the agent in the container, the metadata map | install (CCM, NGTS), uninstall, tenant clean-up | the tenant's API, the container, the configuration |
| Configuration store and setup (`config`, `handleSetupSubmit`, `saveContainerMetadata`, `removeContainerMetadata`) | `s.cfg` under `s.mu`; `config.enc`, `config.key` | load, save, first-run setup | the handlers above |
| Sessions (`auth`) | none (signed cookies) | issue, verify, clear | configuration (secret) |
| Monitoring (`metrics`) | previous samples, rows | poll every 5 s, snapshot | LXD metrics, `/proc` |
| Web terminal (`webterm`) | one PTY and two copy loops per socket | open, copy, resize, ping, close | `lxc exec` |
| Container names (`ValidateName`, `suggestName`) | none | validate, suggest | pool |
| Routing, templates, TLS, `main`, host scripts | none, or set once | - | - |

Nothing coordinates the handlers: each request is a goroutine, the only lock is
`s.mu` around the configuration, and every `lxc` command and every tenant call
belongs to the request's context, so it dies with the browser's connection. The
app has no persistent state but two files, and systemd restarts it
(`Restart=on-failure`). What is hard here, and hard to test:

* **check, then act**: the cap test and `lxc launch`; the setup gate and the
  save; the search for a key and its creation; the list of stale edge instances
  and their deletion;
* **half-done sequences**: an install is nine calls to three parties, a removal
  is four; any call may be the last one before a failure, a cancelled request or
  a restart;
* **goroutines that outlive what they were started for**: PostLaunch knows its
  container by a name that may be given to another container meanwhile;
* **retries over partial effects**: the fix script, and a removal tried again
  after some of its deletions succeeded;
* **sessions that any of several parties may end first**: a terminal is a page,
  a connection, a process and three goroutines, each of which learns of the end
  of another through a third, in reads and writes without a deadline;
* **readings of different moments put together**: a row of the monitoring table
  joins a list, two samples and counters that restart; a login checks a password
  in one configuration and signs a cookie with the next.

`PROJECT.json` lists these hazards line by line with the properties aimed at each.

What makes each component correct, in a sentence: the pool keeps near its cap, by
a margin that can be named; provisioning never makes journald loop unless two
containers of one name overlap, and always ends; the metadata on disk leads to
every edge instance until that instance is gone, and no removal touches another
container's; the two files decrypt to the configuration in use at every moment;
nothing signs a user out before their time; no rate in the monitoring table
counts work that was not done; a terminal shows what its process wrote, in order
and, if it says so, in full, and cleans up after itself.

## 2. Modules

| Module | Models | Checked by |
|---|---|---|
| `ContainerPool` | instances on the host, adders, removers, the start-up goroutine, restarts | `pool_*` |
| `PostLaunch` | one name, its successive containers and their goroutines | `postlaunch*` |
| `EdgeLedger` | abstract: which edge instance belongs to which container, written down before it exists | as a property of `Lifecycle` |
| `Lifecycle` | container, edge instances and metadata under install and removal | `lifecycle*` |
| `DurableConfig` | abstract: a configuration in use and one that is safe | as a property of `ConfigStore` |
| `ConfigStore` | `s.cfg`, `config.enc`, `config.key`, `s.mu`, setup and saves | through `Sessions` |
| `Sessions` | cookies and sign-in; EXTENDS `ConfigStore` | `config*` |
| `TerminalStream` | abstract: an output stream that is complete, or known to be broken | as a property of `WebTerm` |
| `WebTerm` | page, socket, the three goroutines, PTY, process | `webterm` |
| `Metrics` | the poll, samples, rows, containers and devices that come and go | `metrics` |
| `..._proofs` | theorems about the module of that name | TLAPS |
| `MC...` | the module TLC runs, with its symmetry set where there is one | |

### ContainerPool

`instances` is what LXD has: *stopped* is an instance that `lxc launch` created
and has not (or never) started. `launch[a]` and `remove[q]` are the places where
the goroutines of `handleAdd` and `handleRemove` are between two commands;
`warm` is the start-up goroutine of `server.New`. `LaunchCheck` is everything
`Launch` does up to the command (the tests on one `lxc list`), `LaunchCreate`
and `LaunchStart` are the two effects of `lxc launch`, `LaunchAbort` a failure
or a cancelled request at any point. A cancelled request, or a restart of the
app, kills the `lxc` client but not the operation it asked LXD for:
`LaunchOrphaned` and `Restart` may leave a creation in `late`, which `LateCreate`
ends; `killed` counts them. `List` leaves the warm-up container out, as
`parseContainers` does, while `AllNames` keeps its name among those a user may
ask for, as `ValidateName` accepts it.

### PostLaunch

One name; `gen` counts the containers launched under it and `job[g]` is the
goroutine of the g-th launch. The box is the part of a container's file system
the code cares about: the provider unit (file, enabled, started), `/dev/kmsg`,
whether journald was started over it (`looping`), k9s, IPv6. The fix script is
two steps, because the container may go away between them; its first half may
do less than all of its `&&` chain and still go on, because of the `;` after it.
`disturbed` is a history variable that only properties read.

### Lifecycle

`edge[c]` is the tenant's edge instance registered with pairing code `c` (a code
has `reuseCount` 1, so it names the instance), `agent[n]` what runs in container
`n`, `mem` and `disk` the metadata in `s.cfg` and in `config.enc`. One action
per call: `InstallBegin` (region, tenant details, first save), `PurgeList` and
`PurgeDelete` (`deleteStaleEdgeInstances`), `Pair` (pairing code, second save),
`RunInstaller`, `PollActive`, `Rename`, `SaveResult`; and `Uninstall`,
`ReadMeta`, `FindEdge`, `DeleteEdge`, `DeleteContainer`, `Forget`. Commands and
calls that change something outside the app may fail before or after their
effect: the agent registered, the instance was renamed, the agent or the
container is gone, and the handler returns with an error all the same. (For the
removal's DELETE that is `DeleteEdge` followed by `RemoveFails`.) What goes on in
LXD or in the container after its client was cut off takes effect at once or not
at all. The tenant (`EdgeUp`, `EdgeDown`, `ForeignJoins`) is external, and holds
instances of other hosts too: `Foreign` ones, which may have the name of one of
our containers, may be purged when they are stale and may be taken for ours by
name. `InstallCCM`
and `InstallNGTS` take the same steps; CCM may go without tenant details.

Nothing keeps requests apart, makes an operator install once, makes the tenant
answer or a save or load succeed, and the model assumes none of it. It names
what may go wrong and remembers where, in the history `spoiled`: a container
meets an *incident* when

| Incident | Happens |
|---|---|
| `overlap` | a request for it begins while another one works on it |
| `again` | an install begins while an edge instance of it is registered |
| `unknown` | `fetchTenantMetadata` fails, so that nothing is saved |
| `unsaved` | a save of its metadata fails, which is only logged |
| `unread` | the app starts without reading its files, and the setup that follows saves a configuration without metadata |

and also when a foreign namesake is taken for its own instance, or when it is
launched while a request for its name is still at work or a change unsaved. A
removed container's name starts afresh. `Cleanable`, `NoOrphanMade` and the
ledger speak of containers that met none, whatever others met; each kind is a
real step of the code, and without its exemption TLC finds `Cleanable` violated
(`NoOrphanMade` for a namesake). `RemovalSparesOthers` exempts nothing.

`EdgeLedger` is what all of this amounts to for the tenant: containers, where
each edge instance is registered, and a ledger with one entry per container. An
entry may be written or erased only while the container is empty, an instance
registers only where the ledger says, at most one per container and once in its
life, and a container goes only when it is empty; a container that met an
incident is given up, and its name may come back. `ImplementsLedger` maps
`disk[n].code` to the entry of `n` and `edge` to the places, so it is about the
file and not about memory: a call that fails after its effect, a cancelled
request and a restart are each a step of the ledger or a stutter.

### ConfigStore

`Store.Save` in the steps a crash or another save can come between: is there a
key, create it, write the blob. A setup request saves without `s.mu` and takes
it only in `applyConfig`; a metadata change holds it throughout. A configuration
is the setup that made it and a revision. `Restart` ends with the configuration
in the files or with none: `New` ignores every error of `Load`, so that intact
files that could not be read leave the app unconfigured and `/setup` open.

`SetupInTurn` says that setup requests do not overlap. The code does not see to
that, and `config_setup_once` shows what an overlap does to the password and the
secret in use. The `config` run and the theorems about the store assume it all
the same, because that overlap is the only thing they have to assume away: an
operator sets the app up once, by hand, and everything else that may happen to
the files (failed saves, crashes, unread files, changes meanwhile) is in the
model. Without the assumption `Reloads`, `StaysLoadable` and
`ImplementsDurable` are false.

`DurableConfig` is the store without files, key and lock: one configuration in
use, one that is saved. A setup, while nothing is in use, replaces what is saved;
a change makes a new revision of the one in use, a save makes it the saved one,
the end of a setup and a start adopt the saved one, and a start that cannot read
it uses none. `ImplementsDurable` maps memory to the first and what a start would
read (the file, when it decrypts) to the second.

### Sessions

`ConfigStore` with a clock and the cookies that browsers hold. The server keeps
no session: a cookie is an expiry signed with the session secret, so it is valid
while the secret in use is the one that signed it. `Verify` and `Issue` are the
two readings of the configuration in `handleLoginSubmit`; `ApplySetup` is the end
of a setup, which grants a cookie too. `SessionLasts` says of a restart that
could not read the files that they still hold the secret of the sessions it
suspends. A logout clears the browser's copy and changes nothing here.

### WebTerm

Output and input are chunks numbered in the order they were produced. `proc`,
`ptyOut`, `ptyIn` and `winsize` are the process and the PTY; `main`, `reader`
and `closer` are where `ServeWS` and its two goroutines are, `mu` is `writeMu`,
`ctx` the context that ends the process; `down` and `up` are the socket's two
directions, and the page has what it took (`screen`) and what it parsed. What is
full blocks: the PTY's buffers (`PtyCap`), the socket (`WireCap`), except for
`term.write`, which throws once too much is unparsed (`Watermark`; the bundled
xterm.js discards over 50 MB). `Cols` is what `addon-fit.js` proposes. Closing a
socket with input unread resets the connection, and some of what was on its way
to the page, from the end, is lost (`CloseConn`). A write to the PTY of a dead
process may fail or be dropped by the kernel; when it fails `ServeWS` closes the
PTY at once, and output not yet read is lost (`lateKey`). The process owes nobody
a read: `HeldUp` is the state in which the loop waits in `pty.Write` for one that
does not, and the one exception of `LeaveEnds`. `NothingLeft` is about the
process, the socket, the lock and the three goroutines of `ServeWS`; the
goroutine with which `exec.Cmd` watches its context is left behind by every
session, since `Close` calls `Process.Wait` and nobody `Cmd.Wait`.

`TerminalStream` is what the page may rely on: chunks in order, none skipped
while the session is sound, everything there when it ends with a close frame,
and after a loss nothing but later chunks.

### Metrics

One cumulative counter stands for a container's CPU time and for disk and network
bytes, of containers and of the host, which all go through `rate`. (The host's
CPU share, memory and the scaling to percentages are left out.) It starts at zero
with the container and is a sum, over interfaces and devices that may go away
(`Shrink`). `PollList`, `PollHost` and `PollQuery` are the three calls of a poll,
each with its failure; between them containers start, stop, are deleted and
created again. LXD may answer in part: a counter it leaves out is zero in the
sample, and without memory or CPU series a row has no numbers. `Publish` is the
critical section: rows and samples together.

A rate is a growth divided by a time. The growth is `work`, which `NeverInflated`
compares with `true`, the work really done since the sample (a history,
`since`). The time is that between the stamps of two polls, and a poll is stamped
before its calls: `late` is how long after its stamp a sample was taken, so the
time between the samples differs from the divisor by `off`. No run and no
theorem says that a rate is right: it counts no more than what was done, over a
time that is off by no more than what a poll takes (`MaxLate`).


## 3. Runs

Bounds are small because the interesting cases are: two requests that overlap,
one crash, one reuse of a name.

| Run | Bounds | Shows |
|---|---|---|
| `pool_pair` | 4 names, 2 adders, 1 remover, cap 2, 1 restart, 1 creation that outlives its client | `TypeOK`, `PlacesTaken`, `CapBound`, `WarmSettles` |
| `pool_hard_cap` | 3 names, 2 adders, 1 remover, cap 2 | violated: the cap is not hard |
| `pool_removable` | 1 name, cap 1 | violated: a half-launched container cannot be removed |
| `postlaunch` | 2 launches of the name, 2 attempts, 1 restart | `TypeOK`, `LoopNeedsOverlap`, `KmsgFollowsUnit`, `OkMeansK9s`, `GoroutinesEnd` |
| `postlaunch_guarantee` | 1 launch, 1 restart | violated: the workaround is not guaranteed |
| `lifecycle` | 2 containers, 2 codes, 1 foreign instance, 1 installer, 2 removers, 1 restart, namesake or incident of any kind | `TypeOK`, `Cleanable`, `NoOrphanMade`, `RemovalSparesOthers`, refinement of `EdgeLedger` |
| `lifecycle_orphan` | 1 container, no tenant details | violated: an edge instance is left behind |
| `lifecycle_removable` | 1 container, fair operator | violated: a removal that half succeeded can never finish |
| `config` | 2 setups in turn, 2 savers, 1 login, revisions up to 2, 2 restarts, sessions of 1 tick of 2 | `TypeOK`, `Reloads`, `StaysLoadable`, `SessionLasts`, refinement of `DurableConfig` |
| `config_setup_once` | 2 setups that may overlap | violated: a setup replaces another one in use |
| `webterm` | 2 chunks each way, buffers of 1, 1 resize, 2 widths (one below the least number of columns) | `TypeOK`, `InputInOrder`, `SizeFollows`, `NothingLeft`, `NeverStuck`, refinement of `TerminalStream`, `ExitEnds`, `LeaveEnds` |
| `metrics` | 1 container that does work up to 2, an idle host, samples late by 0 or 1 | `TypeOK`, `NeverInflated`, `RowsSettle` |

Why the bounds are enough: four names let the pool be one over a cap of two, with
a creation still to come, and have a name to add; two generations are what it
takes for one goroutine to meet another's container (a third adds no new pair);
two attempts give a retry and a last failure. In `lifecycle` two codes let two
containers be installed, or one of them again, and two removers let two removals
of a name overlap or one meet the leftovers of another. `MaxMishaps` counts
restarts, namesakes and incidents together, and one at a time is what the run
affords: a container may meet one incident or none while everything else goes on,
and the theorems take any number and any mixture of them. A restart may come at
every step, and the modules keep nothing across it but what LXD, the tenant, the
files and the browsers keep. Two restarts in `config` are one that reads the
files and one that does not, in either order. Two chunks through buffers of one
let every buffer be full with one more chunk waiting, and a skipped chunk be
followed by another; a watermark of zero makes xterm.js discard. Two containers
do not meet in the collector, which treats each by itself, so one is enough; work
of two is a sample, more work, and a counter that restarts, shrinks or is left
out. The host's row is computed like a container's and is sampled in the run
without work of its own; the theorem has no such bound.

`CHECK_DEADLOCK FALSE` is set where the system may stop: a pool full of
half-launched containers accepts neither an add nor a removal, the configuration
runs use up their requests, and a terminal session that is over stays over.

**Fairness.** `WarmStep` and each `PostLaunchStep` are weakly fair: they are
goroutines with a background context, and each command or timer they wait for
returns. In `WebTerm` the three goroutines, the page's events and the kill that
follows a cancelled context are weakly fair, each goroutine as a whole: it takes
a step when it has one, and a blocked write has none. The process need not write,
read or end by itself. `Metrics` has `WF(Poll)`: `Run` has a ticker and never
returns while the app runs, and each `lxc` call is assumed to return, because a
poll has no timeout of its own. The two `PersistentSpec`s are for runs that are
violated: they assume more than the code has (an operator who keeps asking, calls
that do not fail for ever), so that the counterexample cannot be laid to anyone
giving up.

## 4. Proofs

TLC's runs are small instances; the theorems hold for every value of the
constants, under the assumptions the modules name (`PoolAssumption`,
`PostLaunchAssumption`, `LifecycleAssumption`, `ConfigAssumption`,
`SessionsAssumption`, `TermAssumption`, `MetricsAssumption`: the sets are finite
where they are counted, `None` and the like are not members of them, bounds are
naturals, buffers hold something).

| Theorem | States | Further assumption |
|---|---|---|
| `ContainerPool_proofs!Typing` | `[]TypeOK` | |
| `PlacesBounded`, `CapOverrunBounded` | `[]PlacesTaken`, `[]CapBound` | |
| `PostLaunch_proofs!Typing` | `[]TypeOK` | |
| `NoLoopAlone`, `KmsgProvided`, `OkInstallsK9s` | `[]LoopNeedsOverlap`, `[]KmsgFollowsUnit`, `[]OkMeansK9s` | |
| `PostLaunchIsBounded` | a goroutine has at most `2 * Attempts + 5` steps, and nothing gives it more | |
| `Lifecycle_proofs!Typing` | `[]TypeOK` | |
| `RemovalIsLocal` | `RemovalSparesOthers` | |
| `InstancesComeOnce` | an instance never changes its container, and a deleted one never comes back | |
| `AlwaysCleanable`, `NothingOrphaned` | `[]Cleanable`, `NoOrphanMade` | |
| `KeepsALedger` | `ImplementsLedger` | |
| `EveryInstanceTraceable` | an instance in a container without an incident has its container, and the file names it there; such a container has at most one | |
| `ConfigStore_proofs!Typing` | `[]TypeOK` | |
| `SetupSurvives`, `FilesStayLoadable` | `[]Reloads`, `StaysLoadable` | `SetupInTurn` |
| `StoreIsDurable` | `ImplementsDurable` | `SetupInTurn` |
| `OnlyNewestChangesLost` | what is in use is what is saved, or a later revision of it | `SetupInTurn` |
| `SavedNeverGoesBack` | the saved revision never gets older, but by a setup made while nothing is in use | `SetupInTurn` |
| `SessionSurvives` | `SessionLasts` | `SetupInTurn` |
| `Metrics_proofs!Typing`, `RowsHonest` | `[]TypeOK`, `[]NeverInflated` | |
| `WebTerm_proofs!Typing` | `[]TypeOK` | |
| `SessionCleansUp`, `SizeArrives`, `InputArrives` | `[]NothingLeft`, `[]SizeFollows`, `[]InputInOrder` | |
| `NoDeadlock` | `[]NeverStuck` | |
| `TerminalImplementsStream` | `ImplementsStream` | |
| `OutputInOrder` | output rises on the screen, and is all there when the page saw the close frame and nothing was lost | |

**The pool.** `CapBound` is not inductive: a request that has passed the cap
test will add a container whatever the list says by then, and so will a creation
whose client is gone. `PlacesTaken` counts both already: listed containers,
requests past the test (`Creating`) and creations in `late` together never exceed
`Max - 1 + Cardinality(Adders) + killed`. The test lets a request into `Creating`
only below the cap, and at most `Cardinality(Adders) - 1` others are there;
`LaunchCreate` and `LateCreate` move one into the list; cutting a request off
moves it to `late` and raises `killed`; everything else shrinks one of them.

**Provisioning.** journald spins when it is restarted over `/dev/kmsg`, so the
invariant says what holds between the two halves of the script: in the
container's own one `/dev/kmsg` is gone (`KmsgRemoved`), and a script of an
earlier generation has marked the container (`ScriptsHere`), because no script
outlives the container it started in. `UnitAfterFix` is what `KmsgFollowsUnit`
needs: the first half removes `/dev/kmsg`, so the unit must not count as started
by then. `PostLaunchIsBounded` is what there is to prove of `GoroutinesEnd`: `Left`
counts the steps a goroutine may still take, its own steps lessen it, and no
other step of the system raises it (`NotYet`: a generation without a container
has no goroutine). That a goroutine does take its steps is fairness, and TLC's.

**Removal.** That a removal spares other containers holds because identifiers do
not travel between names. `Inv` says so: there is a function `o` that gives
every pairing code one container, and whatever memory, file, install, removal or
tenant hold about a code, they hold for that container (`OwnedBy(o)`). The
function is not a variable, so the invariant is existential; a step keeps `o`,
except `Pair`, which gives the new code to the container it pairs, and needs
for that that a new code is nowhere yet (`Consistent`). Only a match by name can
reach an instance that is not ours, and only under the removed name. Nothing is
used of what operators, the tenant or the file system do. `InstancesComeOnce`
rests on `Fresh`: until a code pairs, one install at most has it.

**The store.** `Reloads` speaks of memory and two files; what makes it inductive
is what each request in progress knows: a key about to be created does not exist
(`KeyKnown`), the one a blob is encrypted with is the one in the key file, only
one request saves at a time (`OneSaver` for metadata changes, `OneSetup` for
setups, which is where `SetupInTurn` comes in), and a setup that has saved has
the files (`FilesAgree`). The same invariant, with the key of the file beside it
(`FileFits`), maps each step to one of `DurableConfig`: the write of the blob is
the moment a setup or a save takes effect, and the steps before it are stutters
(`SaveStepDurable`, `OtherStepDurable`). A start that could not read the files
leaves them alone and nothing in use, which is when a setup may replace them. The
session theorem adds to it that no step but such a start changes the owner of the
configuration in use (`OwnerKept`), and that the files then hold that owner.

**Removal leaves nothing.** `Cleanable` speaks of the registered edge instance;
an instance registers long after its code was made, and by then the removal may
be anywhere. `Tidy` says what each request knows about the container it works on,
as long as that met no incident: it is alone on it (`Alone`), a registered
instance has its container, whose metadata in file and memory has its pairing
code (`Sound`, `Ground`), an install's container has no instance until its agent
pairs, and from when the code exists the metadata has it (`InstallSees`), and what
a removal found is all there is (`RemoveSees`). A step that breaks one of these for
a container is an incident of that container, which is what the invariant is
relative to: it never has to assume that no incident happens. With `Tidy` and
`Fresh` every call is a step of `EdgeLedger`: `Pair` writes the entry before the
agent registers, `Forget` erases it when the container is empty, and an incident
gives the container up (`Abandon`).

**The table.** Rows are computed from pairs of samples, so the invariant is about
a sample and the counter as it is now: a sample that has the counter is behind it
by no more than the work done since (`CounterBehind`). A restart of the container
and a device that goes away only make the counter smaller, and a rate of nothing
is no inflation. A sample is as late as its poll at most, and `off` is the
difference of two such delays. Each row is honest when it is made, also the
host's, which waits in `poll` for the rest.

**The terminal.** `Control` relates the three goroutines, the lock, the context
and the socket (who holds `mu`, that a closed PTY means a cancelled session, what
each goroutine's end implies), and gives `NothingLeft`. `Together` adds what
deadlock is made of: the three start together, each goroutine has cancelled and
closed by the time it returns, and the close frame is the closer's last message;
`SomeoneGoes` then finds the one that can go on.
The prover does not know `ENABLED`, so `NeverStuck` names the guards of each
goroutine (`MainGoes`, `ReaderGoes`, `CloserGoes`) and of the page and the process;
TLC found them equal to `ENABLED` of those actions in every state of the run. `SizeKnown` finds the
page's size in the PTY or in the last resize message on its way. `InputInv` says
that what was read, what is in the PTY, what `ServeWS` holds and what is on the
wire make one sequence 1, 2, 3, and so on. For the refinement, output still on
its way rises above the screen (`OutputRises`) and, while the session is sound,
screen, wire, goroutine and PTY together are all that was written without a gap
(`Complete`); a close frame is sent only after the end of output (`QuietEnd`).
`StreamState` maps the state, `StreamSteps` maps each step to one of
`TerminalStream` or to a stutter.

Only model-checked, because liveness under fairness is out of the prover's
reach: `WarmSettles`, `GoroutinesEnd`, `ExitEnds`, `LeaveEnds`, `RowsSettle`.
Every safety property of a passing run is also a theorem.

## 5. Disagreements between the code and what is written about it

`PROJECT.json` quotes them under `findings`; each is a run of its own:

1. the "hard cap" is exceeded by overlapping requests (`pool_hard_cap`);
2. a container created but not started cannot be removed (`pool_removable`);
3. a restart loses the "guaranteed" workaround (`postlaunch_guarantee`);
4. an install without tenant details leaves an edge instance that removal does
   not clean up (`lifecycle_orphan`);
5. a removal that failed at its last step fails for ever (`lifecycle_removable`);
6. `docs/architecture.md:27` sends `/setup` to `/` "once configured"; two setup
   requests that overlap are both past that gate, and the later one replaces the
   password and the secret of the earlier one (`config_setup_once`).

Met while modelling, without a run of their own:

* `docs/architecture.md:62` says "`Add` is fully synchronous", while `handleAdd`
  answers before PostLaunch. The page that added it reloads itself once the
  container has an address (`dashboard.html:201`), which cancels an install the
  same page has in flight.
* `docs/architecture.md:115` gives as the reason for skipping loopback that
  interfaces stacked on another are not counted twice; only `lo` is skipped.
* `docs/architecture.md:118` says a counter reset reports 0. It does when the new
  counter is below the old one; one that has already passed it shows the
  difference, which is less than what was done (`NeverInflated` allows it).
* `docs/architecture.md:120` says the previous sample is always cached after the
  first poll; a failed query forgets all of them, and the next row has no numbers.
* `README.md:109` says the NGTS install "runs preflight", which no code does.
* The warm-up fails, and `imageReady` stays false, after a restart that left
  `vsat-warmup` behind.

## 6. Not modelled, and what is next

Not modelled for good: pages and routing (no state), TLS and flags (run once),
host scripts and CloudFormation (run by hand before the app), `ValidateName` and
`suggestName` (matching on one list), parsing of LXD's metrics and the scaling of
rates to percentages, wording of errors, what xterm.js draws. With `--sudo` the
terminal's process belongs to root, and whether the app may kill it is a matter
of the host's configuration: the model assumes that it may.

What could still be added:

1. `Lifecycle`: the `vsatctl` download, whose script has no error stop, and the
   renewal of OAuth tokens in the NGTS path.
2. The image cache: `imageReady` against the images LXD has.
3. What each kind of incident costs by itself, as theorems: which part of the
   ledger survives an unknown account, and which a lost save.
4. Overlapping setups in the store's proofs: what still holds of files that two
   requests write at once.
