# Verification of herdr-plugin-msb

TLA+ models of the plugin that puts [microsandbox](https://github.com/superradcompany/microsandbox)
sandboxes behind herdr workspaces and forwards their ports to laptops, with TLC
instances that check them and TLAPS proofs of the properties that matter most.

Eight parts are modelled and checked: the **forward-request queue** between engine
and laptop, the **creation of sandboxes** with its memory admission, port block
allocation and egress check, the **space verbs**, which bind herdr's workspaces to
sandboxes and reclaim what a removed worktree leaves, the **forwarded ports** with
their status file and pane, the **supervision of the laptop agent**, the
**provisioning** of an engine behind the operator's consent, the **refresh of
credentials**, and the **exec session** on a terminal. All are also proved about.

## 1. The system

The engine is the host on which herdr and the msb daemon run. A laptop reaches
it over one ssh *control master* per engine.

| component | code | state | operations |
|---|---|---|---|
| request queue | `internal/clientagent/queue.go`, `internal/cli/cmd_herdr_plugin.go`, `cmd_ports_pane.go` | `requests.json` (pending requests, `LastConsumedID`), `requests.json.tmp`, `requests.acked` | `declare`, Enter in the ports pane, the remote mark script |
| laptop agent | `internal/clientagent/agent.go` | `lastAcked`, `seeded`, `applied`; the control master with its forwards | `Serve`, `EnsureMaster`, `Tick`, `CancelApplied` |
| sandbox creation | `internal/runtime/msb/{runtime,exec,publish,netpolicy_assert}.go` | the daemon's list of sandboxes; locals of each call | `CreateAndBoot`, `Create`, `RunEphemeral`, `Publish` |
| memory admission | `internal/core/admission`, `internal/runtime/msb/admission.go`, `internal/core/service` | none of its own: sums the daemon's list | `Admit`, `CommittedMemoryMiB`, `Decide` |
| block allocator | `internal/runtime/msb/rangealloc.go` | none of its own: reads the daemon's list | `Allocate`, `CheckCollision` |
| space bindings | `internal/core/herdrspace`, `internal/cli/cmd_herdrspace*.go`, `cmd_sandbox.go` | the bindings file (under flock), herdr's workspaces, the sandboxes | create, convert, prune, rm, default shell |
| forward sync | `internal/core/portfwd`, `fwd-sync` | `applied` of each process, the master's forwards | `Reconcile`, `TeardownSandbox` |
| status file | `internal/cli/portfwd_state.go`, `cmd_link_toggle.go`, `cmd_ports_pane.go` | `forwards.state` | upsert, whole-file rewrite, pane keys |
| agent supervision | `internal/clientagent/{proc,startup,agentrun}.go`, `internal/cli/wrap_attach.go` | pidfile, lock file, agent process, socket | spawn if absent, teardown, selection monitor |
| provisioning | `internal/clientagent/{provision,consent}.go` | version marker, binary and manifest on the engine, consent files | `EnsureProvisioned` |
| credentials | `internal/core/credmount` | credentials file, the token the server honours | `Refresh`, `RefreshFile`, `Save`, `SaveInPlace` |
| terminal | `internal/cli/terminal_linux.go`, `internal/runtime/msb/exec.go` | two bounded channels, the PTY size | resize pump, detach with timeout |
| MCP server | `internal/mcp` | none | request loop, six tools |

How they interact: `declare` and the pane write the queue file, the agent reads
it over ssh and writes the ack file back; `declare`, the pane, `ports-toggle` and
`fwd-sync` also rewrite `forwards.state`. Every creation path ends in the msb
runtime, which asks the daemon for its list before and after a create. The space
verbs join three stores that know nothing of each other: herdr's workspaces,
msb's sandboxes and the bindings file. Attach sessions share one agent per engine
through a pidfile.

Every part is a few processes that meet in files, sockets and the daemon; only the
exec session has its concurrency inside, three goroutines and two channels.

What is hard here:

* **Interleavings without locks.** The queue file, `forwards.state`, the
  credentials file and the daemon's list are read, decided upon and written with
  nothing held between. Only the bindings file and the pidfile have a lock, and
  neither lock spans a whole operation.
* **One high-water mark for a set of requests**, kept in three places (ack file,
  queue file, agent memory) that disagree after a fault.
* **Listings that are paged** while the list changes.
* **Crashes and partial failures** between a create, its read-back, the binding
  and the teardown.
* **Liveness that hangs on one process**: an agent whose master died, a request at
  the head of the queue nobody serves.

What makes each part correct: a request is forwarded or visibly pending, never
silently dropped; IDs identify requests; two returned sandboxes have disjoint
blocks; a returned sandbox denies egress by default; the budget is exceeded only
by a race, never by arithmetic; every call returns; a workspace and its sandbox
are bound one to one and neither outlives the other unnoticed; what a fwd-sync
reports as applied is forwarded; at most one agent per engine; a
version marker vouches for a whole install, and nothing is written to an engine
without consent; the live token is never lost; the terminal is never left raw, and
the guest has its size.

## 2. Modules

| module | what it is |
|---|---|
| `RequestMailbox` | what the queue promises: an ID stands for one request, nothing leaves unserved |
| `ForwardQueue` | engine writers, laptop agents, queue, ack and temporary file; implements `RequestMailbox` while calls do not overlap |
| `ForwardQueue_proofs` | nine theorems |
| `SandboxLedger` | what the runtime promises to those it hands sandboxes back to |
| `SandboxCreate` | creators against a daemon whose list is paged; implements `SandboxLedger` |
| `SandboxCreate_proofs` | five theorems |
| `BindingTable` | what the bindings file promises: whole Puts and Deletes |
| `SpaceBindings` | the space verbs, herdr, the daemon and the bindings file; implements `BindingTable` |
| `SpaceBindings_proofs` | five theorems |
| `PortForwards` | fwd-sync, ports-toggle and the pane over the control master and `forwards.state` |
| `PortForwards_proofs` | five theorems |
| `AgentSupervision` | sessions and local-agent-startup over pidfile, flocks and socket |
| `AgentSupervision_proofs` | three theorems |
| `EngineProvisioning` | laptops that install on one engine |
| `EngineProvisioning_proofs` | three theorems |
| `CredentialRefresh` | refreshers of one credential file |
| `CredentialRefresh_proofs` | four theorems |
| `ExecSession` | the goroutines and channels of `exec -pty` |
| `ExecSession_proofs` | two theorems |
| `MC...` | the TLC instances of each |

**How they compose.** `PortForwards` takes the queue as the set of ports asked for
and an agent that may serve each of them; `ForwardQueue` is that queue in detail.
`AgentSupervision` says who starts the agent that `ForwardQueue` assumes to be
started again, and its start follows a provisioning that is `EngineProvisioning`.
`SpaceBindings` takes a create as one step of the daemon; `SandboxCreate` is the
inside of it. In each pair the larger model is wanted at a place where the other
needs only its result, and no single instance of both would fit TLC.

### ForwardQueue

`queue`, `tmp` and `ack` are the files on the engine: `queue` is what `requests.json`
parses to, and `text` whether it parses; `writer[w]` is the local state of one enqueue call (`Declarer.Declare` behind `declare`, or
`EnqueueForwardRequest` behind the pane), `agent[a]` that of one laptop agent,
`master[a]` and `live[a]` its control master and the ports it forwards. A call is
`Load`, `ReadAckAndPrune`, one `EnqueueNext` per port, `OpenTmp`, `FillTmp`, `Rename`:
the reads and writes of files are separate steps, what a call computes between them
is one. `os.WriteFile` is two of them: `OpenTmp` truncates the temporary file, whoever
else has it open, and `FillTmp` writes it through a descriptor (`fd`), which another
call's rename may have led to the queue file or, after one more, to no file at all. A
rename installs what the name holds by then. A tick is `TickRead`, `Seed` in the first tick of a process, one step per
request (`SkipSettled`, `Forward`, `ForwardFails`, `Stall`) and the mark, whose
remote script tests (`MarkRead`) and moves (`MarkWrite`). `Prune`, `NextID`,
`Enqueue` and `IsOurs` are the functions of those names.

`forwarded` is history: the requests for which some `ssh -O forward` succeeded.

`Mailbox` maps the pending requests and `forwarded` to `RequestMailbox`. A rename is
its `Rewrite`, whatever the call computed since it loaded the file; a successful
forward of a waiting request is its `Serve`; loading, ticking, marking, crashing and
forwarding again are invisible.

Abstractions. A request is its ID, port, host and the time it was made; time is
the number of enqueue calls begun, and a TTL cutoff is a bound on those times that
the engine and each laptop advance on their own, up to the present: no clock is
compared with another, which covers skew. A port that is forwarded twice is
forwarded once. Poll intervals, backoff and reports are left out. A write is one step:
a file holds a queue, nothing (`Empty`) or, when two calls wrote it, something else that
may or may not parse (`Mixed`, or the later queue); what it would hold of one write that
was cut short is `Empty`, which parses no better. The next call refuses a file that does
not parse; an agent takes an empty one for a queue without requests and changes nothing
after any other.

### SandboxCreate

`box[c]` is the daemon's record of the sandbox named `c`: committed memory, the
10,000-port blocks it publishes in, whether its network policy denies egress by
default. `call[c]` is the one call under way for that name: `path` is the entry
point (`service.Create`, `CreateAndBoot`, `RunEphemeral`, `Publish`), `phase`
what the listing under way is for, and `list` what it has seen.

The daemon pages one sandbox at a time. The model asks of it only this: a
sandbox that is there from the first page of a listing to the last is on one of
its pages. `list.due` is the set of those sandboxes; removal takes a sandbox out
of every `due`, and a sandbox created meanwhile may or may not be shown. What was
shown once is counted, removed or not, and one that was removed and created again may
be shown again: `list.pages` counts the pages, and is all that ends a listing that meets
newcomers for ever.

`service.Create` admits twice (`ServiceAdmits`, then `RuntimeAdmits`), as the
code does. After the create come `VerifyFails` (Detach or GetSandbox),
`PolicyMissing` or `PolicyHolds`, and with an allocator the collision check.
`Remove` is anything that removes a sandbox, `Crash` the death of the caller, and
`DetachWedges` a Detach that never comes back: `runtime.go` and `publish.go` wait for it
without a limit, and `exec.go` says that it may outlast a cancel.

`Ledger` maps the sandboxes that were handed back and still exist to `SandboxLedger`:
the step that returns is its `HandBack`, and all the pages, checks and tear-downs
before it are invisible. A publish that replaces a sandbox takes it off the ledger
when it removes it.

Abstractions. Each creator has its own name; a name collision is the daemon's
refusal (`CreateSandboxFails`). Published ports are the blocks they touch. A record
that cannot be parsed is a listing that fails. Which record the daemon gives back is
a free choice from `Policies`. `Runtime.Create`, which stops what it created, and
the streaming of an exec are not modelled.

### SpaceBindings

`table` is the bindings file and `lock` the holder of its flock; `ws`, `label` and
`trees` are herdr's workspaces, their labels and the checkouts on disk; `box` is the
daemon's record of each sandbox. `proc[p]` is a command under way: of a user, or of
the hook that herdr runs, once, when the worktree of workspace `p` is removed.
Its `item` is the binding it works on, `todo` what prune has still to judge, `copy`
the file as it read it under the lock.

`space-convert` is `SpaceConvert` (no binding for this workspace, which is open, on a
linked worktree), `ConvertCreatesSandbox` or `ConvertRefused`, Put, and
`UndoConvert` if Put failed; `space-create` is `SpaceCreate`, Put and
`UndoSpaceCreate`; `rm` is `RM`, `SpaceCleanup` (look the handle up), Delete and
`RMCloses`. `space-prune -apply` reads the bindings (`SpacePrune`, `HookPrunes`), lists
the workspaces once (`ListWorkspaces`) and then, for one binding after the other,
reads the second signal (`Keep`, `Reclaim`), the sandbox's status
(`RunningCheck`), removes, stops, removes (`FirstRemove`, `StopRunning`, `SecondRemove`)
and deletes the record. Put and Delete are `LockAndRead` and `Write`, shared by all.

Abstractions. The file is a set: the order of its list decides nothing but the order
in which prune works, which the model leaves open. The lookups of `space-convert`
that precede its create are one step; a binding made between them is the same race
as one made after. herdr does not reuse workspace IDs and labels do not change; the
same worktree may come back as another workspace. Panes are not modelled: that one
does not open changes none of the stores. A prune without `-apply`,
`space-open-pane`, `space-new-tab` and the default shell only read. A create that
reports an error after the daemon made the sandbox is a `Crash` before the Put.
Commands run one after the other by a user are one process that is idle in between.

### PortForwards

`up` and `listens` are the sandboxes that run and what they listen on; `master` and
`bound` the control master and the ports it forwards, `alien` the local ports other
programs hold. `file` and `tmp` are `forwards.state` and its temporary name, `proc[p]`
one fwd-sync or ports-toggle, `pane[n]` the rows a pane last read.

A fwd-sync is `SyncLists`, `DiscoverOne` for each sandbox, `CancelStale` and then
`Present` and `Apply` for each desired port, or `TeardownSandbox`; then
`WriteAppliedState`. ports-toggle is `Click` and `UpsertPortInState`. Both end in the
writer `WriteForwardsStateAtomic`, split where another process can come between:
`OpenTmp` truncates, `FillTmp` writes to whatever the descriptor leads to by now
(`fd`: the temporary file, the installed file, or one that is lost), `InstallTmp`
renames. Every process has its own `Manager`, so `NewManager` is empty. `Present` takes
any local listener for the forward, as `manager.go` does. `gone` is history: the ports
whose listener went away by itself while a fwd-sync ran.

Abstractions. A host port equals its guest port, as in the code. The order of the
rows decides only which of two rows with one port an upsert hits: both are tried.
Waiting for a port to be listened on after `ssh -O forward` is part of `AppliedRows`,
which reads what listens then. Parsing of listener tables is left out.

### AgentSupervision

`pidfile`, `lock` and `startLock` are the files of a target and their flocks, `socket`
the control socket, `agent[p]` the agent that process `p` started, `thread[t]` where a
session, a startup or a startup's monitor is. `spawnIfAbsent` is `TakeLock`, then
`ReuseAgent`, or `SpawnAgent`, `TruncatePidfile`, `WritePidfile`; a session then waits
for the socket (`SocketReady`, `SocketTimeout`), runs herdr and tears down: `Kill`,
`RemovePidfile`, `ExitMaster`. The monitor compares the selection with what it last
acted on (`Deselected`, `Reselected`).

Nobody waits for a child, so an agent that ended is a zombie, alive for
`kill(pid, 0)`, until the process that started it is gone. Abstractions: one target
(targets share only the startup lock), no reuse of process IDs, the ten seconds of
grace are a step that may come at any time.

### EngineProvisioning

On the engine `binary`, `manifest` and `marker`; on each laptop its `version` and the
`consent` it has recorded. `run[r]` is one `EnsureProvisioned`: `CheckConsent`,
`ReadRemoteVersion`, `BeginCopies`, two copies that truncate first and end later,
`WriteMarker`. A read of the marker that fails is a version that differs, as in the
code; a marker that is not written is not noticed. A run keeps the version its process
was started as, while the plugin may be replaced under it (`PluginChanges`): it copies
the files that are installed by then or, by hand, those that `-bin` and `-toml` name
(`Sources`). `asked`, `last` and `blind` are history for the properties.

### CredentialRefresh

`store` is the file and `server` the tokens that are valid. `proc[p]` is one
`RefreshFile`: `Load`, `Post` (or `BlankAnswer`, `ResponseLost`, `NotGranted`), `Capture`,
`Parse`, then `Save` by rename or `Open` and `WriteInPlace`. `raw` and `told` are the refresh
tokens that are still to be found in captured responses and in error messages. A
guest that refreshes the file through the mount is a refresher without capture. The
server is external: it accepts the refresh token it made last and usually makes a
new one; `kept` records that an answer left the refresh token as it was, `blank` that one
had no access token. `Refresh` looks at the status and the syntax of an answer and not at
its tokens, so such an answer is saved; `Load` refuses the file it makes.

### ExecSession

`main` is where `runExec` is, from `EnterRawMode` over connect, stream and the first
resize to the clean-up (`Stop`, `Wait`, `Restore`); `winch` answers SIGWINCH, `pump`
resizes the guest's PTY. `sigCh` and `out` are the channels between them. A send on
a closed channel panics and ends the process with the terminal as it is; so does
`BrokenPipe`, the SIGPIPE of a write to a standard output that nobody reads. The size a
session asks for at first is the terminal's, or that of `-rows` and `-cols`, or 24x80 when
it has none (`OtherSize`); the flags hold until the first SIGWINCH.

## 3. Runs

All runs say `CHECK_DEADLOCK FALSE`: the numbers of calls, workspaces and faults are
bounded, so the model comes to rest; that calls return and requests are served is
stated as liveness. All passing runs together take some quarter of an hour on two
cores, none of them more than three minutes.

| run | instance | shows |
|---|---|---|
| `queue_serial` | 1 writer, 2 agents with different engine names, 2 calls of 1 port, `declare` for either engine, no expiry, 1 fault, fairness | `NothingPassedOver`, `QueueReadable`, `ImplementsMailbox`, `EveryRequestServed` |
| `queue_race` | 2 writers, 1 agent, 2 calls of 1 or 2 ports, cutoffs 0 and 1, 3 faults | `TypeOK`, `QueueWellFormed`, `CursorFollowsApply`, `AckNeverRegresses` |
| `queue_lostUpdate` | 2 writers | violation of `NothingPassedOver` |
| `create_calls` | 2 creators with allocators, all four entry points, 2 blocks, `maxCommittedPages` 2, 1 fault, fairness | `TypeOK`, `NoSharedBlock`, `ImplementsLedger`, `CallsReturn` |
| `create_budget` | 3 creators, memory 1 or 2, budget 3, sums saturate at 3 | `OnlyRacesOvershoot` |
| `spaces_race` | 2 users and the hook, 1 worktree, 1 workspace of `space-create`, 2 sandboxes | `OneToOne`, `ImplementsTable`, `PruneSparesTheOpen` |
| `spaces_live` | 1 user, 2 workspaces without label on one checkout and their hooks, 1 workspace of `space-create`, 1 sandbox, 1 start or stop by hand, 1 fault, fairness | `TypeOK`, `RecordOutlivesSandbox`, `HookReclaims` |
| `ports_sync` | 2 sandboxes that share a port, 2 ports of which 1 forwardable, which another program may hold from the start, 2 fwd-syncs, 1 click, 1 pane, 1 change, 1 fault | `TypeOK`, `RowsDistinct`, `TornOnlyByOverlap`, `SyncEstablishes`, `ClickKeepsOtherRows` |
| `supervision_agents` | 1 session, 1 startup with monitor, 2 changes of the selection, 2 faults, fairness | `TypeOK`, `SessionStopsItsAgent`, `NoAgentForgotten`, `SessionsProceed`, `DeselectIsFollowed` |
| `provisioning_install` | 2 laptops, each by hand and at start-up, 2 versions, 3 runs, 2 changes, 2 faults | `TypeOK`, `MarkerNamesInstalled`, `ConsentCoversWrites` |
| `credentials_refresh` | host by rename with capture, host in place, guest; 3 grants, 2 faults | `TypeOK`, `PairIsRecoverable`, `StaysLoadable`, `SavesTheLivePair` |
| `exec_pty` | channel of 2, 4 resizes, 1 fault, fairness | `TypeOK`, `TerminalRestored`, `GuestSizeCatchesUp`, `SessionReturns` |

**Why the bounds are enough.** Two calls make every pair of steps of two
writers meet, and in `queue_race` up to four requests (two calls of two ports) give
the cursor a head, a middle and a tail. Three faults are what a regression of the ack file
needs: a crash, an unreadable ack file, a failed forward. One is enough in
`queue_serial`: each of the faults a request must survive is one, and what the run shows
of safety is proved for any number (with two faults the run passes as well, in four
minutes instead of one). Cutoff 1 makes the first
call's requests expire and the second's not. Two calls lead one descriptor to the queue
file while its writer has yet to write; a descriptor that leads to no file needs a third
call, and is met only in the proofs. Three creators are what a wrapped sum
needs; two suffice for a collision, since blocks are compared in pairs. `maxCommittedPages` is 2 in
`create_calls`: a listing of two sandboxes may just end, and one that meets a sandbox,
sees it removed and meets it again, created anew by another call, is at the limit with
more to come. Without the limit it would go on for ever: the mutant of `CallsReturn`
counts no pages. In `create_budget` it is 3, one for each sandbox. `NumBlocks` 2 makes exhaustion reachable with two.
Two users and a hook make every pair of space verbs meet, with a third command
holding the lock; two sandboxes let two converts of one workspace choose different
names and one `rm` hit what another verb made. Two workspaces on one checkout let a
worktree come back while its hook is still at work.
Two fwd-syncs and a click are three writers of `forwards.state`, the fewest with which
a descriptor can lead to the installed file while two others write; the shared port is
what a teardown could take from another sandbox. Two faults in `supervision_agents`
kill an agent and a process, or a process and the master; a third process of either
kind would meet the same files. Three provisioning runs are an install, a torn one and
one that has to judge what it finds. Three grants let each refresher rotate once. Four
resizes overflow a channel of two with one size on its way. Symmetry is used only
between alike fwd-syncs, creators and versions, and never in a run with liveness.

**Fairness.** `ForwardQueue`: a call that was begun runs to its end, a running
agent keeps ticking (`Serve` loops until it is cancelled, whatever a tick
returns), and a stopped agent is started again (the attach session and the
start-up hook both spawn it when absent). Nobody is obliged to enqueue and no
fault is fair. `SandboxCreate`: a process inside a call keeps executing it; what
others do to the list is not fair. A call still returns, because each of its
listings ends after `maxCommittedPages` pages, or its Detach does not come back
(`wedged`), which costs a fault and is not fair to end: `CallsReturn` says that nothing
else keeps a call. `SpaceBindings`: a command that was
started runs on (weak fairness), and one that waits for the flock gets it in the end
(strong fairness: others may take it in between, but each holds it only to rewrite one
small file, and a blocked `flock` call keeps waiting). Nobody has to start a command, and herdr does not have to remove a worktree.
`AgentSupervision`: a process that was started runs on, one that waits for the flock
of the start gets it in the end (strong fairness: a start is short), a monitor's ticker
ticks, an agent told to stop returns. herdr need not end, the selection need not
change, an agent need not connect. `ExecSession`: goroutines run, a `select` does not
pass over a ready case for ever, and the SDK's calls return once the context is
cancelled, except Detach, for which `exec` has a timeout. Neither the guest's
command nor the resizing of the terminal need end.

**What `EveryRequestServed` excepts.** An agent whose master died (below), and a request
that stands behind an older one for another engine (`Headed`): an agent stops at the
first request that is not its own, and that one stays in the file, served or not, until
an enqueue call prunes it. `doc/portfwd-ack-apply.md` accepts this stall. Without either
exception TLC finds a request that is never forwarded.

**What `SyncEstablishes` says.** A port may be found listened on because another program
holds it, so that the property cannot say that every port is forwarded: it says that each
is forwarded or held by another program, or lost its listener meanwhile. What that hides is
the first of the disagreements of `PortForwards` below.

**What `StaysLoadable` excepts.** A save in place that is under way or was cut short, and
an answer without an access token or one that left the refresh token alone: they are the
ways in which the code does spoil the file.

**What `HookReclaims` excepts.** The hook keeps a binding whose checkout is there
again, and it runs once: after a failed step or when somebody starts or stops the
sandbox between its steps it may give up, and nobody repeats it. The property says
that nothing else makes it give up: neither a running sandbox (the hook passes
`-kill-running`) nor any other verb on the same workspace or sandbox.

**Known disagreements between code and documents.** The first has a run, which TLC
must find violated. The others are properties the modules state, or steps that the
instances take, and can be reproduced as said.

* `queue_lostUpdate`: two enqueue calls that overlap give one ID to two requests,
  or lose one. `doc/portfwd-ack-apply.md` promises "a visible stall rather than
  silent data loss"; an agent that forwarded the first request skips the second
  without a word.
* `WriteQueueAtomic` is atomic for one call at a time. Of two that overlap one renames the
  file the other has just truncated: `requests.json` is empty, no later call can parse it,
  and if the other dies it stays so. `QueueReadable` with the instance of `queue_race`.
  What is left of the file is well formed (`QueueWellFormed`).
* Reused IDs: `Prune` drops an expired request without raising `LastConsumedID`, so its
  ID is given out again. An agent whose ack write failed has the ID behind it and
  skips the new request: `NothingPassedOver` in `queue_serial` with `MaxCutoff` 1.
* Dead master: `doc/portfwd-operator-guide.md` says that Enter on a DEAD row
  re-establishes the control master. `EnsureMaster` is called once, by `Serve`:
  `RetryReestablishes` of `ForwardQueue`, under `FairSpec`.
* Nothing limits `Detach` in `CreateAndBoot` and `Publish`, although the runtime's own
  `detachWithTimeout` exists because it can block past a cancel: `CallsReturn` of
  `SandboxCreate` without `"wedged"` among the ends.
* `doc/egress-profile.md` says a create whose policy could not be confirmed is torn
  down. It is not when `Detach` or `GetSandbox` fails: `UnconfirmedIsTornDown` of
  `SandboxCreate`.
* `doc/worktree-events.md` §3.1 says that prune keeps a binding whose workspace exists.
  prune deletes by label from a list it read when it started; a `space-create` of the
  same sandbox name that ran meanwhile loses its binding, while its workspace is open:
  `PruneKeepsOpenBindings` of `SpaceBindings`. What prune *judged* is always gone
  (`PruneSparesTheOpen`); what carries its label need not be.
* `doc/portfwd-operator-guide.md` §1: "No orphaned processes remain." An agent whose
  starter crashed, or whose pidfile another teardown removed, remains: `NoOrphans` of
  `AgentSupervision`.
* The guide, §4.2, says of Enter on an OUT-OF-RANGE row that the agent will reject the
  request. The agent does not look at the range: `AgentRejectsOutOfRange` of
  `PortForwards`.
* `doc/portfwd-teardown.md`: "If the local port is already occupied, `ssh -O forward` exits
  non-zero and `Apply` returns an error." `ssh -O forward` is not reached: any listener on the
  port is taken for the forward (`Present`), the fwd-sync succeeds and the row says LIVE.
  `SyncRefusesOccupied` of `PortForwards`.
* The same document has a teardown cancel a sandbox's forwards, as do the help of
  `-teardown` and its output, "removed forwards for". The `Manager` of a `fwd-sync
  -teardown` is new and knows of none (`NewManager`), so nothing is cancelled and the file
  is rewritten without rows: `TeardownRemoves`.
* The row of a click stays PENDING until some fwd-sync rewrites the file: the agent that
  serves it writes no row.
* `doc/pty-exec.md` has raw mode restored on exit. A write to a broken pipe kills the process
  by SIGPIPE before the clean-up: `AlwaysRestored` of `ExecSession`.
* A size that finds the channel full is dropped even if it is the last one
  (`SendSize`, `missed`): the guest keeps the older size until the next change.
* Two targets whose names differ in punctuation share a consent file, and `Load` does not
  compare the target in it: `ConsentCoversWrites` with `Collides` TRUE.
* `doc/single-install-bootstrap.md` relies on the marker. After a copy over the marker of
  its own version, or beside another copy, the marker may vouch for a torn install;
  `MarkerNamesInstalled` excepts these (`blind`). A marker that names a version other than
  the one copied last is left by a downgrade that failed before its own marker.
* `doc/credential-mount.md`, "Defect 1", makes an empty access token an error. `Load` keeps
  to it; `Refresh` takes a 2xx answer without one and saves it over a good file, which no
  refresh can load again: `NoEmptyToken` of `CredentialRefresh`.
* A server that does not rotate (`kept`) lets a second refresher succeed with the same
  token, and the older answer may be saved last.
* The MCP tool `sandbox_create` asks for 0 MiB, which `Decide` refuses. No program of the
  repository constructs the server.

`doc/ram-admission.md` says of concurrent creates that the "worst case is overshooting
the budget by a single sandbox". That speaks of the two creates of its example; n
creates that read the same figure overshoot by n - 1. No run is spent on it.

The runtime that `New()` builds has no allocator; only tests construct one. What is
shown and proved of blocks holds for a runtime that has one.

## 4. Proofs

`ForwardQueue_proofs`, for any sets of writers, agents, ports and hosts:

* `TypeCorrect`: `Spec => []TypeOK`, with truncation, write and rename as steps that any
  number of calls interleave: where the file parses it is a queue.
* `QueueStaysReadable`: `Spec => []QueueReadable`, for one enqueue call at a time. `OwnFile`
  says that the descriptor of the call leads to the file it truncated, and that it renames
  what it wrote, whole.
* `QueueStaysWellFormed`: `Spec => []QueueWellFormed`. The property speaks of
  `requests.json`, but a writer carries a queue in memory and leaves one in the
  temporary file, and either may be installed by another writer's rename or be
  written through a descriptor that followed one. The inductive invariant `IInv` therefore asks well-formedness of all three. It
  needs that `NextID` is above every ID of its queue (`NextIDFresh`, from
  `MaxOfBounded`) and that `Prune` drops exactly what the raised mark covers
  (`PruneKeepsOK`).
* `CursorOnlyOverApplied`: `Spec => []CursorFollowsApply`. The strengthening
  `TickOK` says of every agent that the requests behind the one its loop is at are
  settled or applied, that its cursor is not ahead of those to come, and that what
  the process applied is acknowledged or at or below the cursor of this tick. It
  rests on the file read having unique IDs: of two requests with one ID the cursor
  would cover one that was not applied.
* `AckMonotone`: with at most one agent, `Spec => AckNeverRegresses`. An agent
  about to move its mark has seen a smaller one in the ack file, and nobody else
  writes there. With two agents the test and the move interleave and the file can
  go back; `queue_serial` shows that nothing is lost by it.
* `NothingIsPassedOver`: `Spec => []NothingPassedOver`, and `NoneTakenBack`:
  `Spec => LeavesOnlySettled`, for one enqueue call at a time (`OnlyWriter`) and no
  expiry (`MaxCutoff = 0`), with any number of agents and faults. `queue_lostUpdate`
  and §3 show that neither assumption can go. `Passing` is the invariant: every mark
  that somebody holds is no larger than the IDs the file has seen (`Used`) and covers
  only what is forwarded (`Passed`); what came into the file since an agent read it has
  larger IDs than all it read (`Knows`); and the copy of the call has lost only what is
  forwarded and gained only larger IDs (`Grown`). Because IDs only grow, one mark can
  stand for a set of requests; with expiry an ID is used again and `Grown` fails.
* `Implements`: under the same assumptions `Spec => ImplementsMailbox`, and
  `IDsAreNotReused`: `Spec => []Mailbox!OneRequestPerID`, which follows from the mailbox
  alone. `Remembered` adds to `Passing` that what was forwarded has an ID the file has
  seen and that what an agent read is waiting or forwarded, so that a forward of it is a
  `Serve` or invisible (`AgentServes`) and what a call adds is newer than all there ever
  was (`WriterRewrites`).

`SandboxCreate_proofs`, for any number of creators, with or without allocator,
over any entry points, budget and page limit:

* `TypeCorrect`: `Spec => []TypeOK`; the sum stays within uint32 and every
  published block is one of the managed ones.
* `BlocksDisjoint`: `Spec => []NoSharedBlock`. The check of creator `c` says
  something about sandbox `d` once `d` was on one of its pages, or did not exist
  when the listing began: `Checked(c, d)`. `BlocksApart` says that two sandboxes
  with `Checked` both ways have disjoint blocks. It is inductive because a create
  makes `Checked(c, d)` false for its own sandbox, a listing begins with it true only
  of sandboxes that do not exist, and a page makes it true only of sandboxes
  outside the block. Of two overlapping creates the later create is thus seen by the
  check of one of them. `StepKeepsIInv` reduces a step of `c` to what it does to
  `c`; there is one lemma per action.
* `EgressDenied`: `Spec => []ReturnedProtected`, with `Protected`: past the
  read-back of its policy a sandbox denies egress or is gone.
* `Implements`: `Spec => ImplementsLedger`, the refinement of `SandboxLedger`, from
  `BlocksApart` and `Protected`. `NextHolds` says which steps change what somebody was
  handed: one that returns, and a removal.
* `OvershootIsARace`: `Spec => OnlyRacesOvershoot`. `Accounts` says of a call while
  it lists that the `sum` is no less than the memory of the sandboxes in `counted` that
  are still there, or is saturated; and of a call that was admitted, that these and its
  own fit the budget. Hence a create that goes over missed a sandbox. It
  needs that removing a sandbox lowers no account and that one that is created is
  counted by nobody yet; and that the budget is a uint32 (`Budget \in 0 .. MaxUint32`,
  the type of `Decide`'s parameter), for beyond it a saturated sum would be admitted.
  The sum over a set is a fold that takes its elements in an order of its own: `Adds`
  states a sum by what each element adds, and `AddsExists` and `FoldsIsAdds` give, by a
  least counterexample in the cardinality, that there is one and that the fold is it.

`SpaceBindings_proofs`, for any number of users, workspaces, checkouts and sandboxes,
any number of crashes and failed steps:

* `TypeCorrect`: `Spec => []TypeOK`. A Put stores a binding whose label is one, which
  needs the fall-back to `msb:<name>`.
* `Implements`: `Spec => ImplementsTable`, the refinement of `BindingTable`. Between
  `LockAndRead` and `Write` the copy is the file: `ProcOK` says so of the command
  that holds the lock, and that whoever is about to write does hold it.
* `PruneTakesOnlyTheGone`: `Spec => PruneSparesTheOpen`. `ProcOK` carries through the
  whole of prune that the workspaces of what it works on are closed. It is inductive
  because workspaces are opened and closed once (`WorkspacesAge`): that it is gone
  is the one thing prune reads that cannot become false.
* `RecordsAreDeletedLast`: `Spec => RecordOutlivesSandbox`.
* `BindingsAreOneToOne`: `Spec => []OneToOne`, provided that herdr gives each linked
  workspace a label (`AllLabelled`). Put compares labels and handles, not workspaces.
  `LabelsOK` says that bindings, stored or about to be, carry the label of their
  workspace, so that the label stands for it. Without labels the name chosen by
  `-sandbox` becomes the label, and two converts of one workspace under two names leave
  two bindings.

`IInv` is their common invariant: `TypeOK`, `ProcOK` of every command and `StoresOK`.
`StepKeepsIInv` and `OutsideKeepsIInv` reduce a step to what it does to its own
command; there is one lemma per action.

`CredentialRefresh_proofs`, for any number of refreshers of either kind, with or
without capture:

* `TypeCorrect`: `Spec => []TypeOK`.
* `LivePairSaved`: `Spec => SavesTheLivePair`. As long as the server rotates, the
  requests are serialised by the server itself: of all that hold a refresh token, only
  one sends the live one. `OneHolder` and `HolderIsLive` say that at most one process
  holds an answer that it has not saved, and that it is the newest; `OthersBehind`,
  that the file and whoever is about to send have no newer token than the server, and
  an older one while there is a holder; `WritesItsOwn`, that nobody renames the file
  away under a holder that writes in place.
* `FileStaysLoadable`: `Spec => []StaysLoadable`.
* `PairStaysRecoverable`: `Spec => []PairIsRecoverable`, from the same invariant: the
  pair of the server is in the file, with its one holder, captured, or told.

`EngineProvisioning_proofs`, for any laptops, versions, runs and faults:

* `TypeCorrect`: `Spec => []TypeOK`.
* `MarkerVouches`: `Spec => []MarkerNamesInstalled`. `Alone` says that, unless `blind`,
  the run that copies does so alone and without a marker of its own version on the
  engine; `FilesFollow`, what the two files hold at each step of it.
* `ConsentCovers`: if no other target sanitizes to the same name (`~Collides`),
  `Spec => []ConsentCoversWrites`.

`AgentSupervision_proofs`, for any number of sessions and startups. A process is not the
monitor of another (in `ConstantsAssumption`).

* `TypeCorrect`: `Spec => []TypeOK`.
* `SessionsStopTheirAgents`: `Spec => []SessionStopsItsAgent`. `ProcOK` says of every
  process that it is alone between taking and releasing the flock, that the agent it
  records is its own, and that its agent works only until it was told to stop.
* `NoneForgotten`: `Spec => NoAgentForgotten`. The pidfile is written only under the
  flock by a process that found no working agent in it, and `RecorderMoves` says that
  whoever is about to write does so.

`ExecSession_proofs`, for any capacity of the channel, any sizes and any step that fails:

* `TypeCorrect`: `Spec => []TypeOK`.
* `NeverLeftRaw`: `Spec => []TerminalRestored`. `ClosedLast` says that the channel is
  closed only after the goroutine that sends on it is gone, so that no send panics.

`PortForwards_proofs`, for any sandboxes, ports, fwd-syncs, clicks and panes:

* `TypeCorrect`: `Spec => []TypeOK`. `ProcOK` says which steps belong to which program.
* `SyncsEstablish`: `Spec => []SyncEstablishes`. `FoundBy` says that what a fwd-sync took
  for applied is still forwarded or held by another program, or lost that listener since;
  no step of another fwd-sync, an agent or a click takes one away.
* `RowsStayDistinct`: `Spec => []RowsDistinct`. `RowsInv` asks it of both files and of what
  every process is about to write, since any of it may be installed by another's rename;
  `UpsertedDistinct` and `AppliedDistinct` say that both programs make such rows.
* `TornByOverlap`: `Spec => []TornOnlyByOverlap`, and `ClicksKeepRows`:
  `Spec => ClickKeepsOtherRows`. `Alone` says of a process whose rewriting nobody
  overlapped that nobody else writes, that its descriptor leads to the temporary file,
  that this holds what it wrote, and that `forwards.state` is still what it read.

The proofs assume `ConstantsAssumption` of each module, which gives the constants
their types. Nothing is assumed of the sizes of the sets.

**Only model-checked.** Liveness (`EveryRequestServed`, `CallsReturn`, `HookReclaims`,
`SessionsProceed`, `DeselectIsFollowed`, `GuestSizeCatchesUp`, `SessionReturns`) is
beyond the prover. Every safety property of the passing runs is proved, under the
assumptions named above.

## 5. Plan

Every module is checked and proved about. What could still be added is more of the code
at the edges: the steps of herdr behind a space verb, and several targets at once in
`AgentSupervision`. Five hazards have no property that holds, because nothing in the code
guards against them: a crash between the create of a convert and its Put, the deletion of
a newer binding by `prune` and by `rm`, the dead master, and the foreign request at the
head of the queue. The steps are in the models, where the other properties hold across
them; what happens is above, under the disagreements and the exceptions.

## 6. Not modelled

* The MCP server: one request at a time, no state; each tool is a call into the runtime
  that `SandboxCreate` and `SpaceBindings` model.
* The network profile (a constant list), the discovery of machines, and all parsing of
  command output, listener tables and file shapes: they change no state. Where parsing
  can fail, the failure is a step.
* Hook scripts, build tools, packaging, test harnesses, wiring of the terminal. The prune
  that the `worktree.removed` hook runs is a process of `SpaceBindings`.
* Edits of the files by hand, reuse of process IDs, the copying of standard input and
  output (beyond that it may kill the process), and an exec without a terminal.
