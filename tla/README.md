# A verification project for leartech-go-common

`leartech-go-common` is a Go library. Its core is `pkg/agentloop`, the engine of
an agent shell: it reads lines from a user, streams a model's turns from a
gateway (`pkg/aigateway`), runs the tools the model asks for behind a permission
gate, and writes a checkpoint at every turn boundary so that a session can be
resumed. Around it are shared service parts: authentication, a websocket hub, a
Redis lock and queue, Mongo migrations, forge drivers, tracing and logging.

This directory holds TLA+ modules translated from the code, TLC configurations
that check them on small instances, and TLAPS proofs of the properties that
matter most for every value of the constants. `PROJECT.json` maps every
definition to the lines it models.

## Inventory

| Part | State | Operations | Talks to |
|---|---|---|---|
| conversation loop (`agentloop/loop.go`) | state, messages, pending calls, held results, budget | `Step(event)`, returning actions; no I/O | the runner |
| runner (`runner.go`) | event queue, turn number, previous hash, failures, `resumed` | `Run`, `RunRestored`, `drive`, `send`, the turn boundary | loop, gateway stream, tools, operator, checkpoint file |
| checkpoints (`checkpoint.go`) | files: turn, previous hash, messages, hash | `Checkpoint`, `RestoreCheckpoint`, `computeHash` | runner |
| compaction (`compact.go`) | a copy of the messages, a running estimate | `Compact` over a checkpoint | checkpoints |
| streaming client (`aigateway/stream.go`) | a goroutine, an unbuffered channel | `ChatStream`, `scanSSE`, `emitDelta`, `send` | gateway, runner |
| tool registry and gate (`tools.go`, `guard.go`, `remote.go`) | tools by name, policy, approver | `Add`, `AddRemote`, `Govern`, `Policy.Add`, `Run` | runner, operator, MCP servers |
| file tools (`tools.go`, `write.go`, `search.go`, `diff.go`) | none; the working directory | read, range, list, glob, search, write with its preview and diff | the gate, the operator, whoever else changes the tree |
| script execution (`execrun.go`, `exec.go`, `wait.go`) | a child process group, a deadline | `runInGroup`, `runScript`, `waitForCommand` | exec registry, the kernel |
| exec registry (`execregistry.go`) | a directory with a file per running script | `record` and its cleanup, `List`, `Kill` | every shell and a second terminal |
| authentication (`pkg/auth`) | JWKS, cached token sources per audience, gated scopes, claims in the request | `Middleware`, `RequireScope(s)`, `GetAuthTokenForAudience` | Hydra, gin |
| websocket hub (`pkg/wshub`) | a connection per handshake | `Serve`, `Read`, `Write`, `Close` | authentication |
| redis lock, queue (`pkg/lock`, `pkg/queue`) | keys with a TTL; lists | `AcquireLock`/`ReleaseLock`; `Push`/`Pop`/`Len` | several processes |
| migrations (`pkg/mongo/migration`) | the `_migrations` collection | `Register`, `RunMigrations` | several instances |
| forge (`pkg/forge`) | comments and pull requests on a forge | `UpsertSticky`, `EnsurePR`, paged lists | several pipelines |
| gateway API, Mongo and Redis clients, httptools, tracing, logger, terminal, transcript | configuration only, or I/O | single requests, formatting | - |

What is hard here, and hard to reach by a test: a stream that ends, breaks or
stops at any point; results of several tool calls coming back one at a time; a
crash between a turn's end and its checkpoint; several shells, their scripts and
a second terminal working on one directory, with pids that are reused; a deadline
that passes while a script ends or a person kills it; rules and tools registered
by different callers in any order; and, in the service parts, locks that expire,
migrations applied and not recorded, look-ups followed by creates, claims that one
gate leaves to the next, and paths that lead somewhere else than they say. The list,
with lines, is under `hazards` in `PROJECT.json`.

## Modules

| Module | Models | State and actions |
|---|---|---|
| `AgentLoop` | `loop.go` | The variables are the fields of `Loop`; `actions` is what the last `Step` returned. `Step(e)` is a disjunction with one action per case and early return of the Go switch. |
| `MCAgentLoop` | | bounds the conversation and the pending calls for TLC |
| `CheckpointTree` | `checkpoint.go`, abstractly | the set of checkpoints on disk, which grows by one that opens a conversation or follows another; also `messagesKey` and `computeHash` as the code defines them |
| `StreamEvents` | what a stream delivers to `Runner.send` | the contract `KeepsContract` |
| `StreamContract` | a stream, abstractly | the events delivered and whether the channel is open |
| `Runner` | `runner.go` on top of `AgentLoop` | `phase` is where `runWithLoop` is; one action per action `drive` carries out, per way a stream or a run ends, and per outcome of the boundary |
| `ChatStream` | `stream.go` and the reader's side of the channel | the goroutine's position, chunks still to be handed over, what the reader has collected |
| `ExecRun` | `execrun.go`, `execregistry.go` and the reading of results in `exec.go` and `wait.go` | per shell the position in `runInGroup` and its locals; the processes; the directory; the second terminal's `List` and `Kill`, one file system call per step |
| `ToolGate` | `tools.go`, `guard.go`, `remote.go` | the tools by name, the rules, the approver, and the call `Run` is in |
| `MCToolGate` | | the tools and rules of the instance |
| `Compact`, `MCCompact` | `compact.go` | the copy of the messages, the results still eligible and the running estimate; one step is one iteration of one of the two loops; what comes back may be compacted again |
| `FileTools` | `tools.go` (reading, listing, glob), `write.go`, `search.go` | `tree`, from canonical paths to files, directories and links; `running`, the tool call in progress, from resolving to the access, and for a write from the preview (`AskWrite`) through `MkdirAll` to `os.WriteFile`; others change the tree between any two steps (`Put`, `Vanish`) |
| `Diff`, `MCFiles` | `diff.go` | two files, chosen at the start: a pure algorithm, checked over all small pairs |
| `RedisLock` | `lock.go` | the key, and who was answered true; expiry, lost answers, failed releases, deaths |
| `RedisQueue` | `queue.go` | the list, what `LPOP` gave to whom, what `Pop` returned |
| `Migrations` | `migration.go` | per instance the registered migrations and where `RunMigrations` is; the collection; what was really applied |
| `Forge` | `sticky.go`, `EnsurePR` and the lists of both drivers | comments and pull requests; per pipeline the operation, its page and what it found; people who comment, delete, open and close |
| `MCStores` | | the four stores side by side: a behaviour uses one |
| `AuthGates` | `verifier.go`, `require_scope.go`, inbound `service_client.go` | configuration, gates of the route, the request's token and context, the gate it is at |
| `AudienceTokens` | `audience_token.go` | the base configuration, sources per audience, what each goroutine asked for and got |
| `WsHub` | `wshub.go` | the handshake and the connection it becomes |
| `MCAuth` | | the three side by side |
| `RunnerProofs` | | theorems about the loop and the runner |
| `ChatStreamProofs`, `CompactProofs`, `DiffProofs` | | theorems about the module of that name |
| `ToolProofs` | | theorems about the gate (`ToolGate`) and the tools behind it that take a path (`FileTools`) |
| `StoresProofs` | | theorems about the lock, the queue, the migrations and the forge |
| `AuthExecProofs` | | theorems about gates, token sources and the websocket hub; about scripts and their entries (`ExecRun`) |
| `SequenceLemmas` | | facts about sequences, least elements and recursive functions the proofs share |

`Runner` EXTENDS `AgentLoop`, so what is checked and proved of the loop under any
caller holds of the loop the runner drives. `Runner` reads streams that keep the
contract of `StreamEvents`; `ChatStream` is shown to implement `StreamContract`,
which delivers exactly such streams. That is how the two packages compose without
the product of their states. `Runner` implements `CheckpointTree` by the mapping
`tree <- store`.

### What is abstracted

- Texts, results, prompts, argument bodies and tool names of a conversation are
  left out; who spoke, which calls were made, their ids and (as one value) their
  arguments are kept. "stop" stands for every finish reason that is no truncation.
- SHA-256 is taken to be injective: a hash is the tuple it is computed from.
- An interrupted, empty or intercepted line changes nothing and is left out. A
  failed write to the terminal may abort `drive` at any action, a superset of
  where the code writes.
- A tool call is one step of `Runner`: `Registry.Run` is synchronous and always
  answers, with a failure text at worst. What happens inside is `ToolGate` and
  `ExecRun`.
- `RunRestored` is always given the checkpoint it resumes from. A crash forgets the
  Runner; running `Run` on a Runner that `RunRestored` was used on is possible only
  with `ReuseRunner = TRUE`.
- A frame of a stream is the facts `scanSSE` branches on. The transport breaking, a
  malformed frame, an error frame and an end without `[DONE]` are one action: the
  code does the same with all of them.
- Time is not measured: a deadline may pass at any moment. Scripts are signalled by
  their own deadline or by `exec kill` only. Child pids are reused, shells' pids are
  not. Which of the two tools a script belongs to is chosen when its result is read,
  which is the first place where it matters.
- Qualified names of local and remote tools never collide, as their prefixes differ.
  The order in which a registry lists its tools is left out: nothing depends on it.
- Compaction sees lengths. A stub's length depends on the digits of the number it
  quotes, as in the code. JSON is not encoded.
- A path is a sequence of names and a file a sequence of lines, each plain, matching
  or longer than the scanner's buffer. Modes, sizes in bytes, the wording of answers
  and binary contents are left out. Directories a search skips are represented by
  `.git`. The walk of a search or a glob is one step, in an order that is fixed but not
  that of the names: where a search stops depends on it, whether it says so does not.
- Links are followed up to `MaxLinks` times, as the kernel and `filepath.EvalSymlinks`
  do up to limits of their own. The working directory, the link that leads to it and
  what is above them are not changed by others (`FileAssumption`).
- In `RedisLock` and `RedisQueue` each command is atomic, as Redis serves them one by
  one. A failed command may have taken effect.
- A comment has the markers it contains, and whether an upsert or a person wrote it.
  Forges give pages by position, so a deletion moves what follows. Of `EnsurePR` the
  branch is kept; title and body are not.
- A token is the checks it passes (signature and expiry, issuer, audience, claims that
  parse) and its scopes and permissions. It may expire between two gates. Fetching
  keys from the issuer is not modelled.

## Runs

| Run | Instance | What it shows |
|---|---|---|
| `loop` | 1 call id, budget 1, grants of 0 and 1, up to 6 messages and 3 pending calls | Under a caller that feeds any event in any state: a turn that runs tools or asks still waits for a result and no result outlives its turn (`ResultsAreOwed`); the budget holds until somebody grants more (`BudgetHeld`); history only grows (`HistoryGrows`). Three pending calls make a partial, a last and a stray result possible. |
| `runner` | 2 lines over any number of runs, streams of up to 3 events, budget 1 and one extension | With crashes, cancellation, failed writes and failed checkpoints: the loop is idle whenever a line is read, tools that really run stay within the budget, an error shown makes the run fail, the checkpoints form a tree (refinement of `CheckpointTree`). |
| `runner_unattended` | two distinct call ids, budget 2, nobody to ask | Every line is served, and results come back together and in order. Two ids make the order of answers observable. |
| `chat_stream` | up to 3 frames, up to 2 calls in one | The stream keeps the contract (refinement of `StreamContract`), a bad end is told from an end, and the channel always closes. |
| `exec` | 2 shells, 1 pid, 2 scripts | With one pid every second script reuses it: nobody is blamed for a timeout, entries of living shells are about what they run, calls return, and dead shells' entries are reaped. |
| `tool_gate` | 1 local and 2 remote names, 3 overlapping rules, offers of up to 2 tools | Nothing passes the gate on other terms than its rules; one more rule tightens; a name's effect never changes; untrusted claims never loosen; one bad tool costs one tool. |
| `compact` | conversations of three turns and four results of sizes below, at and above a stub's, with an empty and a repeated id; four targets, heads and tails that overlap; two rounds | What the user and the model said and the protected turns stay, and a call loses its arguments only with its result (`OnlyReDerivable`); the heaviest go first and no more than needed (`NoMoreThanNeeded`); what does not fit has nothing left to give (`UnfitIsExhausted`); a conversation is made heavier only on the way to one that cannot fit (`GrowsOnlyInVain`). Two rounds make stubs of stubs happen. |
| `files` | a root that is itself a link, a `.git` that is a directory or a file, three places where others put files, directories and links to four goals, two changes by others; files of up to 5 lines for the diff | What a tool touches is in the working directory and not in `.git` (`Confined`); the write is the one that was shown (`WrittenAsShown`); what is left out is said (`SaysWhatItLeftOut`); the diff tells the whole change and no diff is shorter (`DiffTellsTheChange`). Two changes suffice for a link whose target is changed under it, and for one change on each side of the approval. |
| `stores` | 3 processes on a lock; 2 readers and 4 pushes; 2 instances, 3 migrations, each applied up to twice; 2 pipelines, 2 keys, 4 comments on pages of 2 and 1; 3 branches and 4 pull requests | One holder until one overstays (`HeldByOne`); delivery at most once and in order (`AtMostOnceInOrder`); migrations in order, and twice only after a disturbance (`InOrderAndOnce`), of which at most one was on record (`RerunStopsThere`); one sticky per key unless two upserts overlap or a page shifts (`OneSticky`); a conflict has one of three reasons (`ConflictIsExplained`). Three processes let a second holder lose its key to the first and a third acquire. |
| `auth` | up to two gates of any kind, two scopes, one permission, tokens with any one flaw; 2 goroutines, 2 audiences, 3 tokens; handshakes with a header and up to two subprotocols (`MaxProtocols`) | A request that reaches the handler carried a token good for the first gate and allowed by each (`ReachedAsGated`); an empty scope surface means what it says (`EmptySurfaceProtects`); tokens are for the audience asked for (`MintedForAudience`); a socket has one owner (`SocketHasOneOwner`). |

Two runs are expected to be violated. Each states what a comment of the
repository says, and its trace is what the code does:

- `outstanding`: a checkpoint is written with a call that has no result, after a
  stream that broke behind its finish reason (`checkpoint.go:15`).
- `exec_listed`: a `List` between the create and the write of an entry removes it,
  and the run is unlisted for the rest of its life (`execregistry.go:85`).

Where the code does less than a comment says and the property has to say so, the
exception is part of the property and of its comment:

- a search follows a link to a file wherever it leads and reads a `.git` that is a file
  (`Confined`), and a line over the scanner's buffer ends its file without a word
  (`SaysWhatItLeftOut`);
- a preview promises a path that leads through a file, and the write then fails
  (`WrittenAsShown`); a change of nothing but the last line's end has an empty diff
  (`DiffTellsTheChange`);
- a call's arguments go with any result under the same id (`OnlyReDerivable`);
- a failed look-up, and on Gitea a second page of pull requests, make `EnsurePR` create
  what exists (`ConflictIsExplained`);
- a `ServiceClient` gate does not look at the issuer, so a `Verifier` gate behind it
  does not either (`ReachedAsGated`).

Seen while modelling, outside what a run states: the checkpoint hash leaves out call
arguments (`checkpoint.go:167`); a budget extension lasts beyond the input it was
granted for (`loop.go:392`); a wait whose command exited 0 while a descendant holds
its output is reported as given up (`wait.go:266`); the default policy of a registry
allows a tool that spends (`guard.go:188`).

`CHECK_DEADLOCK FALSE` is used where the system ends: a closed channel
(`chat_stream`), a conversation compacted as often as the bound allows (`compact`), a
pair of files that was compared (`files`), a service whose configuration is refused or
that panicked while wiring (`auth`).

### Fairness

- `Runner!FairSpec`: weak fairness of the goroutine that drives, including the close
  of the stream. The code never waits on anything but the gateway, a tool and the
  operator; a stream is assumed to end, which the client's transport guarantees by
  ending or breaking, and tools return (`CallReturns` of `ExecRun`). Nothing is
  assumed of the user: a line need never come.
- `ChatStream!FairSpec`: weak fairness of the goroutine and of a reader that is still
  reading. A caller that stopped reading is not assumed to come back.
- `ExecRun!FairSpec`: weak fairness of each living shell's steps, which include its
  deadline, and of somebody listing now and then, without which nothing would ever
  be reaped. Scripts are not assumed to end.

## Proofs

All theorems are checked by TLAPS to the last leaf. They hold for every value of the
constants that satisfies the named `ASSUME`s of the modules, which TLC evaluates in
every run of a module that extends them. Few of the properties are inductive as they
stand; the invariants that are were checked with TLC on the runs' instances before they
were proved, and are named here with what they add.

### The agent shell

- `LoopTypeCorrect`, `OwedCorrect`, `BudgetCorrect`, `HistoryCorrect`: the loop's
  properties for any number of calls, any budget and any caller. `ResultsAreOwed`
  and the type invariant are inductive together. `BudgetHeld` needs a positive
  budget: with `Budget = 0` a grant of nothing is one of `maxTools`, zero, so an
  answer of yes runs the calls with the ceiling unchanged.
- `TypeCorrect`: the runner's types, with the loop's lemma for a step reused.
- `TreeImplemented` (for a Runner that is not reused) and `NoLinkDangles`: the runner
  implements the checkpoint tree. That the files form a tree is not inductive:
  `ChainInv` adds what ties the run in progress to them - while a run is at turn 0 it
  has no previous hash, and otherwise some checkpoint on disk has exactly this turn
  and hash, and its conversation is a prefix of the loop's. It rests on
  `HistoryCorrect`'s step lemma.
- `ErrorsReported`: `ErrorInv` says that an error shown in this run is remembered in
  `failed`, in `failures`, or has ended the run.
- `RunsWithinBudget` (positive budget): `BudgetInv` counts tools run and `RunTool`
  actions still to be carried out against `used`; it needs that a line is driven from
  clean counters (`CleanStart`).
- `LinesAreTaken`: the loop is idle whenever a line is read. That the loop gets back to
  idle depends on everything that is on its way while it is not, so the invariant
  `Served` says for each state of the loop what in the queue or among the actions will
  move it on: while it awaits, a turn to send or what is left of an orderly stream that
  ends it (`AwaitingDriven`); while it runs tools, results held, results queued and
  calls still to be made are together the pending calls in order (`Owes`), or the stream
  broke behind its finish reason and the error is next (`Breaks`); while it asks, the
  question or its answer.
- `CallsAnsweredTogether`: `TogetherInv` is `AnsweredTogether` of the conversation and
  of every checkpoint a run could be restored from; the step that appends results needs
  `Owes` for their order.
- `StreamImplementsContract`, `BadEndsAreTold`: `EndIsTold` says that a scan which is
  over saw `[DONE]`, has told an error, or was cancelled; `KeepsOn` says that what is on
  its way may follow what was collected - a finish reason is the last chunk of its frame
  (`DoneIsLast`), and after it come only usage and the error of a stream that breaks.
- The last two runner theorems assume `Orderly`: streams that keep the contract. The
  client's theorem assumes `GatewayOrderly`, a gateway that is done after its finish
  reason, and shows that then they do. Nothing else is assumed of either.
- `EntriesAreOfRuns`, `PersonsKill`: for any shells and reused pids. `OwnEntries` adds
  to `EntriesAreLive` that the shell has registered, hence will clean up; `OneParent`
  that a pid whose child is awaited has one waiting shell and is not given away before,
  so a signal has one script; `SignalsExplained` that a script that was signalled was
  overdue or killed, with `Outcome` looking at the deadline first.
- `DecideTightens`, `OrderDoesNotMatter`: what `Policy.Decide` answers, for every
  sequence of rules. `GateHolds`, `AlwaysTightens`: the gate of `ToolGate`, with the
  invariant that while somebody is being asked the policy still says to ask. A policy
  without rules denies everything, so the theorem on tightening is about policies that
  have some.
- `NamesAreKept`, `ClaimsAreWeighed`, `BadToolsCostThemselves`: any sequence of local
  registrations and remote offers. What an offer does to the registry is the lemma
  `RemoteKeeps` and those next to it: names that are taken keep their tools, and a name
  that is new is that of the first offer of it that can be sent.
- `CompactKeepsInv`: `CompactInv` holds of any conversations and options. `CopyInv` says
  what each message of the copy is: that of the source, or its stub if it was eligible
  and taken, or for a call that of the source with the arguments gone that `Stubs` names.
  `LoopInv` says what the estimate is (the weight of the copy, which is what makes
  `Over` mean what the caller means by it), that what was taken is at least as heavy as
  what is left, and how far the second loop has come. From it follow
  `CompactTouchesOnlyReDerivable`, `CompactTakesNoMoreThanNeeded`,
  `CompactUnfitIsExhausted` and `CompactGrowsOnlyInVain`. They rest on lemmas about the
  code's positions and the turns a person counts: `userAt`, `headEnd` and `tailStart`
  find by index what `TurnOf` and `Protected` say by counting user messages.
- `DiffIsTrue`: `DiffTellsTheChange` for any two files of any lines. `TableBounds`: no
  way of finding some of the lines of one rest in the other, in order, finds more than
  the table says; `WalkStands`: the walk finds as many as that. `MergeKeeps`: what was
  told so far is, on either side, the file up to where the merge stands, and what is left
  of the common lines stands in the rest of both (`MergeFollows`). `TrimKeeps`: trimming
  loses no changed line; `RenderShows`: a cut leaves a prefix of them.
- `FilesAreConfined`: `Confined` for any tree, any paths asked for and any links others
  make. It speaks of the moment of the access, and the path was judged before: `FilesInv`
  adds what ties the two. `TreeInv`: whatever is there is in a directory, up to the top,
  and the working directory is where it was. `CallInv`: while nobody has changed the tree
  since, the path of a read or a listing is canonical and inside; that of a write is
  `Settled` before `MkdirAll` - either all of it is there, or it goes on behind something
  missing - and `Ready` after it, in a directory, with no link and no directory in its
  place, so that `os.WriteFile` writes there and nowhere else. The lemmas under it are
  about resolution: what `EvalSymlinks` answers is canonical and there (`EvalIs`), what is
  canonical resolves to itself (`EvalCanonical`), and so what it resolves to is reached
  without following anything.
- `WritesAreAsShown`: `AsShownInv` says that in a tree nobody has changed the preview is
  still what it would be if asked for now, that the path resolved after the approval is
  the one that was shown, and, once the directories are made, that the file is as it was
  shown to be and directories were made exactly if that was said. It needs `FilesInv`.
- `FilesSayWhatTheyLeaveOut`: a search that did not stop has counted every hit of every
  file it read to the end, and it stops only at the cap; a range that is answered is
  the stretch of the file its header names. No invariant beyond `FilesInv` is needed: an
  answer is given in the step that looks, but what it says of a whole walk or a whole
  file is a fact about recursive functions.

### The service parts

- `ServedAsGated`, `EmptySurfaceIsSafe`: any number of gates. `PassedGates` says of the
  gates behind a request that each allowed the claims that arrived, whatever has expired
  since, and that claims in the context were left by a gate: so the first one decoded.
  `SeenAreGated` ties the scopes counted as gated to gates of the route.
- `TokensAreForTheirAudience`: `SourcesInv`, a source names the audience it is kept under.
- `SocketOwner`: `HubInv`, where the bearer of a handshake was found.
- `OneHolder`: `HeldByOne` for any number of processes. It says nothing of the key and is
  not inductive; `HolderMadeTheKey` adds that while nobody has overstayed whoever holds
  the lock made the key that is there, so a release removes no other's.
- `QueueDelivers`: `Earlier` says that what readers hold, got or lost was pushed before
  what is on the list, and what a reader holds after what it got; with `Somewhere` and
  `Apart` that gives the order of the next pop and that no push is in two places.
- `MigrationsInOrder`, `RerunsStop`: `RanOrLeft` says that what an instance knows has run
  or is still before it, in order; `Undisturbed` that without a disturbance one call runs
  at a time, knows the records it has still to visit, and what ran is recorded or about
  to be; `AgainIsHead` that a call which applied what was on record stands before the
  insert it collides in.
- `ConflictsAreExplained`: `PullInv`, a pipeline that is about to create where there is a
  pull request already has its reason on record.
- `StickyIsUnique`: any pipelines, comments and page sizes. `StickyInv` describes what an
  undisturbed upsert knows half-way through the pages: nothing before what it found, or
  in the pages it has read, carries its marker (`HasRead`), what it found carries that
  marker alone (`FoundMarked`), ids are unique (`Numbered`), two upserts of one key have
  shaken it (`OneUpsert`), and a sticky comment is the first with its marker
  (`StickyIsFirst`), which is stronger than that there is one.

Least elements of sets of naturals (which bearer comes first, which offer, which
comment) come from `SequenceLemmas!Least`, proved by well-founded induction on initial
segments ordered by inclusion.

### Recursion

Sums, digits, the table of the diff, its walk, the merge and the trimming, the following
of links and the scans of files are recursive functions over numbers or pairs of numbers. That such a function exists, with the values
its equations say, is proved and not assumed: the sets of indices up to which it does are
shown to be all of them (`Upwards`, `Iterates` and `Stays` of `SequenceLemmas`,
`Lengthwise` and `Backwards` of `DiffProofs`), by `SequenceLemmas!Least` where the induction theorems of the library would need an
operator as parameter.

### Only model-checked

Every safety property a passing run checks - invariants and action properties - is
stated by a theorem. What TLC alone shows:

- the liveness properties (`InputIsServed`, `ChannelCloses`, `CallReturns`,
  `StaleIsReaped`), which need fairness and ENABLED and are out of the prover's reach;
- that the steps the theorems are about happen: that a path is refused, a search stops, a
  run is killed. The runs fire every action.

## Plan

Modelled and checked: every component with state of its own. Proved: every safety
property of the runs. What could come next is what is listed as partly modelled: the
remaining single requests of the forge, the fetching of keys and the discovery document,
and the clamping of timeouts.

## Not modelled

- The gateway's request and response types and its single-request methods
  (`aigateway/api.go`, `handover.go`, `tools.go`, web search and fetch), Mongo and Redis
  wrappers, `httptools`: one call each, delegated, without state.
- Tracing and logging: configuration of libraries.
- The terminal, the transcript and links: formatting and I/O.
- Of script execution, the clamping of timeouts, the truncation of output and the hint
  about sleeping; clamping wraps for requests of centuries and is one expression.
- Of authentication, the discovery document and the fetching of keys; of the forge, the
  operations that are a single read. Mocks are generated.
