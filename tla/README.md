# dukkha in TLA+

dukkha runs *tasks*: a YAML configuration names tools (`buildah`, `golang`,
`workflow`, ...) and tasks of those tools; a task has a *matrix* (its entries are
combinations of values), *hooks* around its execution and around each entry, and
fields rendered by *renderers* (env, templates, files, http, git, ...).
`dukkha run <tool> <task>` executes a task once per matrix entry, several entries at
a time; an action of a hook or of a workflow may run another task.

This directory holds TLA+ modules translated from the Go source, TLC configurations
that check them on small instances and TLAPS proofs for all instances.
`PROJECT.json` maps every definition to the lines it stands for, and lists the runs,
the hazards and, per property, a slip in the code that would break it.

Contents: [1 The system](#1-the-system) - [2 The modules](#2-the-modules) -
[3 What the runs show](#3-what-the-runs-show) - [4 Bounds](#4-bounds) -
[5 Fairness](#5-fairness) - [6 What is proved](#6-what-is-proved) -
[7 What is only model-checked](#7-what-is-only-model-checked) -
[8 Where code and documentation disagree](#8-where-code-and-documentation-disagree) -
[9 What is not modelled](#9-what-is-not-modelled) - [10 What remains](#10-what-remains)

To check a module: `tlc -config RunTask.cfg MCRunTask`; to prove one:
`tlapm RunTaskProofs.tla`.

## 1 The system

Paths are relative to `src/pkg`. "Hard" names the behaviour a test hardly reaches.

| component | state | operations | hard | what makes it correct |
|---|---|---|---|---|
| **task execution** `tools/run_task.go`, `dukkha/context_exec.go` | errors collected, `waitCh` (worker tokens), `wg`, sequence number, the request's context | `RunTask`, `CreateTaskMatrixContext`, `ClaimWorkers`, `NextMatrixExecOptions`, `Cancel` | goroutine per entry, fail-fast and interrupt at any point, errors in every goroutine and in two levels of deferred functions | worker limit; `after*` hooks find nothing running; no error is lost; fail-fast cancels, nothing else does; it returns |
| **actions** `tools/action.go`, `tools/actions_resolve.go`, `tools/hook.go` | the list of actions shared by all entries, `BaseTask.mu`, a mutex per action, the state of the context | `ResolveActions`, `next`, `Action.DoAfterFieldResolved`, `GenSpecs` | the list is rendered again, with other values, between two actions; locks taken in nested closures; errors ignored at one level and not at another | each entry runs actions made from its own values; locks are given back; an error ends the chain only when it must |
| **doRun** `tools/run.go` | nested specs, outputs kept under tokens, the environment, flushers of translated output | `doRun`, `AlterExecFunc` callbacks, `setReplaceEntry` | what a spec does depends on the output of earlier ones; a callback returns more specs; an error leaves some levels | a command finds every token replaced; the environment of an entry is its own; every flusher ends |
| **tools** `tools/buildah`, `tools/docker`, `tools/golang`, `tools/cosign` | containers, images, manifests and image id files; `manifestCache`; compiled tests; key files | `GetExecSpecs` of each task and the callbacks of its specs | entries share names, caches and files; the last entry publishes for all; what an earlier run left | the image is what the steps describe; a manifest has each entry's image; the tests that run are the entry's own; a signature is checked with the key of its own pair |
| **matrix** `matrix/*.go` | none (pure) | `GenerateEntries`, include, exclude, filters | order and duplicates of entries | the entries are those of the product that the filters keep, once each |
| **lazy values** `utils/lazy.go` | `initialized`, `writing`, `value` | `Get` | two counters in place of a lock | created once, never read before, every call returns |
| **cache** `cache/two_tier.go`, `cache/cache.go` | files named by the time of their fetch, an in-memory LRU | `Get` with refresh, expiry and size limits | several processes over one directory, crash while a file is written, two lookups of the same object | what is returned was fetched whole, and is not older than allowed |
| **configuration** `conf/*.go`, `tools/tool.go` | the merged configuration, paths visited, renderers, shells, environment, tools with their tasks | `Read`, `Merge`, `Resolve`, `AddTasks`, `RunTask` of a reference | includes that lead back, one file under several paths, Go maps gone through in any order | every include is read once; options, variables and tasks come from the right document; a reference finds the task it names |
| **diff** `diff/*.go`, `cmd/diff/*.go` | a trie per document, the keys of the differences | `Diff`, `Node.Get`, `diffFile`, `reasonDiff` | slices that share a backing array; files with different numbers of documents | a difference is reported exactly where the documents part, under its own key |
| **terminal output** `utils/ansi_writer.go`, `output/*.go` | lines on the writer's screen, the cursor, how much was shown | `Write`, `Flush`, flusher goroutine | a flusher per spec and a channel variable shared by them | no line is skipped, no flusher stays behind |
| **git renderer** `renderer/git/*.go`, `renderer/ssh` | bytes left of the current packet, the tar reader, the ssh session | `fetchRemote`, `Read` of packets and side bands, `Close` | partial reads; the session is closed while the archive arrives | the payload comes out whole and in order; a fetch ends |
| **other renderers** `renderer/af`, `renderer/http`, `renderer/s3` | a buffer a tar can seek in, the cache's key | `untar`, `unzip`, `unarchive`, `RenderYaml` | links that lead back in a stream; keys that do not tell values apart | a value is answered with what it names |
| **rendering context** `dukkha/ctx_rendering.go`, `dukkha/env_values.go` | layered env, matrix values, renderers | `DeriveNew`, `AddEnv`, `WithCustomParent` | a derived context shares some layers | an env entry is seen where it was meant |

Template functions, tools that only turn fields into commands, parsing, the constants
other than the tables of architectures, and vendored code complete the list in
`PROJECT.json`.

**How they interact.** The command line reads the configuration, which makes the tools
and gives each its tasks, builds one base context, cancelled by the first
`os.Interrupt`, and calls `RunTask` per task named. `RunTask` generates the entries of
the matrix and asks `BaseTask` for the specs of hooks and the tool's task for those of
each entry. Specs are executed by `doRun`: a spec is a command, a callback that may
return more specs, which `doRun` executes before the rest, or a request to run another
task, for which it calls `RunTask` again with a context derived from this one. Actions
of hooks and workflows are such callbacks: a closure resolves the *next* action and
returns more specs, so that `doRun` and `next` alternate, nested one level per action.
Resolution of fields calls renderers, which call the caches. Goroutines of different
entries share the task, its hooks, the tool and its caches, and the request's context,
and meet in `BaseTask.mu`, the mutexes of actions, `waitCh`, `wg`, the mutex of the
error list and the files the tools leave.

## 2 The modules

| module | what it is |
|---|---|
| `TaskPool` | abstract: what one execution of a task promises, a bounded pool with a result |
| `RunTask` | `RunTask` with its goroutines; refines `TaskPool` |
| `MCRunTask` | instance for TLC, and two statements of the documentation |
| `RunTaskProofs` | invariants of `RunTask`; its refinement of `TaskPool` |
| `ActionChain` | a list of actions run by several entries |
| `MCActionChain` | lists of actions for TLC, and two statements of the documentation |
| `OnceValue` | abstract: a value created once |
| `LazyValue` | `LazyValueImpl.Get` on its shared words; refines `OnceValue` |
| `SharedProofs` | invariants of `ActionChain` and of `LazyValue`, and its refinement of `OnceValue` |
| `TwoTierCache` | `TwoTierCache.get` for one object, by goroutines of several processes |
| `TwoTierCacheProofs` | invariants of `TwoTierCache` |
| `MCTwoTierCache` | instance for TLC, and two statements of the documentation |
| `ExecSpecs` | the engine: `doRun` over nested specs, several entries at a time |
| `TaskMatrix` | the entries of a matrix, and a reference definition of them |
| `ArchTables` | the tables of architectures, platforms and toolchain triples |
| `BuildahTasks`, `BuildahHost` | the specs of the buildah tasks; their callbacks and commands |
| `DockerTasks`, `GoTasks`, `CosignTasks` | the same for docker, golang and cosign |
| `ToolRun` | composes the engine, the matrix and the tools |
| `MCToolRun` | jobs for TLC, and two statements of comments |
| `ToolRunInvariants` | the inductive invariants of the engine and of each tool |
| `EntriesProofs` | of any job: the engine's invariants, the entries of its matrix, the toolchain triples; what `cosign`, `buildah push` and `go test` promise |
| `ToolRunProofs` | on it: the containers of `buildah xbuild`, the tokens of all buildah commands, the manifests of buildah and docker |
| `ConfigRead`, `ConfigResolve` | reading the configuration; what is made of it, and the tasks then run |
| `MCConfig` | file systems and command lines for TLC, and a statement of a comment |
| `ConfigProofs` | no path is read twice; what is made of the documents is what their order gives |
| `DocDiff`, `MCDocDiff` | `dukkha diff`; documents for TLC, and an assertion of the code |
| `MCDocuments` | the last two in one run |
| `AnsiOutput`, `MCAnsiOutput` | translated output and its flushers; what commands write, for TLC, and two statements of comments |
| `AnsiOutputProofs` | no line is skipped, also when flushes fail |
| `GitFetch`, `MCGitFetch` | a file fetched by git over ssh; replies of the remote for TLC, and two statements of the documentation |
| `GitFetchProofs` | tar is given what the packets carry, and an answer is what the archive's first entry has |
| `ArchiveFile`, `MCArchiveFile` | a file of an archive; archives for TLC, and three statements of the documentation |
| `RemoteRequest`, `MCRemoteRequest` | what git, http and s3 fetch for a value, under which key; values for TLC, and two statements of the documentation |
| `MCRenderers` | the last three in one run |

Operators called `Mut...` are not part of a model: each is a slip in the definition
below it, kept to show that a property notices it.

### RunTask

`pc` is the point the caller's goroutine has reached, `epc[e]` that of the goroutine
of entry `e`; a pc names the call being executed, so that "two hooks overlap" means
that both pcs are there.

| variable | code |
|---|---|
| `workers`, `failFast` | `RuntimeOptions.Workers`, `.FailFast` |
| `n`, `cur` | `len(matrixSpecs)` and the index of the `for` loop |
| `seq`, `eseq[e]` | `opts.seq` of the execution's options; `Seq()` of the entry's |
| `err`, `errCollection`, `err3[e]` | the named result, the collected errors (by owner), the goroutine's variable |
| `cancelled`, `interrupted` | `req.Context` is done; the cause lies outside this `RunTask` |
| `waitCh`, `wg` | tokens in the channel, counter of the `WaitGroup` |
| `faults` | history: owners of steps that failed |

| action | code in `run_task.go` |
|---|---|
| `ResolveToolEnv`, `HookBefore`, `GenerateMatrix` | the part before the loop, with its three early returns; `after` is deferred only after the first |
| `CreateMatrixContext`, `NoMoreEntries` | `CreateTaskMatrixContext` and the loop; a failure cancels under fail-fast and leaves the loop, else goes on |
| `StartEntry`, `StopStarting` | the two cases of the `select`; both enabled means Go picks at random |
| `WaitEntries`, `HookAfterFailure`, `HookAfterSuccess`, `HookAfter` | `wg.Wait()` and what follows, the deferred function included |
| `HookBeforeMatrix` ... `HookAfterMatrixSuccess` | the body of the goroutine |
| `DeferredCancel`, `HookAfterMatrix`, `WgDone`, `Release` | its deferred functions, in their order |
| `Interrupt` | the parent of `req.Context` is cancelled |

A hook (generating its specs and running them) is one step that succeeds or fails:
its inside is `ActionChain`. Hooks run with a context without a parent, which no
cancellation reaches; that is why a started entry runs all its hooks. Errors are kept
as the set of their owners: nothing depends on how many an owner has.

### ActionChain

Every goroutine goes round `lock` - `list` - `action` - `run` - `next`:

| stage, action | code |
|---|---|
| `lock`, `Lock` | `BaseTask.mu`: around the first call for a hook (`GetHookExecSpecs`), around every call for the jobs of a workflow |
| `list`, `ResolveList` | `x.DoAfterFieldsResolved(mCtx, 1, ...)`: the list is rendered with the values of this goroutine |
| `action`, `ResolveAction` | the closure inside: past the end, `if` is false (call `next` for the following index), `GenSpecs`, or an error |
| `run`, `RunAction` | the first spec: `doRun` executes the command, script or task; `Ignores` is where `continue_on_error` counts |
| `next`, `ResolveNext` | the second spec: the action's `next` is resolved and `next()` called again |

`list` says whose values the shared list was rendered with last (it matters only for a
list with a rendering suffix, `rendered`), `values[g]` whose values the action was made
from that `g` runs, `state[g]` the state of the execution context.

### LazyValue

One action per atomic operation or plain access: `Enter` (`AddInt32(&writing, 1)`),
`Swap` (`CompareAndSwapInt32`), `Create`, `Done`, `Leave`, `Spin`, `Return`. The plain
field is one word in the model; that no two goroutines touch it at once is the property
`OneWriter`, which makes the abstraction sound.

### TwoTierCache

One object of one cache directory; a file is the second in its name. The remote has one
version at a time, content is a sequence of chunks, and a chunk is the version it is of
or a hole. `files[t]` is what a reader of file `t` gets; `of` and `spoilt` are history
(the version its writers copy; whether one of them failed, died or had another
version). `until[v]` is history too: when the remote replaced version `v`.

| stage, action | code in `cache/two_tier.go` |
|---|---|
| `idle`, `Call` | `HandleRenderingRequestWithRemoteFetch` calls `Get` or `GetPath` with the time of day |
| `memory`, `GetFromMemory` | `memcache.Get`, for content only |
| `lookup`, `Lookup`, `LookupFails` | `lookupLocalCache`: one listing, split at `now - MaxAge` |
| `listed`, `RemoveExpired` | all expired files but the last, one removal per step, oldest first |
| `listed`, `UseActive` | the last active file is read; it may be gone or half-written |
| `listed`, `Refresh`, `RefreshFails`, `NoDirectory` | `Stat`, `MkdirAll` and `refresh(obj)` |
| `stale`, `UseExpired` | the last expired file, with the error of `refresh` |
| `open`, `OpenFile`, `OpenFileFails` | `storeLocalCache` truncates or creates the file |
| `copy`, `CopyChunk`, `CopyFails` | `io.Copy`, a chunk per step, at the writer's own offset |
| `store`, `Store` | `memcache.Set`, if the limits allow, and the return |

`Tick`, `Publish`, `Evict` and `Crash` are the environment: the clock, the remote, other
objects in memory, the death of a process. A writer whose file was removed goes on
writing to a file without a name (`linked` is false).

### ExecSpecs, ToolRun and the tools

`ExecSpecs` is `doRun` as the tasks of tools use it. A spec has an operation, arguments,
the token its output is kept under (`StdoutAsReplace`), `IgnoreError` and a suggested
environment.

| variable, action | code in `tools/run.go` |
|---|---|
| `frames[g]` | the nested calls of `doRun`, each with the specs left to it |
| `replace[g]` | the map of kept outputs, which nested calls share |
| `env[g]` | the environment of the context, to which `EnvSuggest` adds what is not there |
| `Start`, `Generated`, `NotGenerated` | a worker token and `GetExecSpecs` (abstract here; `RunTask` has the detail) |
| `Succeed` | the spec succeeded, with the specs its callback returned |
| `Fail`, `Unwind` | an error leaves the nested calls up to the first whose spec ignores it |
| `NoToolCmd` | the tool's command cannot be resolved |

The modules of the tools extend it: each gives the specs of `GetExecSpecs`
(`XBuildSpecs`, `PushSpecs`, `GoTestSpecs`, ...) and for every operation an action that
is the callback of the Go code, or the command, which is external. A command or callback may always fail, and then changes
nothing but a file it was writing; it must fail when what it is about does not exist. An
image, or what is in a container, is its base and the steps since, so that "the image is
what the steps describe" compares two sequences. `tags`, `idFiles`, `manifests`,
`binaries` and `keyFiles` may hold what an earlier run has left.

A public key of cosign is written in two steps, `TruncateKey` and `PublishKey`: the
callback holds no lock, and another entry may read the file in between. `publishing` are
the entries that have truncated theirs and written nothing since; if the write fails,
nothing repairs the file. What several leave who write different keys to one file at once
may be some of each (`Mixed`). The private key is written in `GetExecSpecs`, under
`BaseTask.mu`, in one step.

`ToolRun` puts them together: the entries come from `GenerateEntries`, each runs in its
own goroutine, every step is one spec of one entry.

### TaskMatrix and ArchTables

Pure. `GenerateEntries` follows the loops of `matrix/matrix.go`; `EntriesExact` says,
without loops, which entries there are and in which order. `ArchTables` is the tables of
`constant`, rows that differ in nothing but the name of the architecture being one.

### ConfigRead and ConfigResolve

The recursion of `Read`, `readAndMergeConfigFile`, `loadConfig` and `handleInclude` is a
list `todo` of calls left to make. A path is a sequence of names; what it leads to is its
real path, what `visitedPaths` remembers is the path as it is spelled. `ReadTarget`,
`ReadFile`, `LoadDoc`, `DocsLoaded`, `HandleInclude` and `ReadFails` are those four
functions. `ConfigResolve` goes on with `ResolveEnv`, `SetOptions`, `AddTasks`,
`AddTool` (`Config.Resolve`), and `RunTask`, the task asked for and those its actions
refer to. An option of `global` has two parts, its literal and the reference of a key with
a rendering suffix: a field with a suffix stays unresolved while documents are merged, so
that each part is inherited on its own (`Inherited`), and what is rendered after all merges
takes the place of the literal (`Resolved`). Groups of tasks and kinds of tools are Go maps: the order is chosen at random
(`left`).

### DocDiff

A document is its nodes in order, a node its path. `heap` has the arrays under the keys,
so that `append` writes into an array that has room, as in Go. `Decode` is one turn of
the loop of `diffFile`, `DiffNodes` and `DiffChild` are `diff.Diff`, `ReasonEntry` is
`reasonDiff`.

### AnsiOutput

One `doRun` with a sequence of commands, each with an `ANSIWriter` (`lines`, `pos`,
`currentAt`) and a flusher: `Select` (the cases of the `select` are evaluated, reading
the one variable all flushers share), `Tick`, `FlushOnTick`, `Signaled`, `LastFlush`.
`Write`, `WriteCharacter` and `Written` are `ANSIWriter.Write` under its lock. Every flush
may fail at any of its lines (`FailingFlush`): that of the flusher (`FlushFails`,
`LastFlush`), after which it flushes once more and ends though its command goes on, and
that of a `Write` that has many lines, after which the command's stream is read no further.
`failed` is history: the commands of which a flush of the flusher failed.

### GitFetch

Bytes are cells; two are a block of an archive. `Arrive` moves one from the wire to the
pipe. `Connect`, `ReadAck`, `ReadFlush`, `FirstNext` are `fetchRemote`; `SideBandReads`
is `SideBandReader.Read`, `ReadStops` its two other ends: a band it does not know is an
error, and a packet of a band alone makes it write before its buffer, which panics. `Skip` and `ReadHeader` are `tar.Reader.Next`, external and
modelled from what it reads; `Read`, `Copied`, `CloseNext` and `Wait` are the cache's
`io.Copy` and the deferred `Close`. `session.Wait` closes the pipe to the remote itself, so
that nothing else has to happen for it to return.

### ArchiveFile

`ReadAt` is `bufferredReaderAt`: what was decompressed is kept, a read before, at or
behind its end. `Open`, `Match`, `SeekLast`, `ReadLast`, `NextHeader`, `UseEntry` follow
`unarchive` and `untar`; `MatchFails` is the case in which the one `Read` of `MatchReader`
ends before the bytes that tell what is in a compressed file. `NotZip` and `OpenInZip` follow `unzip`; `Copy` and `Store` are
the cache's, whose key is the archive alone; which path was asked for first is kept beside
the content as history. Keys do not expire here.

### RemoteRequest

`RenderYaml` of git, http and s3: `UseGitLine` takes a line apart at its last `@`, its
first `.git` and the colons before it, `UseGitSpec` and `UseURL` take a spec or a URL;
then the cache is asked (`Cached`, `Fetch`, `FetchFails`). What a cached value was asked
for is kept beside it as history.

## 3 What the runs show

| run | states | shows |
|---|---|---|
| `RunTask` | 51 036 | up to three entries, 0, 1 or 2 workers, both fail-fast settings, any step failing, an interrupt at any time |
| `ActionChain` | 29 746 | two entries and 18 lists, as hooks or as jobs, rendered or not |
| `LazyValue` | 29 554 | four goroutines calling twice |
| `TwoTierCache` | 5 625 655 | two callers in one or two processes, all three kinds of timeout |
| `ToolRun` | 262 131 | jobs of four tools, of one to three entries, on one worker and on two, any command or callback failing |
| `Documents` | 3 115 | include graphs with cycles, and documents merged in each order, their options literal or rendered; all pairs of ten small documents, differences up to seven levels deep, files of none to three documents |
| `AnsiOutput` | 457 569 | up to two commands with a ticking flusher each, any flush failing |
| `Renderers` | 21 724 | git archives in packets cut at any block, arriving at any time; tar and zip archives, plain and compressed; pairs of requests and of values, also of one key |
| `HookValues` | violation | an entry runs a hook made for another |
| `CachedContent` | violation | a truncated file is answered as cached content |
| `PushManifests` | violation | a push ends well with manifests that were never pushed |
| `FileFetched` | violation | a packet that ends within a file leaves a zero in it |

`RunTask`:

- `WorkerLimit`: never more entries executing, hooks included, than workers. It needs
  the token to come back only after `wg.Done`, and each token once.
- `TokensAccounted`: tokens are dropped only when the context is done, so giving one
  back never blocks.
- `HooksAfterEntries`: `after:success`, `after:failure`, `after` and the return find no
  entry's goroutine in its specs or hooks, though the loop may have stopped early.
- `ErrorsReported`: an error is returned exactly when a step failed in any goroutine
  or deferred function. A WaitGroup released before the last error is collected, or a
  list read before `after` ran, would break it.
- `AfterSuccessSound`: without an interrupt `after:success` means that every entry ran
  and nothing of it failed.
- `FailFastCancels`: the context is done once a failed entry's deferred function is
  past its first step, and for no other reason than that or an interrupt.
- `LastIsLast`: `IsLast()` holds of one entry at most, the last, and only if no entry
  was passed over. `buildah` finishes manifests on it: when the context of one entry
  cannot be created, no entry is the last and no manifest is finished.
- `Returns`: `RunTask` returns if there is a worker; without one (`--workers 0` is
  accepted) only when interrupted.
- `ImplementsTaskPool`: seen from outside, an execution is one of `TaskPool`.

`ActionChain`:

- `LockDiscipline`: `BaseTask.mu` is held inside the sections it guards and free
  afterwards, on each of the ways out (error, skip, end of the list).
- `OwnValues`: jobs, and hooks that have no rendering suffix themselves, are run with
  the values of the entry that runs them, though the list is shared.
- `ChainEnds`, `NoStarvation`: a list whose `next` never points back ends; a goroutine
  gets the mutex even while another one loops for ever (a `next` may name the action
  itself).

`LazyValue`: `OneWriter` (the value is created by one goroutine, and nobody reads it
meanwhile), `ImplementsOnce` (every call returns the one value created), `GetReturns`.

`TwoTierCache`:

- `AnswersFresh`: content from a file or the remote, given without an error, was not
  replaced at the remote more than `MaxAge` before the call began. A file's name must be
  no later than its fetch, whoever overwrites it, and the comparison with `notBefore`
  not off by one.
- `MemoryFresh`: with a timeout, memory never serves content for longer than the
  timeout plus the time its fetch took: its age counts from the end of the fetch, the
  file's from the beginning.
- `FallbackKept`: a file is removed only while a later one is there. Callers act on
  listings of different times, so each keeps the last of *its* expired files; the
  property says that all together never remove the last one there is.
- `FilesComplete`: a file that nobody writes is whole, though two writers of the same
  second truncate and overwrite it; unless a writer failed or died, or they fetched
  different versions. The exceptions are what `CachedContent` shows.

`ToolRun`:

- `MatrixExact`: product, exclude, include and the filters of the command line give the
  entries they describe, in order and, if no vector repeats a value, once each.
- `ContainersRemoved`: an entry of `xbuild` whose steps have ids of their own and that
  ends well leaves none of the containers it made, though its steps changed from one to another and their ids are known only
  from what earlier specs printed.
- `PlaceholdersSet`: no command runs with a token nothing was kept under, nor one whose
  spec had no output, on any way an error is ignored (a failed pull excepted).
- `ImageIsSteps`: the image an entry ends with is what the steps describe from its last
  `from` on; its names and image id files lead to it, whatever other entries do.
- `ManifestPlatforms`: a manifest has the image of every entry that ended well and no
  other for that platform, though an earlier run left one there; unless two entries have
  one platform and one manifest (`Alone`): each removes what is there for its platform, so
  that the image of the one who came first is gone, or both stay if both had looked before.
- `ManifestsPushedLast`: with one worker a push ends with each manifest once, after all
  images, and nothing stays in the cache. (With two, see `PushManifests`.)
- `TestsRun`: `go test` runs the tests of the packages that have some, and with one
  worker those the entry compiled itself, for its own architecture or the user's. With two
  workers an entry may run what another has compiled to the same path
  (`task_gotest.go:215`): the property says nothing of that.
- `SignaturesVerified`: a signature is found where it was made, though a repository of the
  user's replaces the task's, and is checked with the public key of its own private key,
  though the entries share the key files. With the keys in order `verify` finds nothing
  wrong but a public key file that another entry with the same private key has truncated
  (see `VerifiedWithKey`), and an entry that ended well has had everything it signed verified.
- `TriplesAgree`: the GNU, Debian and LLVM triples of an architecture are for one
  target, each table being written by hand (the 32-bit x86 of Debian's musl excepted).

`Documents`, of reading the configuration:

- `IncludesRead`: reading ends whatever includes what; what is read is what the file
  system and the include lists lead to, no less and no more; no path is read twice, and
  a file once if it has one name.
- `ConfigResolved`: options, variables, values, tools and the tasks of each tool, and
  the tasks that are then run, depend on the order of the documents alone, not on that
  of a Go map, and are the ones that order gives. An option is what the last document with
  a rendering suffix for it gives, whatever comes later without one; if that is nothing,
  what the last of the others gives.

`Documents`, of `dukkha diff`: `DiffExact` (entries exactly where the documents part, once each and of the
right kind; it says nothing of their keys, which may be written over by each other, see
`DiffSetValid`), `DocumentsPaired` (the loop ends, and all documents of all files have been compared in
pairs).

`AnsiOutput`: `NoLineSkipped` (what has been flushed has been shown, each line after the
one above it, also when a flush failed between two of them; and when a flusher has ended
and none of its flushes failed, its command had written its last before, every line was
shown and the one the cursor is on is shown as it is), `FlushersEnd` (each flusher ends
when `doRun` has returned, though it may wait for the channel of a later command, unless
the process ends first). What is written to a line after it was flushed is lost: see
`LinesWhole`.

`Renderers`:

- `StreamKept`: tar is given what is in git's packets, in order, nothing lost or made up,
  the last byte of each packet and no other as zero, however packets are cut and read; and
  an answer is the content of the archive's first entry, all of it, which is the file's, or
  nothing where the first entry is a commit's header. That the file suffers from both is
  what `FileFetched` says.
- `WholeAnswered`: a fetch whose archive has arrived when the session closes is answered,
  if the remote sent nothing but it, in packets the reader takes. What becomes of the
  others, see `FetchEnds`.
- `Extracted`: a request to af is answered with what it is for, or with what the first
  request for the same archive was for, which shares its key; and it fails, once the
  archive was opened and recognised, only if there is no such file, the archive is not
  whole or is a compressed zip, however little the decompressor gives at once and however
  often tar seeks back. For the rest see `FileExtracted`, `ZipOpened` and `ArchiveRecognised`.
- `AnsweredAsAsked`: what git, http and s3 answer is what the value names, or what the
  first value with its key named, of the same renderer, whatever they have answered for
  others; and two values of one key, git specs excepted, are of the same file or URL. For what
  the key leaves out see `OwnAnswer`.

What "see" names is a statement of [section 8](#8-where-code-and-documentation-disagree) that the code does not keep.

Every property that holds has a slip of the code under which TLC finds it violated
(`mutants` in `PROJECT.json`): an error that is not collected, a WaitGroup counted up
too late, a token not given back, a lock kept on the skip path, and so on.

## 4 Bounds

| bound | where | why it is enough |
|---|---|---|
| `MaxEntries = 3` | `RunTask.cfg` | with two workers two entries run while the third waits for a token, which is every relation the code distinguishes between entries; a third entry is passed over, interrupted or started late |
| `WorkerOptions = {0,1,2}` | `RunTask.cfg` | none, fewer than entries, and (for one entry) more than entries |
| 2 goroutines, lists of at most 2 actions | `MCActionChain` | one goroutine may get between two accesses of another; a list of two has a following, a skipped, a backward and a self `next` |
| 4 callers, `MaxCalls = 2` | `LazyValue.cfg` | a writer, a reader that spins, one that comes and goes and one that arrives late; the second call finds the value created |
| `StartTime = 2`, `MaxTime = 3` | `TwoTierCache.cfg` | a file of an earlier run (second 1) and two seconds in which calls begin: with timeout 1 a file is active, then expired; with timeout -1 (caching not enabled) all three are expired at once and the file of a slow writer is removed under it |
| `MaxAges = {-1, 0, 1}` | `MCTwoTierCache` | not enabled, no expiry of memory, expiry of both tiers; each finds a slip the other two do not |
| `Chunks = 2`, `MaxVersion = 2` | `TwoTierCache.cfg` | half a file, and a change of the remote between two writers |
| 2 callers, 2 processes | `TwoTierCache.cfg` | two callers share memory or do not; callers and processes are interchangeable, so symmetry is sound: no liveness is checked |
| 1 caller | `CachedContent.cfg` | smallest instance |
| jobs of 2 entries, 3 where order matters | `MCToolRun` | two entries interleave at every spec; three are needed where the last entry differs from the others and one of those fails (`push`, `xbuild` with a platform of its own). Two entries of one platform share a manifest that a third has too (`SamePlatforms`). Matrices have up to six entries, within `MaxEntries = 8`, each tool's login runs for every architecture |
| one or two names per task, one to six steps | `MCToolRun` | a first and a last name (a manifest is inspected for the first alone); a step of every kind, skipped, committed and named ones, and a change of container |
| 18 setups | `MCConfig` | a cycle of includes through directories, patterns and texts, under six ways to name it, and three documents in three orders with each kind of option in two of them, a rendered one before and after a literal |
| chains up to depth 5, differences to 7, siblings below depth 5 | `MCDocDiff` | the arrays of `append` have room for 1, 2, 4 and 8 names: each length up to 8 is met with and without room |
| 2 commands, `MaxTicks = 2`, `Threshold = 2` | `AnsiOutput.cfg` | a flusher that reads the channel of the next command needs two; two ticks fall before and after any write; two lines reach the threshold (16 in the code) at which a write flushes |
| files of 0, 1, 3, 4 cells, cut at any block | `Renderers.cfg`, `MCGitFetch` | empty, with and without padding, shorter and longer than `Buffer = 3` cells; every cut before, in and after the file |
| `Matched = 2`, `ArchiveBuffer = 2` | `Renderers.cfg` | archives of more than what `MatchReader` reads (8192 bytes in the code), and files that take more than one read; names of one or two components have a link within, into and out of a directory; one path, two paths of one archive, and none |
| pairs of values | `MCRemoteRequest` | a value is answered from what one other has left in the cache; of one renderer and of two, with the same key and with different ones |

`MaxCalls`, `MaxEntries`, `MaxTime`, `MaxVersion`, `MaxTicks` and `MaxCommands` are the
only counters capped. The theorems of section 6 do not depend on any of these numbers.

Chosen in `Init` and then fixed: the options of `RunTask`, the list of `ActionChain`,
the job of `ToolRun`, the setup of `ConfigRead`, and so on, so that one run covers all of
them. In `Renderers` one of the three modules is asked something in each behaviour, in
`Documents` one of the two: they share no state, so that nothing is lost.

## 5 Fairness

- `RunTask`: weak fairness of the caller and of every entry's goroutine. The Go
  scheduler is preemptive, so that a goroutine that can run does run; a hook or command
  is assumed to end. `Interrupt` has no fairness: nobody needs to interrupt. The choice
  of the `select` has none either: `Returns` does not need it.
- `ActionChain`: weak fairness of each goroutine and strong fairness of `Lock`: a
  waiter of `sync.Mutex` gets it after at most a millisecond of waiting in vain
  (starvation mode), though it is not free all the time.
- `LazyValue`: weak fairness of a goroutine inside `Get`; nothing makes it call `Get`.
  A reader spins until `writing` is 0 at the moment it looks. With weak fairness alone
  callers that came back for ever could keep it from ever seeing that; here each calls
  at most `MaxCalls` times, as a command evaluates finitely many expressions. So
  `GetReturns` says that no reader is stuck by the algorithm itself, not that a storm of
  readers cannot delay one.
- `ConfigResolve`, `DocDiff`: weak fairness of a step of the one goroutine there is.
- `AnsiOutput`: weak fairness of `doRun` and of each flusher. `ExitProcess` has none: a
  process may run other tasks as long as it likes, and `FlushersEnd` says what happens
  if it does.
- `GitFetch`: weak fairness of the fetch and of `Arrive`, which is possible while the
  session is open: the remote sends what it has to send.
- `TwoTierCache`, `ToolRun`, `ArchiveFile`, `RemoteRequest`: none. Their properties are
  about safety; a command or a refresh may take for ever.

## 6 What is proved

All theorems hold for every value of the constants that satisfies the assumption of the
module: `OptionsAssumption` (a bound that is a natural number, worker limits that are
natural numbers, Boolean fail-fast), `ActionChainAssumption` (lists are sequences of
actions whose `next` is unset, unknown or an index of the list; `None` is no goroutine),
`LazyValueAssumption` (finitely many callers; the zero value is not one that
`create` gives) and `CacheAssumption` (timeouts are integers; content has a chunk, the
remote a version, and the clock may start after second 0), `ExecAssumption` and
`JobsAssumption` (a task has an entry at least, at most `MaxEntries`, and a worker),
`DocumentsAssumption` (what is parsed has the types the Go structs give it: include
lists, environments, tools and tasks are lists, a group of tasks is of one kind, file
systems are finite; `GIT_DEFAULT_BRANCH` is among dukkha's own variables),
`MatrixAssumption` (a matrix, and each of its include and exclude items and the filter, has
finitely many keys, each with a list), `NamesAssumption` (in `ConfigRead` the names of files differ, in `ToolRun` the names of
an image and the steps of a task are lists), `EarlierRunsAssumption` (the manifests an
earlier run left are of finitely many images, each with its platform; an image id it left
is not one of the tokens nor an id this run will make, and the one an image has is not empty), `GoAssumption` (the packages of a test are a list, those with
tests are of them) and `CosignAssumption` (the targets are a list; a key file of the
cache, which is named after the private key in it, has that key or as much of it as was
written), `OutputAssumption` (commands are a list, the threshold of a flusher is
positive) and `RepliesAssumption`, which is what the protocol says of a remote: a reply is
whole packets, and those after the first flush that are no flush themselves begin with a
band, known to the reader or not, with or without anything behind it.

**RunTask** (`RunTaskProofs`). None of the invariants is inductive alone. That
`after` finds no entry executing rests on the WaitGroup counting executing entries
*exactly* (`WgCounts`); the worker limit on every executing entry owing a token
(`TokensAccounted`); that no error is lost on where an error can be at each point
(`ErrorsKept`); that `after:success` means success on what the loop has left behind it
(`LoopDone`) and on why a context is done (`CancelCause`); `LastIsLast` on sequence
numbers trailing the loop by the entries passed over (`Sequence`, `Placed`). `IInv` is
their conjunction:

- `RunTaskInvariant`: `Spec => []IInv`. Frame lemmas first say what a step of an
  entry's goroutine, or of the caller, leaves alone (`EntryFrame`, `CallerFrame`,
  `EntryPool`, ...); then one lemma per conjunct.
- From it `RunTaskTyped`, `WorkersLimited`, `TokensNeverLost`, `HooksFindNoEntry`,
  `EveryErrorReported`, `SuccessIsSuccess`, `FailuresSkipNoEntry`, `FailFastDoesCancel`
  and `LastIsTheLast`: every safety property of the run, for any number of entries and
  workers.
- `RunTaskImplementsTaskPool`: `Spec => Pool!Spec`. `EntryRefines`
  and `CallerRefines` map each step to one of `TaskPool` or to a stutter; the
  invariants enter where the abstract step has a guard: `StartEntry` is a `Begin` by
  `TokensAccounted`, `HookAfter` a `Return` by `HooksAfterEntries`.

**ActionChain** (`SharedProofs`): `ChainInvariant`, and from it `ChainTyped`,
`LocksAreKept`, `ValuesAreOwn`, `StateIsFinal`. `ValuesAreOwn` is the
one with an argument: between the rendering of the list and the use of an action nobody
else renders it (`OwnList`), because who is there holds `BaseTask.mu`
(`LockDiscipline`).

**LazyValue** (`SharedProofs`): `LazyInvariant`, `WritesAlone`,
`GetImplementsOnce`. `writing` is the number of goroutines between their first and last
count (`Counts`), so who reads 0 knows that nobody is in `create()`; and once
`initialized` is set the value is there or being created (`Elected`).

**TwoTierCache** (`TwoTierCacheProofs`): `CacheInvariant`, and from it every property of
the run: `CacheTyped`, `AnswersAreFresh`, `MemoryIsFresh`, `FallbackIsKept` and
`FilesAreComplete`. `IInv` adds what each of them rests on:

- a chunk of file `t` is of a version the remote had at `t` or later (`FilesFresh`),
  because a caller fetches after its call began (`FetchFresh`); with what is known of a
  listed file (`ActiveInTime`) that makes a cached answer fresh (`AllAnswersGood`);
- what expires in memory at `e` was current at `e - timeout - fetch time` or later
  (`MemorySince`);
- whatever a caller takes for expired, a file at least as late is there (`Listed`), so
  that removing all but the latest of its list leaves a later one, though the list may be
  out of date;
- a chunk missing from an unspoilt file is still to come from a writer that has not got
  there yet, and all its writers copy the same version (`Complete`).

`QuietStep`, `Apart` and `GetCases` reduce the fifteen actions of a caller to the four
that touch a file.

**ToolRun** (`EntriesProofs` and `ToolRunProofs`; the invariants are in
`ToolRunInvariants`): `ToolRunTyped`,
for any jobs: an entry runs exactly while a `doRun` of its own has specs left, the
outermost call ignores no error, no more entries run than there are workers, and what is
kept is a result. The tools have some fifty actions; `BuildahEngine`, `DockerEngine`,
`GoEngine` and `CosignEngine` show that each is one of six steps of the engine, whatever
specs it returns, and only those six have to preserve the invariant. `TypeOK` is not
inductive: `Calls` adds that the nested calls are a sequence of well-formed records, which
popping the finished ones (`ReturnedWellFormed`) and unwinding an error (`UnwindStep`)
keep. On it rest:

- `ToolRunTriples`: `TriplesAgree` for any architecture. No state matters to it, only
  that the tables agree wherever all three have a triple.
- `ToolRunMatrix`: `MatrixExact`, for any matrix, include and exclude lists and filter.
  The product is a recursive function of the set of keys, the entries one of how many
  points have been looked at. That such functions exist at all has to be shown, by a least
  number of keys (`RowsExist`) or points (`ResultsExist`) for which they would not; so has
  what they give. The rows of some keys are what these describe, each before the next
  (`RowsAre`), if those without the last key are, since that key varies fastest
  (`TimesRows`). After `n` points the entries are those of them that are kept; of two that
  come from the product the first is before the second, and what is included later was
  not there (`ResultRight`). An order without repeats counts, so if no vector repeats a
  value there are as many entries as points described.
- `ToolRunSignatures`: `SignaturesVerified`. The specs of a cosign entry are a list
  executed by one `doRun` (`AtSpec`, `LinearSucceed`, `LinearFail`), so that an entry is
  known by how far it has come. `CosignInv` says that whatever its specs so far promised
  has been achieved: what is signed has a signature made with the entry's key, and the
  public key, where one is written, is there before anything is verified (`Verifiable`):
  whole, or torn while `publishing` has an entry of the same private key (`BeingWritten`),
  which is either still writing or has failed. An entry writes its own before it verifies,
  so that it never is the one.
  The entries share the key files and the signatures, so each step needs that no step of
  another undoes it (`SignedStays`, `PublishedStays`, `VerifiedStays`), for which every
  signature must have been made by an entry that has that target (`KeysInOrder`), and a
  file named after a key must hold that key.
- `ToolRunManifestsLast`: `ManifestsPushedLast`. With one worker the entries have turns
  (`InTurn`: who has begun has only ended ones before it). While nothing has failed and
  the last has not begun, the cache has the manifests of all who have (`Collected`), each
  under one name; the last takes them, and then what was pushed last is the part of its
  list it has come to (`LastPushes`). `AllInOrder` and `NamesCounted` make a list of a set,
  as the code sorts the cache before pushing.
- `ToolRunTests`: `TestsRun`, for any packages and any test binaries left from before.
  Here callbacks return specs, so an entry has nested calls: `Todo` is what is left to
  each, `Stepped` what a spec changes of it (`SucceedCalls`, `IgnoredCalls`). `GoTestInv`
  says that an entry lists the packages (`Listed`) or has come to the spec `q` of those for
  the packages or to what the `plan-run` before it has added (`Tests`); then each
  `plan-run` before `q` has run the test of its package, or is about to (`AllTested`),
  which rests on no package with tests having `no test files` kept for it (`Kept`). With
  one worker nobody else writes to the paths that the entries share (`OnlyOne`), so what was
  compiled before `q` is the entry's own, unless it is to be compiled next (`AllMade`). The
  architecture is right because no spec suggests another one and the environment keeps the
  first it gets (`EnvRight`).

- `ToolRunContainers`: `ContainersRemoved`, for any list of steps whose ids differ
  (`DistinctIDs`), however many entries run at once and whichever commands fail. Without
  that hypothesis it does not hold: ids are kept under one token each, and the container
  of the first of two steps of one id is not known at the end (a step without an id has
  its number for one, which another step may have been given). A list of specs is here
  what `FlattenSeq` joins from the steps; `XBuildListed` says at which place the block of each
  step begins and that the removal comes behind all of them, `CtrList` what the list has
  to be like for the argument: a `from` prints the container `inspect` then names, what
  a step begins with is kept as the current container or as what the `from` gave, and no
  two places keep the id of one step. `CtrInv` then says, of an entry that has come to a
  place of its list (`Placed`), that each container it made is kept for a step that the
  removal goes through, or is what the entry is just being told, and that what it works
  in is a container of its own. A callback may return specs to be executed before the rest
  (`manifest rm`, `rm` of each container), whose place is in the list returned. The removal
  goes through the kept ids from the last on and takes each once; that none is left out
  (`VisitedAll`) is shown by a least counterexample, as is what the blocks of all steps
  together are (`FlattenBlocks`).
- `ToolRunPlaceholders`: `PlaceholdersSet`, for any task of buildah, on any matrix, with
  any number of workers and whatever earlier runs left, provided that the first step of an
  `xbuild` that is not skipped makes a container (`StartsFrom`) and that what is copied
  from a step is copied from an earlier one (`EarlierSteps`). The code checks neither:
  otherwise buildah is given a token as it stands, or nothing for a container. `SetList`
  is what a list of specs has to be like: a token is used only behind a spec that keeps
  something under it, an image is committed or built before its id is read, and the id is
  read before manifests are updated. The first step keeps the current container before
  there is one, and keeps it again after its `from`; nothing uses that token in between.
  `SetInv` says of an entry that has come to a place of its list that the specs before it
  have kept what they should (`SetKept`) and that all that is kept is something
  (`DataSet`); a data that comes back as an argument is no token itself, which rests on
  what the entries share (`SetHost`: tags, image ids and their files, manifests), and for
  what earlier runs left on `EarlierRunsAssumption`. Specs a callback adds use no token
  but the image id. As in the property, the image a copy is made from may be nothing: its
  pull may have failed.
- `ToolRunManifestPlatforms`: `ManifestPlatforms`, for any task of buildah or docker. The
  manifests are what the entries share and change at once, so that the argument is about
  what an entry knows of a manifest and what others do to it since. `ManPlace` gives the
  place of an entry in its list: for each target `manifest create`, `inspect` and the
  update follow each other (`ManifestsAt`), and the update returns the removal of each
  image that was there for the platform and the addition of the entry's own
  (`UpdateList`). `TargetRight` says what is so at each of them: when the update is next,
  all images of the platform are among those inspected; while it is going on, each one
  still there is yet to be removed; behind it there is the entry's own, and no other.
  Other entries keep this (`Touched`): they add an image for their own platform, and
  remove only images of it, since whatever an entry of this run made is in a manifest for
  its maker's platform alone (`Fits`) and an earlier run left no such id (`LeftImage`). Where two
  entries have one platform and one manifest that fails, which is how `Alone` came to be a
  hypothesis of the property: the proof had no way to go on, and TLC then found the
  behaviour in a matrix that includes two such entries (`SamePlatforms`). That the last
  target is inspected last matters as well: what was inspected is kept under one token, so
  of the targets before, no more is known than that the entry's image is there. For docker (`LinkInv`) an image is
  created or amended into the manifest only when it is not there and then annotated, which is never passed over (`LinkSpec`); once
  annotated it stays so, as other entries have other names.

**AnsiOutput** (`AnsiOutputProofs`): `OutputNoLineSkipped`, for any commands and writes and
whichever flushes fail. `OutputInv` adds to `NoLineSkipped` that `doRun` closes a command's
channel only once it has come to a later one, that a flusher waits for the channel of its
own command or a later one, and that a flusher of which no flush has failed leaves its loop
only when `doRun` is past its command. That is what makes sharing the channel variable
between the flushers harmless: when the channel is closed, nothing more is written by the
command. A flush that fails still shows a beginning of what was left (`FlushShows`), so that
the lines up to `currentAt` stay those that were shown.

**GitFetch** (`GitFetchProofs`): `GitStreamKept`, for any reply of whole packets, any
size of reads, and any interleaving with what arrives. `StreamInv` follows the *place* in
the reply the readers have come to: what the side band reader takes to be left of a packet
is what is left of it there, so that it reads sizes and bands where there are some, and as
many cells have been given as are carried before that place. Every cell read is counted
once (`Counted`), and is zero if a packet ends with it (`ReadsAs`); what was given is then
the beginning of what is carried (`NextCarried`). For the answer, `ContentInv` says what
tar has made of it: the first block decides what the entry is, and while it is read the
content and what is left of it together have the entry's size.

**Config** (`ConfigProofs`): `NoPathReadTwice`, for any file system and command line: no
path is opened twice. It is what bounds the reading of files that include each other.
The invariant `ReadInv` adds that the files read are the visited paths.

`ResolvedAsMerged`: `ConfigResolved`, for any documents, file system, include lists and
command line, and any order in which Go goes through its maps. `ConfigInvariant` has three
parts. `ReadTyped`: what is left to read is calls of files and documents there are.
`MergedInv`: at each point of the reading, each option of the config has the literal
merged last and the reference merged last, and each list what the documents merged have there one after the other. `PhaseInv`
says, phase by phase, what has been made of it: of the environment, what the entries up to
the next have made of their variables (`EnvMade`; an entry may refer to those before it,
so what they make is a recursive function, which `MadeExists` shows to exist for any
number of entries by way of a least number for which it would not); then the options,
what is rendered before what is literal (`Resolved` is then `Wanted`);
then, while groups of tasks are gone through in any order, that each list of tasks has
those of the groups done (`TasksAdding`, `HasTasks`; a further group keeps it wherever
it comes, `TablesJoined`); then that each tool added has the table of its groups, shared
tasks winning over its own (`ToolTable`), and that the lists of those to come are still
their own groups' (`ToolsAdding`); at last that each task run was found in the tool
referred to (`RanFound`). `ConfigResolved` is not inductive alone as it speaks only of a
program that is ready.

## 7 What is only model-checked

- Liveness: `Returns`, `ChainEnds`, `NoStarvation`, `GetReturns`, `IncludesRead` (that
  reading ends), `DocumentsPaired`, `FlushersEnd`, `WholeAnswered`. Reasoning from
  fairness needs ENABLED, which the installed prover does not support.
- The other invariant of `ToolRun` about a tool (`ImageIsSteps`), `DiffExact`, `Extracted`
  and `AnsweredAsAsked`. Most compare what loops over sequences have built with a
  definition, and the library's induction theorems take an operator as parameter, which
  the provers cannot instantiate.
  Where a least counterexample suffices (`LeastNumber`, by which `FlattenJoins` shows what
  joining a sequence of sequences gives) it has been used instead; the pairing of
  documents may be within reach of it.
- `LazyTypeOK` is a part of the invariant proved; those of the other modules
  are theorems. No run lists them: the properties of each run fail with them.
- The disagreements of section 8 are counterexamples, which need no proof.

No module declares a RECURSIVE operator.

## 8 Where code and documentation disagree

Four have runs of their own, each of one property that states what is quoted:

| run | property | what the code does | what is said of it |
|---|---|---|---|
| `HookValues` | `HookOwnValues` | `TaskHooks` takes no lock after the first action, so that an entry can run an action another entry has just rendered with its own values | `pkg/dukkha/types.go:16-18` "safe to be used concurrently" |
| `CachedContent` | `CachedWhole` | a failed or interrupted copy leaves its file under the final name, and `get` takes it for the latest active one until it expires; the error of reading a file that is gone is overwritten | `docs/renderers/http.md:71` "cached file instead of fetched content" |
| `PushManifests` | `AllManifestsPushed` | the last entry of a push takes the manifests cached so far; another one, still running, caches its own afterwards and nobody pushes it | `pkg/tools/buildah/task_push.go:97` "push all manifests at last" |
| `FileFetched` | `FileFetched` | the last byte of each packet becomes zero, also in the middle of a file (`side_band_reader.go:99`) | `docs/renderers/git.md:7` "Fetch file content from your git ssh repo" |

The others are statements of the MC modules that TLC finds violated in a configuration
like the one of the module's run (for a module that is run together with others: with its
own `CONSTANTS`, `Spec` and the one property), with the constants named here:

| property | with | what the code does | what is said of it |
|---|---|---|---|
| `ContinueOnErrorContinues` of `MCActionChain` | as `ActionChain.cfg` | an action whose command or shell cannot be resolved ends the chain whatever `continue_on_error` says, and so does one that runs a task and fails | `docs/tasks.md:58` "continue next action even when this action failed" |
| `AfterSuccessRequiresAll` of `MCRunTask` | 1 worker, 2 entries | an interrupt while the loop waits for a token: no entry has failed, and `after:success` runs though entries were never started | `pkg/tools/hook.go:44-45` "requires all matrix executions are successful" |
| `FailureHookRuns` of `MCRunTask` | as `RunTask.cfg` | an entry whose specs cannot be generated returns without `after:matrix:failure` | `docs/tasks.md:39` "run actions when task matrix run failed" |
| `AllowExpiredUsed` of `MCTwoTierCache` | 1 caller, 1 process | expired content comes with the error of the refresh, for which the renderers drop it | `docs/renderers/af.md:54` "Allow to use previously extracted file when ..." |
| `VerifiedWithKey` of `MCToolRun` | `Jobs <- CosignJobs` | an entry verifies while another with the same private key has truncated the public key file, or after its write failed | `pkg/tools/cosign/task_sign.go:99` "the content of public key to verify signed content" |
| `FirstBranchUsed` of `MCConfig` | as `Documents.cfg` | of `default_git_branch` the value merged last is used, and one with a rendering suffix before any literal | `pkg/conf/global.go:21-22` "only the first occurrence of the option is used" |
| `DiffSetValid` of `MCDocDiff` | `Jobs <- MCJobs` | `append` writes the key of a later entry into the array of an earlier one, five levels deep: the wrong node is looked up and the program panics | the assertion `pkg/cmd/diff/reasoning.go:154` |
| `LinesWhole` of `MCAnsiOutput` | `Runs <- OneRun`, `MaxCommands = 1`, `Threshold = 16` | a tick between two writes of a line shows its beginning as a line and never the rest | `pkg/cmd/run/cmd.go:78` "translate ansi stream to plain text before write to stdout/stderr" |
| `OutputComplete` of `MCAnsiOutput` | the same | nothing waits for the last flush: the process may end before it | `pkg/tools/run.go:87` "flushing translated plain text data to stdout when closing" |
| `FileFetched` of `MCGitFetch` | `Replies <- Commits` | the archive of a commit begins with a header of its own, which is taken for the file: the content is empty | `docs/renderers/git.md:7` "Fetch file content from your git ssh repo" |
| `FetchEnds` of `MCGitFetch` | `Replies <- Trees` | the session is closed when `fetchRemote` returns, and a fetch whose archive has not arrived by then waits for ever | `docs/renderers/git.md:7`, as above |
| `FileExtracted` of `MCArchiveFile` | `Requests <- TwoPaths` | the cache's key is the archive: a second path in it is answered with the first file | `docs/renderers/af.md:7` "Extract file content from archive." |
| `FileExtracted` of `MCArchiveFile` | `Requests <- NoPath` | a compressed tar without a path is answered with the whole tar | `docs/renderers/af.md:29` "to use first regular file in archive" |
| `ZipOpened` of `MCArchiveFile` | `Requests <- ZipGz` | a compressed zip of more than `MatchReader` reads is not taken for one, as its size is what has been buffered | the example `docs/renderers/af.md:36` |
| `ArchiveRecognised` of `MCArchiveFile` | `Requests <- TarGz` | a decompressor that gives too little at once: the type is unknown, is taken for deflate, and the request fails | `docs/renderers/af.md:66` "including compressed archive files" |
| `OwnAnswer` of `MCRemoteRequest` | `Values <- TwoRefs` | the key of a git line has no ref: a second ref is answered with the first | `docs/renderers/git.md:40` "`@<ref>` suffix" |
| `OwnAnswer` of `MCRemoteRequest` | `Values <- TwoMethods` | the key of an http spec is its URL, whatever its method | `docs/renderers/http.md:66` "method: POST" |
| `OwnAnswer` of `MCRemoteRequest` | `Values <- TwoSpecs` | the key of a git spec in YAML is empty: a second one is answered with the first | `docs/renderers/git.md:7` "Fetch file content from your git ssh repo" |
| `HostReached` of `MCRemoteRequest` | `Values <- HostLine` | the configuration for a line with a host gets the host's name for its host key, which cannot be parsed (`ssh/client.go:38`) | the example `docs/renderers/git.md:46-47` |

`ConfigResolved`, `DiffExact`, `NoLineSkipped`, `StreamKept`, `WholeAnswered`, `Extracted`,
`AnsweredAsAsked` and `SignaturesVerified` are worded so that they say what the code does in
these cases too, or leave them out by name; the cases themselves are in their runs.

Seen while reading, and not stated as properties:

- With fail-fast the failed entry cancels before it gives its token back; the `select`
  then has both cases ready and may start one more entry. `pkg/cmd/run/cmd.go:75`
  "cancel all task execution after one errored".
- `renderer/cache_config.go:24-40` "Defaults to `0` (no size limit)", while 0 turns
  in-memory caching off (`cache/two_tier.go:26-30`).
- `conf/read_config_test.go:29` "include self is ok, should be ignored": not when the
  path is spelled in another way; a file under two names is merged twice, and its tools
  are then duplicates. An included file that does not exist is skipped without a word.
- `docker push` pushes a manifest under its name without the default tag, and `docker
  build` tags without it, while the images pushed have it.
- `golang test` writes its JSON file anew for each package (`task_gotest.go:405`).
- `xbuild` leaves its containers when a step fails, and loses a `commit_as` when the
  step after it is skipped (`task_xbuild.go:228`). Two steps of one id (the number of a step is
  one) share a token: the container of the first stays behind (`task_xbuild.go:252-285`).
- `triple.go:266` gives netbsd's triple to another system; the comparison in
  `task_push.go:155-162` is not a strict order.
- A git spec in YAML without `ssh` dereferences nil, though the documentation lets it be
  left out; a host with `.git` in its name breaks a line.
- Two entries of `golang test` whose matrix gives them one path for their test binaries
  run each other's (`task_gotest.go:215`).
- http does not look at the status: an error page is cached.
- A task without a name panics; a task of no tool in particular replaces a tool's own of
  the same name.
- A link cycle in an archive is followed for ever; hard links and links of a zip are
  resolved against the wrong directory.

## 9 What is not modelled

- The text of output, colours, prefixes and logs, and flags of commands on which
  nothing else depends.
- In `RunTask`: an action that runs a task nests another `RunTask` with a context of
  its own. `Interrupt` is what the inner one sees of the outer; that a failure under
  fail-fast cancels only downwards, and that each nested execution claims workers for
  itself, is not composed.
- In `ActionChain`: that renderings of one list may differ in length or order (a list
  whose template depends on the entry).
  The mutex of each action is not a variable: its section is one step, so that a
  deadlock of an action with itself would not show.
- In `LazyValue`: a `create()` that panics.
- In `TwoTierCache`: other objects of the directory (names begin with the digest of the
  object and are never mixed up), except that they may evict from memory; file modes,
  which only decide whether opening a file fails; a clock that goes back. The
  memory-only `Cache` of `cache/cache.go` is a lookup and a store around a callback.
- In `ToolRun`: hooks of the entries and fail-fast (`RunTask` has them); the shell a
  command may be wrapped in.
- In `ConfigRead`: which renderer a suffix names (all render alike), and suffixes of
  fields other than the two options of `global`; in `DocDiff` parsing, and how a reason is
  printed. In `AnsiOutput` the beginning of a line that a failing flush may have written.
- Renderers that keep no state of their own (file, env, shell, tpl, transform, echo,
  input), rar archives, the http and s3 clients; template functions over strings; tools
  that only turn fields into commands; the script cache of `tools/utils.go`, whose
  outcome depends on how a file system makes a written file visible; reads of the host;
  vendored code.

## 10 What remains

| module | about | checked against |
|---|---|---|
| `NestedTasks` | `RunTask` composed with `ActionChain`: actions that run tasks, cancellation downwards, workers claimed per execution | `TaskPool` per execution |
| `ActionEnv` | env layers seen by the actions of a list (`tools/run.go:246`), `DeriveNew`, `AddEnv` | an env entry is seen where it was meant |
| more of `ToolRunProofs` | the images of a build, from `CtrInv` and the order of `CommitSpecs` | `ImageIsSteps` |
