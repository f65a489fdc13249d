# en-quire in TLA+

en-quire is a document server for language-model clients: an MCP server whose
tools read, search and change the documents of one or more *roots* (directories,
usually git repositories). Callers with the `write` permission commit to the
default branch. Callers with only `propose` get their change on a branch of its
own, which somebody with `approve` merges or rejects. Beside the documents the
server keeps a derived index (full text, links, vectors, citations) in SQLite.

This directory holds the models of that program, the TLC configurations that
check them and the theorems that are proved about them. Paths below are relative
to `src/`; `en-core/` stands for `packages/en-core/src/`, `en-quire/` for
`packages/en-quire/src/` and `en-scribe/` for `packages/en-scribe/src/`.

Contents: 1 inventory, 2 what is hard, 3 modules, 4 runs, 5 proofs, 6 findings,
7 what is not modelled, 8 plan, 9 how to run.

## 1. Inventory

| Component | State it keeps | Operations | Talks to | What makes it correct |
|---|---|---|---|---|
| **Write path** (`en-core/tools/write-helpers.ts`, `en-quire/tools/write/*`, `en-scribe/tools/write/*`) | none of its own between calls; during a call the content, etag verdict, former branch and proposal branch it read | `executeWrite` (every edit), create, rename, delete | access control, git, index | no change overwrites what its client never saw; a refused call changes nothing; a proposal stays off the default branch; an acknowledged write is on it; HEAD goes back where it was |
| **Git operations** (`en-core/git/operations.ts`) | working tree, git index, HEAD, branches, commits, MERGE_HEAD, all on disk and shared by every handler | one method per git command; `approveProposal`, `checkMergeable` | git processes, one per await | merges land on the default branch, whole or not at all; `-D` never destroys unmerged work unless asked to |
| **Proposal governance** (`en-core/tools/proposals.ts`) | none; the list is derived from the branches `propose/*` | list, diff, approve, reject | git operations, access control | only proposals can be merged or deleted; approval publishes what was proposed and nothing else |
| **Access control of writes** (`en-core/rbac/permissions.ts`, `en-core/shared/etag.ts`) | none | `resolveWriteMode`, `requirePermission`, `validateEtag` | every handler | a mode is never stronger than the scopes; a stale etag is refused before any side effect |
| **Roles and authentication** (`en-core/rbac/roles.ts`, `resolver.ts`, `http-auth.ts`, `oauth-external.ts`) | caller per session, key caches | token to caller, role expansion, scope checks | HTTP server, identity providers | a session belongs to the caller that opened it; a call gets what the policy gives its identity, no more |
| **Search index** (`en-core/search/indexer.ts`, `sync.ts`, `freshness.ts`) | `sections_fts`, `index_metadata.mtime_ms`, last walk per folder in memory | index one document, remove one, sync a root, refresh a scope | documents on disk, write handlers, search | a document that will not be read again is indexed as it is; a search answers from the disk |
| **Link index** (`en-core/search/link-storage.ts`, `en-core/tools/link-breakage.ts`) | `doc_links`, `?` marking an unresolved target | store, resolve, downgrade, resolve again, warn | index, rename and delete handlers | rows follow the indexed text; a resolved row leads to a document; a resolvable link is resolved |
| **Semantic index** (`en-core/search/embeddings.ts`, `vector-store.ts`) | one vector per section | embedding pass at startup | embedding service over HTTP | vectors belong to the text that is indexed |
| **Citations** (`en-core/cite/*`, `en-quire/tools/cite/*`) | citation registry in SQLite, rate limiter in memory | cite, verify again | web, write path | a reference line has its row, its source and its number; no number twice under one spelling; no line is lost; the limit holds |
| **Section tree, section edits** (`en-core/document/*`) | none | find, address, insert, move, replace, delete sections | parsers, write path | an edit touches the section it names and leaves the others where they are; what is written reads back; anchors survive and are unique |
| **Tables** (`en-quire/tables/*`), **plain-text edits** (`en-scribe/tools/write/*`) | none | row and cell edits; range and anchor edits | write path | the same for rows and lines; a batch is its operations one after another |
| **Parsers** (`*/parsers/*`) | none | parse, validate | third-party libraries | validity of a content |
| **HTTP sessions, lifecycle** (`en-quire/http-server.ts`, `bin.ts`, `en-core/shared/stdio-lifecycle.ts`) | session table, shutdown latch | open, use, delete, shut down | transports | each session answered by its own server; every request answered; one shutdown, and it ends |
| **Configuration**, **read tools**, **utilities** | constant after start, or none | | | |

How they interact: a tool call is an async function in one node.js process. It
runs until its next `await`; then any other handler may run. On stdio one client
usually awaits each answer; over HTTP several sessions overlap. Nothing locks a
root. Synchronous code (`better-sqlite3`, `fs.*Sync`, a whole `syncIndex`) is not
interrupted by other handlers. Each git command is a process of its own and is
awaited. Other programs (editors, `git pull`) change documents at any time.

## 2. What is hard

`PROJECT.json` lists the hazards at their lines. In short:

- **One working tree, many handlers.** A proposal is made by checking its branch
  out in the tree every other handler reads, writes and commits in.
- **Read, await, use.** Content, etag verdict, existence of a destination and the
  branch to return to are read before awaits and used after them.
- **Half-done sequences.** Create branch, write, add, commit, index, switch back:
  every step may fail, and the process may die between any two.
- **The shortcut of the index.** A stamp decides that a file need not be read;
  whoever sets the stamp must have read the file first.
- **Rows that outlive what they were made of.** Links point at documents that are
  renamed, removed and made again; vectors come back from a service late; a citation
  row is stored before the document gets its line.
- **Long pipelines of awaits.** A request waits for identity providers, DNS, headers,
  a body, git; sessions, sources and documents change meanwhile.
- **Offsets of a text that changes.** Edits cut and paste at places parsed earlier, with
  skipped heading levels, preambles, duplicate titles, missing newlines, short rows.
- **The end.** Triggers, a cleanup that hangs and a timer race to stop the process.

## 3. Modules

### GitRepo: one root under git
`disk`, `staged`, `head`, `ref`, `commits`, `unmerged`, `merging` are the working
tree, git's index, HEAD, the branch tips, the commits, and the state of a merge
that stopped half way. Each git command used by `git/operations.ts` is a pair: a
predicate that says when git performs it (`CheckoutOk`, `AddOk`, `CommitOk`,
`MergeOk`, ...) and an action that says what it does. The awkward rules are kept
because the properties depend on them: a checkout carries local changes of paths
the branches agree on; `git commit -m msg paths` takes the *disk*, not the index,
for its paths; "nothing to commit" is no error; a merge may stop half way.

The content of a file is the set of edits it carries, an edit being named by the
call that made it. All edits of one file overlap, as edits of one section do.
This tells apart everything the properties ask: who wrote, who overwrote what,
what conflicts. A commit is a tree and the set of its ancestors.

### Workspace: the write path and the reviews (extends GitRepo)
A member of `Calls` is one tool call; `pc[c]` names the git process it awaits, or
the continuation that is due. `Prepare` is the client reading a document and making
up a request; the handler itself starts with one of `Refuse` (permission, etag or
existence checks fail), `SubmitWrite`, `WriteWithoutGit` (a root without git: the
whole handler, which then has no await) or `SubmitReview`. Then one action per await:

| Action | Code |
|---|---|
| `GetCurrentBranch` | `await git.getCurrentBranch()` and the validation or the branch decision after it |
| `CreateProposalBranch` | `await git.createBranch(buildProposalBranch(...))` |
| `WriteFile` | `writeDocument` / `renameSync` / `unlinkSync` |
| `GitAdd`, `GitCommit` | `commitFile` / `commitFiles`, two processes |
| `UpdateIndex` | `indexDocument`, `removeFromIndex` |
| `RestoreBranch` | the `finally` clause |
| `CheckMergeable`, `CheckoutDefault`, `MergeProposal`, `RevParse`, `DeleteProposal` | `handleProposalApprove` and `approveProposal`; reject is `DeleteProposal` alone |
| `GitFails` | a git process fails for a reason of its own, bounded by `MaxFaults` |
| `Crash` | the process dies and starts again, bounded by `MaxCrashes` |

`Exclusive` chooses between a client that awaits each answer and sessions that
overlap. `Menu` gives each call the requests it may turn out to be.

### ProposalStore, WorkspaceStore: the promise and the refinement
`ProposalStore` is what a client is told (README.md:41): published documents,
proposals beside them; publish, open, propose, approve, close, each atomic, and
approval publishes what the proposal changed and nothing else. `WorkspaceStore`
maps the detailed state to it: what the default branch says is published, and the
list has every `propose/*` branch, as `collectProposals` lists it, the empty one of a refused `doc_create`
included. Then `git checkout -b` opens a proposal, a handler's
commit publishes or gives a proposal its write, the merge is the approval, the branch deletion
closes, and every other step is a stutter.

### SearchIndex: full text, links and vectors of one root
Disk (`text`, `mtime`), index (`fts`, `stamp`, `links`, `vec`), last walks
(`walked`), the sync under way (`phase`, `job`, `found`, `gone`, `todo`,
`backlog`, `changed`) and the write handlers (`hpc`, `hreq`, `held`, `inbound`).
`since` is a history variable.

A sync runs through `SyncRead` (phase 1, one file), `SyncInsert` (phase 2, one
transaction), `SyncRemove` (2.5), `SyncLinks` (3), `SyncEnd` (3.5 and return). No
handler runs meanwhile, but other programs do (`Outside`) and the process may die
between transactions (`Crash`). `Search` is `doc_search`; `BootSync` the sync at
startup. A write handler is `Write`, then `IndexWrite` after its git commands,
then for an edit `WarnLinks`, and for a proposal `RestoreFiles`. `doc_rename` has its own chain
`BeginRename`, `RefreshLinks`, `SnapshotLinks`, `MoveFile`. `EmbedStart` and
`EmbedAnswer` are the embedding pass. Git itself is left out here: what matters to
the index is that files change and change back, and when.

### Sections, SectionOps, DocEdits: section edits of a markdown document
A document is a sequence of *blocks*: a heading (level, words, anchor) or a piece of
body. A node is the position of its heading, and 0 is the preamble. `Sections` has the tree the
parser builds with its stack of open sections (`OpenSections`), where a section's own text
and the section end, and the resolution of addresses (`Resolve`: title, path, index path,
anchor). `SectionOps` has one pair of operators per operation of `section-ops-core.ts`: when it
refuses and what it returns. Headings are what the parser sees; the checks of a content look for lines
that start with `#` only (`AtxIn`), so a heading that is underlined instead (`Underlined`) passes them. Whether the
text ends in a newline is chosen anew at each call that asks (`Gluings`, `TocPlace`): without it, what is put at the
end runs on from the last line (`Glued`). `DocEdits` has one action per write tool of `en-quire/tools/write`,
with the batch, the preview of `doc_find_replace` and the `validate` of `executeWrite`
(no duplicate siblings). Workspace has what happens between loading and writing;
here a call is one step.

### DocTables, DocLines: rows and lines
`DocTables` is `doc_table_write`. A row keeps the cells and the line it was read from, so that a row
nobody edits can be told from one that was written anew; `ReadBack` is the table a
later reader gets from the text that was rendered, which drops a trailing empty cell where there
are no outer pipes. `DocLines` is the four edits of en-scribe on a text of single characters,
since off-by-ones are about characters: `CountLines`, `LineToOffset`, `OffsetToLine`,
`ReplaceLineRange`, `FindText`. `Edits` puts the three ways of editing side by side
(a behaviour takes one of them) so that one run checks them.

### Roles, Sessions: who calls
`Roles` is pure: bindings to roles to scopes (`ResolveScopes`), permission checks, keys,
the caller of stdio. What a provider verifies and which paths match a glob are tables.
`BoundScopes` says what the policy means, without the order and the loops of the code.
`Sessions` has the transports. A request awaits one provider after the other (`AuthenticateExternally`),
is then routed (`Call`, `Delete`, `Open`, `Reject`, all in the one step that follows the
await), and a new session is entered in the map only when its first request was handled
(`Connected`, `Register`). The end is `HttpSignal`, `HttpCloseNext`, `HttpClose` and `HttpExit`, or on stdio
`Trigger`, `CleanupEnds`, `GraceOver`; `LoopEmpties` is node ending a process that waits for nothing,
since the grace timer does not hold it.

### CiteText, Citations: doc_cite
`CiteText` has `verifyQuote` (first match only, cut numbers and words, the normalised
fallback) and `buildCitationAppend` on the lines of a document. `Citations` has the calls
with an action per await: `DnsAnswers`, `HeadersArrive`, `BodyArrives`, `FileRead`, `BranchKnown`,
`Committed`. What follows the fetch up to the next await is one step (`Fetched`): the row is
stored, then the document is loaded again, and the line is put in. A document has several spellings (`FileOf`);
the registry's key is the spelling, as in the code. `rows` is the registry in
SQLite, `audit` the audit log, `bucket` the limiter. An etag is the content it stands for, a hash the
text it was made of. `granted` is a history variable.

### Service: the composition
A tool call runs for the request that made it (`BeginTool`, `Respond`), as the caller of its
session and with the limiter of that session's server (`Who`). The end of the process takes the
calls that are under way; a crash starts it again without HTTP sessions. `doc_cite` stands for every
tool, being the one that awaits most.

### MC modules
`MCWorkspace`, `MCSearchIndex`, `MCEdits` and `MCService` give the constants their values and name the
menus; the `.cfg` files choose among them. No symmetry is used: files, callers and
texts play different parts. `MCService` starts a behaviour in one of eight *setups*, each a
transport, a backend, what the requests may ask for and what moves around them; a setup is a
question, and their union is far smaller than one instance with everything in it.

## 4. Runs

Every property of a passing run has a mutant in `PROJECT.json`, a plausible bug in one
mapped definition, under which TLC finds the property violated. The bugs stand
beside the definitions, marked "Fault to detect".

| Run | Setting | Shows |
|---|---|---|
| `WsSerial` | 3 calls of one client, every kind of write, reviews; nothing fails | `UnapprovedStaysOffDefault`, `AckedWritesAreOnDefault`, `QuietIsClean`; `EveryCallAnswered`, `HeadComesHome`; refinement `ImplementsStore` |
| `WsFaults` | the same client; 1 git failure, 1 crash | `NoHalfMerge`, `NoUnseenOverwrite`, `DefaultMovesByRight`, `MergesLandOnDefault`, `NoProposalLost` hold all the same |
| `WsOverlap` | 3 overlapping handlers, one a review | `TypeOK`, `TextIsAuthorised`, `DefaultSurvives` |
| `WsNoGit` | no git, overlapping sessions | `NoUnseenOverwrite`, `IndexFollowsDisk`: without awaits overlap is harmless |
| `IxCalm` | startup, then edit, create, rename, written or proposed; other programs, never at the same file at the same time | `SkippedIsCurrent`, `SearchSeesDisk`, `NotHiddenLong`, `LinksFollowText` |
| `IxVectors` | edit, delete, both modes, other programs, startup sync and embedding pass in the background, writes while answers are outstanding, a crash; one handler at a time | `OnlyLateAnswersMislead`: vectors of a text that is gone come from a late answer and from nothing else |
| `IxOverlap` | every kind of write, both modes, anything at any time, a crash | `TypeOK`, `NoDanglingRows` |
| `Edits` | one call of every write tool; documents with skipped levels, duplicate titles, a preamble; tables with short and long rows; every text of up to 4 characters | `SectionsNest`, `IndexPathsResolve`, `OthersStayPut`, `WrittenReadsBack`, `AnchorsStay`, `FreshAnchorsAreFree`; `BatchIsItsCalls`, `UnpickedRowsStay`; `OtherLinesStay` |
| `Service` | 3 requests, 2 sessions, both transports, keys and 2 providers, every kind of source, other edits, changing sources, 1 failure, 1 crash, every kind of end | `CallsRunAsTheirCaller`, `CitesWithinRoles`, `ReferencesResolve`, `AppendedStays`, `RateHolds`, `StopsOnce`; `EveryRequestEnds`, `ShutdownEnds` |
| `WsProposalOnMain` | a proposal overlaps another call | **violated**: `UnapprovedStaysOffDefault` |
| `EditsMove` | a section is moved to `child_start` | **violated**: `MovedIsChild` |
| `CiteRetry` | two cites of one source, another edit | **violated**: `VerifiedHasItsLine` |

More configurations are kept beside these, to be run by hand. `EditsMore` (module `MCEdits`)
passes: `TypeOK` of the documents, `LinesAreTheText`, `FindsEveryPlace`, `AppliedAsPreviewed`, which are
proved too. The
others show further disagreements and are listed in section 6.

### Bounds, and why they are enough
- `Calls`: three, so a proposal, a change that conflicts with it and its review all
  happen, and three handlers interleave. Two calls suffice to violate.
- `Files`: two, so that renames have a place to go and a commit can touch one path
  while another is dirty. `Stamps`: one second, so that two proposals of one caller
  and file collide on their branch name.
- `MaxFaults = MaxCrashes = 1`: each alone and both together, at every step.
- SearchIndex `Files`: two, or three where a document and a wiki name compete.
  Base names: two of the files share one. Texts: one without links, one with a path link, one
  with a wiki link, one that does not parse; each run takes those it needs.
- `MaxClock`: 3 with `Interval = 2` in `IxCalm`, so that a throttled walk, its expiry
  and a later change all happen; 2 elsewhere, where time only orders changes.
  At `MaxClock` only steps that take time are disabled, so those runs may stop: they
  set `CHECK_DEADLOCK FALSE`. The Workspace runs check deadlock; `Rest` is the
  server waiting for a request.
- Edits: `MaxCalls = MaxBatches = MaxEdits = 1`. Every call starts from the document alone, so
  a longer history is another starting document; batches of two operations and the
  documents of `MCDocuments` make up for it. `MaxLength = 5` letters hold two lines with a line
  between, `"\n"` at either end and overlapping matches of two letters. Contents a caller
  sends have none, a shallower, a deeper or the same heading, and anchors of their own.
- Service: three requests, so that a session is opened, used and deleted at once, or two
  cites overlap and a third retries; two session ids, so that a caller can meet another's
  session; two providers, so that one can fail before the other answers. `PerMinute = 1`, `Window = 2`,
  `MaxNow = 2`: the limit is reached, and the window is over within the run.
  `MaxEdits = MaxChanges = MaxFaults = MaxCrashes = 1`. A behaviour ends when the bounded requests are
  answered, so the two modules set `CHECK_DEADLOCK FALSE`; that nobody waits for ever is what `EveryRequestEnds` says.

### Fairness
Workspace: `WF` of each call's `Step`. A git process ends and node runs the
continuation of a settled promise; nothing makes a client send a request, a git
process fail or the server die, so those actions have no fairness. Weak fairness suffices:
nothing disables a handler's continuation but its own step or a crash.

SearchIndex: `WF` of a sync's steps (one synchronous function) and of a handler
that has started. Other programs, the clock, new requests and the embedding
service are not fair.

Service: `WF` of each request's continuation (`Continues`) and of what follows a shutdown
trigger (`ShutdownGoesOn`). Every promise of a handler settles: providers, DNS and connections
end or fail, a request has a timeout for headers and for its body (`fetch-source.ts`), git and file
reads end. One assumption the code does not enforce: the body of a source that is refused is read
to its end by `drainBody`, which has no bound, and is taken to end. A handler is disabled only by
its own step or by the end of the process, so weak fairness is enough. The grace timer fires
unless the cleanup blocks the event loop (`Cleanups` of the run are those that do not);
no trigger, request, crash or expiry has to come. Edits checks no liveness: a call is one step.

## 5. Proofs

TLC checks three calls and two files; the theorems hold for every value of the
constants that meets the `ASSUME`s. Each module of proofs is named for what it proves about;
`SectionsProofs` and `InductionLemmas` hold lemmas the others rest on.

| Theorem | Module | Says |
|---|---|---|
| `TypeCorrect` | `WorkspaceProofs` | `TypeOK`, with "HEAD is always on an existing branch" |
| `DefaultNeverDeleted` | `WorkspaceProofs` | `DefaultSurvives`, under overlap, failures and crashes |
| `DirectWritesAreIndexed` | `WorkspaceProofs` | `IndexFollowsDisk`: without git, overlap or not, where no `text_rename` is among the requests |
| `DirectOverwritesOnlySeen` | `WorkspaceProofs` | `NoUnseenOverwrite` without git, for overlapping sessions |
| `RefusedLeaveNoTrace` | `WorkspaceProofs` | `TextIsAuthorised`, under overlap, failures and crashes |
| `SerialMergesWhole` | `WorkspaceProofs` | `NoHalfMerge`, for a client that awaits each answer, whatever fails |
| `SerialMergesLandOnDefault` | `WorkspaceProofs` | `MergesLandOnDefault`, likewise |
| `SerialLosesNoProposal` | `WorkspaceProofs` | `NoProposalLost`, likewise |
| `SerialOverwritesOnlySeen` | `WorkspaceProofs` | `NoUnseenOverwrite`, likewise, with etags required |
| `SerialDefaultMovesByRight` | `WorkspaceProofs` | `DefaultMovesByRight`, likewise |
| `CalmQuietIsClean` | `WorkspaceCalmProofs` | `QuietIsClean` for such a client, as long as nothing has failed or died |
| `CalmAckedIsOnDefault` | `WorkspaceCalmProofs` | `AckedWritesAreOnDefault`, likewise |
| `CalmUnapprovedStaysOff` | `WorkspaceCalmProofs` | `UnapprovedStaysOffDefault`, likewise, with etags required |
| `CalmImplementsStore` | `WorkspaceCalmProofs` | `ImplementsStore`: the write path, with every proposal branch on the list, refines `ProposalStore`, likewise |
| `TypesCorrect` | `SearchIndexProofs` | `TypeOK`, under overlap, crashes and other programs |
| `NoRowDangles` | `SearchIndexProofs` | `NoDanglingRows`, likewise |
| `SkippedStayCurrent` | `SearchIndexProofs` | `SkippedIsCurrent`, with other programs and crashes, where one handler runs at a time, nobody else touches its files, and no `text_rename` is among the writes (`Undisturbed`) |
| `SearchesSeeDisk` | `SearchIndexProofs` | `SearchSeesDisk`, likewise |
| `NoneHiddenLong` | `SearchIndexProofs` | `NotHiddenLong`, likewise, for any folders and interval |
| `OnlyLateAnswersEverMislead` | `SearchIndexProofs` | `OnlyLateAnswersMislead`, likewise, also while answers of the embedding service are outstanding, where the writes are edits and deletions |
| `LinksStayInLockstep` | `SearchIndexProofs` | `LinksFollowText`, where also the startup sync precedes requests and nothing dies |
| `CleanupOnce` | `SessionsProofs` | `StopsOnce`, for every trigger and every kind of cleanup |
| `CallsOwned` | `SessionsProofs` | `CallsRunAsTheirCaller`, for any number of sessions and requests |
| `ScopesAsMeant` | `CitationsProofs` | `ResolveScopes` collects the scopes of `BoundScopes`, for any policy |
| `WithinRoles` | `CitationsProofs` | `CitesWithinRoles`, for any policy; `read` is asked where the path lies in a root as it is written |
| `RateLimited` | `CitationsProofs` | `RateHolds`, for any limit and window |
| `ReferencesFound` | `CitationsProofs` | `ReferencesResolve`, numbers unique per spelling of the target, under overlap, other edits, failures and restarts |
| `AppendedKept` | `CitationsProofs` | `AppendedStays`, likewise |
| `TreeIsNesting` | `SectionsProofs` | what `SectionsNest` says, of every sequence of blocks, edited or not |
| `IndexPathResolves` | `SectionsProofs` | what `IndexPathsResolve` says, likewise |
| `EditsAreTyped` | `EditsProofs` | `TypeOK` of the documents: every write tool returns blocks |
| `SectionsAlwaysNest` | `EditsProofs` | `SectionsNest`, for documents of any length and shape |
| `IndexPathsAlwaysResolve` | `EditsProofs` | `IndexPathsResolve`, likewise, whatever the headings are called |
| `AnchorsAlwaysStay` | `EditsProofs` | `AnchorsStay`, for every content a caller may send |
| `FreshAnchorsAreAlwaysFree` | `EditsProofs` | `FreshAnchorsAreFree`, likewise |
| `OthersAlwaysStayPut` | `EditsProofs` | `OthersStayPut`, for documents of any length and every content that `Contained` admits |
| `WrittenAlwaysReadsBack` | `EditsProofs` | `WrittenReadsBack`, likewise |
| `BatchesAreTheirCalls` | `EditsProofs` | `BatchIsItsCalls`, for tables of any size and cells |
| `UnpickedRowsAlwaysStay` | `EditsProofs` | `UnpickedRowsStay`, likewise |
| `OtherLinesAlwaysStay` | `EditsProofs` | `OtherLinesStay`, for texts of any length |
| `PreviewsAreApplied` | `EditsProofs` | `AppliedAsPreviewed`, for documents of any length |
| `LinesAreAlwaysTheText` | `EditsProofs` | `LinesAreTheText`, for texts of any length |
| `EveryPlaceIsAlwaysFound` | `EditsProofs` | `FindsEveryPlace`, likewise, for every snippet |

### The write path

**Types.** `TypeOK` is inductive on its own once it says that HEAD's branch exists:
every git command reads `commits[ref[head]]`, and `git branch -D` of the branch
that is checked out is what could break it. Each git command has a lemma that it
keeps `RepoTypeOK`; each action of a handler then needs only its own variables.

**Texts.** `TextIsAuthorised` is not inductive: it says nothing of a call that has yet
to write. `TextInv` adds where a call may stand with which mode and verdict (a call
that is past its checks is not denied; a rejected call never got past `write`), and
that every author named by any tree, index or client memory is such a call, a
`Writer`. One lemma per git command shows that it makes no author up, since
each takes contents from trees there are.

**Ledger.** `DefaultSurvives` needs that only proposals are ever deleted: `LedgerInv`
says that a review in flight never names the default branch, that the steps of a
handler belong to requests of its kind, and that every commit is among its own
ancestors.

**Without git.** The whole handler is one step, so `DirectInv` says that no call is ever
under way, and the step that writes has just compared the etag. `IndexInv` adds `idx = disk`.
The theorem excludes `text_rename`, which does not index its new path; that is the code's
behaviour and `WsNoGit` leaves that kind out for the same reason.

**One client.** `SerialInv` adds to `LedgerInv` what `Exclusive` gives: at most one
call is active (`OneActive`), no merge is unfinished, and the active call's knowledge is current
(`Knows`): the branch it passed the merge check for still merges cleanly, a merge runs
on the default branch and a proposal's commit off it, the document is the version its
client saw. This is where overlap
would break the argument, and `WsProposalOnMain` (and `WsLostUpdate`, by hand) show that it
does. Crashes do not break it: a dead handler is not active, and `Knows`
speaks of active calls only.

**One client and no failure.** `Calm` says that no git process has failed and the server has
not died *so far*; it is a state predicate, true of every initial state, so these theorems speak of
every behaviour up to its first failure. The condition is needed: `WsFaultLeak` finds that a failed
commit leaves a proposal's text in the tree, where the next direct write publishes it.
`TidyInv` says how far from a clean tree each step of the one active handler may be: before `add`
tree and index are HEAD's commit; at `add` and `commit` the disk is that commit with this call's
change and nothing else (`Changed`); a proposal's branch still points at the commit of the default
branch until it commits; and when the last step is done, HEAD is home. From this `Moves` says all that can
happen to branches and commits: a fork, a commit, a merge, a deletion, or nothing. The rest follows from these
five cases. `AckInv` adds that commits know only earlier commits (`History`) and that no commit leaves the
history of the default branch (`Kept`). `OwnedInv` says of *every* branch, not only of the default one,
that a proposing author found there has been approved or is on its own branch; the stronger form is
needed because a new branch, or a merge, takes over all that another has. `Blind` says that a
create knows no former text, without which its commit could carry foreign authors.

**Refinement.** `CalmImplementsStore` shows the initial state and each of the five cases to be a step of
`ProposalStore` or a stutter. A branch that was just made, or that a refused call left, is an open proposal that asks for
nothing; a merged one that is not deleted yet, too. What else has to be known is `Forks`: a branch the default branch does not contain is one
commit on top of a commit the default branch has, and no two share theirs. Then the merge base is
that commit (`BaseIsFork`), so a three-way merge publishes exactly what the proposal changed,
and no merge of one proposal makes another one disappear.

### The search index

**Rows.** `LinkInv` is `NoDanglingRows` with the types of the rows, stamps, clock and what
handlers hold. Each database operation maps rows sound for one set of indexed
files to rows sound for the next (`StoreSound`, `DropSound`, `UnstaleSound`);
`RenamesSound` chains three of them in the order `doc_rename` does. That a stamp
taken from the clock is never `Never` is what keeps an indexed file indexed.

**Freshness.** `SkippedIsCurrent` forgives a file that a handler is at work on, so it is not inductive; `Current` forgives
nothing, and says that the file parses. It holds because of three things that `Fresh` adds. A text that a sync
has in hand is that of the disk if the mtime is still the one noted before it was read (`Noting`); a change in between
leaves a later mtime, and the stale row is looked at again. What a handler read before it awaited is still so when it
writes the row (`Knows`). And a move, which keeps the mtime, finds no row at its destination, since the refresh of
`snapshotRenameLinks` has dropped it: this is the step that `text_rename` lacks, and why `Undisturbed` excludes it.

**Searches and the throttle.** `Sees` follows one refresh: each file not changed since it began has its row right or is still noted.
`Walks` follows all of them: a folder's walk time is one at which every file below it that had parsed before was
indexed, and such a file loses its row only with its text. A startup sync marks the walk with the time it *ends*; that
is sound only for files that parsed before it began, hence the history variable `since`.

**Vectors.** `Embeds`: as long as a startup sync may leave old vectors the embedding pass is still to come. With it,
`Leads` follows each step: it drops the vectors of the rows it changes, or leaves both, or is an answer. Writes
may come at any time, also between a request to the service and its answer; that answer is then the one exception
the property names. The kinds of write are limited because `doc_create` and `doc_rename` keep
the vectors they find at a path (section 6).

**Links.** `Follows`: a sync has the links of a file in hand from when it reads it until it stores them, and between the move of a document and the
update of its rows no sync runs, so that the files that linked to it still have theirs. Storing, dropping and resolving again each keep
`Match`, that rows and links of a text correspond (`StoredMatch`, `DroppedMatch`, `UnstaleMatch`). An attempt to prove this with
`Background = TRUE` failed at the update after a move, for a reason: `IxBootRace` shows the property violated. That
`Background = FALSE` and `MaxCrashes = 0` are assumptions of the theorem is due to this and to the crash described in section 6.

### Sessions, citations, roles (all of `ServiceSpec`)

**The end.** `EndInv`: the shutdown function has run at most once, an exit code is only there when it has,
and HTTP never runs it.

**Sessions.** A request finds its session by an id and runs in the server behind that id. `SessionInv` ties the
three together: an entry of the map has an open transport and a server of the caller it names
(`TableInv`), and while a session is being opened nobody else has its id, it is not in the map yet,
and its server is the requester's (`CreationInv`). Ids are never used twice.

**Roles.** `ResolveScopes` is two nested folds over sequences. What a fold computes is an induction, and the library's
induction theorems cannot be instantiated here; `SetInduction` states the principle for a
*set* of numbers, proved from well-foundedness, and `FoldOf` is what a fold is after n elements.
`ServingInv` then carries the result to a running call: an open session has the scopes its binding means
(`ScopesInv`), a begun call belongs to a request that was dispatched to such a session (`BegunInv`), and whoever got past the
checks has the rights for the op, source and target it asked for (`RightsInv`).

**Rate.** `RateHolds` speaks of all grants ever; the bucket only has the recent ones. `RateInv`
says (`Spaced`) that the bucket is the list of all grants without a first part, that this part has left the window,
that times ascend, and that each grant is a window later than the one `PerMinute` places before.

**Reference lines.** Rows first (`RowsInv`): a number is used once per target, since a new one is above all there are,
and rows are changed only by a re-verification, which keeps number, source and hash. Then texts (`TextsInv`): every document *and*
every text a call holds while it awaits git is `Sound` for the rows, and rows only grow, so a text that was
sound when it was read still is when it is written. Most lemmas are about `AppendCitation`: where the section
begins and ends, and that a line put there keeps the others and their place. `LinesInv` ties an answered call
to its line.

### The edits (all of `EditsSpec`)

**The tree.** `StackOf` is what the stack of open sections is after each block: deeper and deeper headings,
and for every heading so far that one or a later, not deeper one. It is kept by popping (`PoppedIs`) and holds of
the whole walk by `SetInduction`; `Layered` says that what lies under an open section is the stack its own heading left.
From the two, a parent is the nearest heading above of a smaller level, and a section end, which the code takes
from the last child, is the next heading that is not deeper: by induction on the nodes from the last to the first.

**Addresses.** The index of a node counts its siblings before it (`IndexIsRank`), and siblings of the same rank
are one; so each step of `resolveIndexAddress` along the chain of a node reaches that node's ancestor and no other.

**Blocks and anchors.** A call that is accepted is `Sound`: it leaves blocks, it loses no anchor outside what it
may take away, and it adds none twice. `StepIs` shows this with one step per tool. All operations but one put blocks in the place of
others (`Replaced`, `Patched`), so the anchors of the result are those around the cut and those
put in. A move is the exception: its pieces are spliced (`SplicedAnchors`), and a section that is glued to the line before it may lose its own.
An anchor that the tools make up is not in use because there are more numbers than anchors (`FreshId`).
The batch is two operations, each addressed to the document as the first one left it.

**What was written, and the rest.** `Local` is the last part of `Sound`. Every operation that `Contained`
admits is a graft: `PutIn` says that a document is another with blocks in the place of a piece, and a move
is a deletion and then a graft (`MoveIsGraft`). A graft that begins with a heading and goes on deeper
is a section if a heading that is not deeper, or the end, comes next (`SectionThere`); `NextThere` says
that this is what stands wherever a section may be put, "before", "after" and "child_end", if it is not glued.
Where a block stands is the stack of open sections at it, told by headings and not
by places (`Above`, `StandingIs`). A graft *closes* (`Closes`) if no heading put in or taken out is shallower than
the one that follows: then what is left open at that one is the same with the graft and without
(`KeptTwice`, `KeptBelow`), and with it everything after (`SameAfter`). The conditions of `Contained` are what
`Closes` needs; without them the code does move blocks to other sections (section 6).

**Tables.** The rows of a table are lists of items at some places (`Listed`, `Rank`, `Nth`). An operation moves
places and rewrites the picked rows; the rows not picked are the same rows at the places that are left, in order.
A batch runs its operations on one table, the single calls run on what is read back in
between: the `Same…` lemmas show that no operation tells a table from what is read back of it.

**Lines.** `LinesAscend` says that the line of an offset never falls, so `LineToOffset` is where the count
first gets to a number, and `LinesAre` that the lines are the pieces between these offsets. With `LinesInJoin`, the
lines of two texts one after the other, an insertion at a line comes out as the lines before, the new ones and the lines after.
`TextsInv` is only the property with the types: it speaks of the last edit and the text before it.
`LinePlaces` adds that the last character of a line is its only newline. A search is a recursion over the
places of a text: `Covers` says of what it returns from a place on that the matches do not overlap and that each place
where the text stands is in one of them, and `CoversMore` that one more match in front keeps it so.

**Previews.** The matches of a word are numbered by how many come before, so each number below
their count is that of one block (`MatchExists`) and of no other (`MatchIsOne`). `find_replace` with the etag of
the preview works on the document the preview saw, and so on that block.

### What the assumptions on constants say, and why they may be made
`SetupsAssumption`: a session that is open at the start has the scopes the configuration lists for its caller.
`RolesAssumption`: bindings have roles, role lists and scope lists are lists (the loader's schema).
`MenusAssumption`: a request has the fields and the ops the tool's argument schema lets through.
`LinesAssumption`: reference lines are written by `doc_cite` only; a document that already has hand-made ones has no
rows for them, and nothing is claimed of it. `OneCallEach`: a tool call is named by the request it serves, a limiter by its session.
`DocAssumption`: contents and documents are blocks, which the parser makes of any text, and a heading that is asked for is not
empty (`renameSection` refuses it). `EditsAssumption`: tables have rows of cells, cells and snippets are texts.

### Only model-checked
Liveness (`EveryCallAnswered`, `HeadComesHome`, `EveryRequestEnds`, `ShutdownEnds`)
is beyond the prover, as is everything that rests on `ENABLED`. Every invariant and action property of
the passing runs has a theorem, under the assumptions the table names; a refinement is
proved for its safety part, which is all that `ImplementsStore` states.

## 6. Findings

The three violation runs are recorded as findings with the lines they contradict.

The common cause in the write path (`WsProposalOnMain`) is that nothing serialises the
handlers of a root. `EditsMove` is one call. `CiteRetry` needs an edit during the fetch of the first cite.

The following configurations are kept to be run by hand; each finds the property violated.

| Configuration | Module | Property | What the code does, and what is said of it |
|---|---|---|---|
| `WsLostUpdate` | `MCWorkspace` | `NoUnseenOverwrite` | Two sessions with one etag both pass `validateEtag` before their first await (`write-helpers.ts:75`), and the second overwrites the first. SKILL.md:109: "the guard exists to stop you overwriting a change you haven't seen" |
| `WsFaultLeak` | `MCWorkspace` | `UnapprovedStaysOffDefault` | A failed commit leaves the text of a proposal in the tree, and the next write of that file publishes it (`write-helpers.ts:176`). README.md:41 |
| `IxStampRace` | `MCSearchIndex` | `SkippedIsCurrent` | A handler stamps its text with the time after its git commands (`indexer.ts:72`); a change in between is never looked at. freshness.ts:14 |
| `IxBootRace` | `MCSearchIndex` | `LinksFollowText` | The startup sync runs in the background while a rename awaits git and drops a linking document that is gone; the document comes back, and the rename stores its links (`link-breakage.ts:164`) though it has no row in the index. link-storage.ts:7-9: "in lockstep with the FTS index" |
| `IxWikiRename` | `MCSearchIndex` | `LinksResolve` | After a proposed rename the row of a wiki link holds the removed path and no longer the name (`indexer.ts:100`). SKILL.md:221: "resolve by basename, so they survive a folder move" |
| `IxLateAnswer` | `MCSearchIndex` | `VectorsCurrent` | An answer of the embedding service is stored without asking whether the document was edited meanwhile (`search/sync.ts:410`). write-helpers.ts:136-140: "semantic and hybrid search return matches against text that no longer exists" is what dropping vectors is to prevent |
| `EditsBreakOut` | `MCEdits` | `ContentStaysInside` | `checkForBreakingHeadings` looks at lines with `#` only (`markdown-strategy.ts:58`); a heading that is underlined breaks out of the section it is put in. section-ops-core.ts:122-125: "body content must only contain DEEPER (child) headings" |
| `EditsToc` | `MCEdits` | `TocKeepsText` | An existing table of contents ends at the next heading of level 1 or 2, so text below it goes with it. doc-generate-toc.ts:13: "replaced in place" |
| `CiteAnchor` | `MCService` | `VerifiedHasItsLine` | `append-citation.ts:39` does not find a Citations heading that carries a `^id` anchor, as `doc_insert_section` and `doc_assign_ids` write it. It adds a second one, which `validate` refuses; the row stays, and every retry is "verified" without a line |
| `CiteMirror` | `MCService` | `AnsweredWithItsSource` | Duplicates are found by the hash of the text, whatever the source: a second URL with the same text is answered with the first. doc-cite.ts:45 |
| `CiteSpelling` | `MCService` | `NumbersDiffer` | Rows are keyed by `target_file` as the caller wrote it (`doc-cite.ts:208`), so a document cited into as `n.md` and as `docs/n.md` has two lines with the number 1. registry.ts:49: "per-target sequential citation_number" |
| `CiteIndirect` | `MCService` | `ReadsWithinRoles` | The permission to read is asked for the path of a `file://` source as it is written (`doc-cite.ts:319`), and the file is read under the path it resolves to (`fetch-source.ts:427`): a path with `..` into a root is read without. doc-cite.ts:102-105 |
| `CiteAudit` | `MCService` | `EveryAttemptIsAudited` | A cite that throws is not in the audit log. README.md:433: "Every cite attempt ... is recorded" |
| `ServeStuck` | `MCService` | `ShutdownEnds` | The cleanup of `bin.ts:266` is a synchronous close, so a blocked one keeps the timer from firing. stdio-lifecycle.ts:13: "cannot keep the process alive" |
| `ServeExit` | `MCService` | `OverrunIsReported` | The timer is `unref`'d: with nothing else to wait for, node ends first and the exit code is 0. stdio-lifecycle.ts:43 |

Other disagreements show up when a constant of a listed run is changed, or were met while modelling.

Write path and index:
- With `Exclusive = FALSE` also `MergesLandOnDefault` and `NoHalfMerge` fail: the
  branch approve returns to and the merge check are read awaits before the merge
  (`git/operations.ts:352`, `proposals.ts:195`).
- `LinksFollowText` fails with `MaxCrashes = 1`: `search/sync.ts:251` commits the stamps
  and the links of a sync in different transactions, and the stamp alone says that
  a file is done.
- `SkippedIsCurrent` fails with `text_rename` among the kinds: the new path is not
  indexed (`text-rename.ts:110`), and a stale row there can be newer than the file
  that moved in with its old mtime.
- `LinksResolve` fails with creates: a `?` row is looked up again by a sync that changed something,
  and `doc_create` leaves nothing to change (`doc-create.ts:111`).
- `OnlyLateAnswersMislead` fails with creates: over a stale row, or over vectors that a late answer left
  where the document had been deleted, `doc_create` keeps old vectors (`doc-create.ts:111`). It fails with
  renames for the same reason.
- The etag in the answer of a proposal is that of the proposed text, while the document
  stays as it was, so the chaining of SKILL.md:106 is refused (`write-helpers.ts:167`).

Edits (each named where a property excludes it, in `Contained`, `AnchorsStay` and `DestLevel`):
- A section moved "after" or to `child_end` of the last section of a text without a final newline is glued to the last
  line (`section-ops-core.ts:557-567`): it is no heading any more, its anchor is lost, and the last line of the other
  section changes. `MovedIsChild` fails here as it does at `child_start`; the other properties leave glued moves out.
- A heading that is underlined, in a content, passes the checks that look for `#` (`EditsBreakOut`).
- A section inserted at `child_start` comes between a heading and its text, which it
  takes over; next to the preamble it gets level 0, below an h6 level 7, and is no heading.
- The content of `doc_insert_section` is not checked for headings that break out, and
  child headings that `doc_append_section` adds take over the deeper children that follow.
- Content that starts with a `#tag` counts as bringing its own heading with `replace_heading`, and the
  heading is gone.
- `doc_table_write` drops the cells beyond the header of a row it updates.
- Text inserted "after" a last line without newline is joined to that line.

Citations and sessions:
- A source whose path has a space or `]` cannot be formatted: every cite of it throws and, with
  `force`, leaves one more row (`Unformatted`).
- `verifyQuote` looks at the first match only: a quote that stands whole further down is a warning.
- The limiter is one per MCP server, so an HTTP caller has one per session
  (`Who`), while bin.ts:54 calls it process-wide.
- Rows keep the name a target had: numbers start again after a rename, as they do under another
  spelling (`CiteSpelling`).
- A session that is being opened while an HTTP server shuts down is not in the map
  yet and is never closed, and a session keeps the scopes its caller had when it was opened.

## 7. What is not modelled, and what stands in for it

- **Remote and hooks.** Roots without a remote: fetch, push and `pr_hook` do nothing.
- **Etags** are injective; two versions sharing 22 bits is a matter of probability.
- **Git commands are atomic**: git holds `index.lock`. A killed server does not
  kill the git command it started, which is `Crash` after that command.
- **`resolveDefaultBranch`** gives one name for the life of a root. Scope globs are
  the tables `Perms` and `Approvers`. Reading is permitted to everybody.
- **Workspace** has no other program changing documents; SearchIndex does.
- **Clock.** A write takes a tick of its own, so two changes never share an mtime, and
  no program sets an mtime back (a rename keeps it).
- **SearchIndex** has one root. The awaits before a write are merged into `Write`,
  since what it writes does not depend on them (Workspace has them). The
  batches of a sync are arbitrary. Sections and fragments of links are left out.
- **Edits**: YAML, JSONL and plain-text *sections*, a regular expression in `find_replace`, code fences,
  what a tool does to a document that already has underlined headings (a call may put some in),
  dry runs, and the anchors of links in other documents. A call is one step (Workspace has its awaits).
- **Citations**: `web_appends_propose` (the append as a proposal), `citation.enabled = false`,
  redirects, the address table of `url-policy.ts` (the kind `"refused"`), PDF text; a `file://` path that lies
  in one root as it is written and in another once it is resolved. In a root
  under git the append is `BranchKnown` and `Committed` only; its overlap with other writers is Workspace's.
- **Sessions**: reply streams, body limits, `/health` and discovery; JWT verification, JWKS and its cache
  (the table `FactsOf` has what they say; `Expire`). en-scribe's server is the same code without the citations.
- **Configuration** is read once and constant: config loading, root mapping and path resolution
  are constants (`Files`, `Targets`, `Kind`). **Shared utilities** are pure or log.
- Text formats, ranking, snippets, diffs, formatting, logging.

## 8. Plan

Modelled and checked: the write path with git and the reviews, the index, every edit on sections, rows
and lines, citations, roles, sessions and the end of the process. What could follow, in this order:

1. The propose-mode append of a citation, as a composition of Citations and Workspace.
2. `Remote`: push and fetch around proposals, composed with GitRepo.
3. The branch name codec: the round trip of `buildProposalBranch` and `parseProposalBranch`.
4. Section fragments of links, and the sections of YAML and JSONL documents.

New runs replace the ones they subsume, so that every run still asks a question of its own.

## 9. How to run

In this directory: `tlasany M.tla` parses, `tlc -workers 2 -config X.cfg M` checks a run (its
module is in `PROJECT.json`), `tlapm M.tla` checks the proofs of a module. The
longest runs take about two minutes, the proofs about half an hour in all.
