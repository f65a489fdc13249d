---------------------------- MODULE SearchIndex ----------------------------
(***************************************************************************)
(* The derived index of one document root: the full text of each document, *)
(* the links between documents and the vectors of the semantic index; who  *)
(* updates them (the write handlers, the sync at startup, the refresh that *)
(* precedes a search or a rename, the embedding pass in the background);   *)
(* and how a file changed by another program is noticed, by its mtime.     *)
(*                                                                         *)
(* A sync is synchronous JavaScript: no handler runs while phase # "none". *)
(* Other programs do, and the process may die between two transactions.    *)
(***************************************************************************)
EXTENDS Integers, FiniteSets

CONSTANTS
    Files,          \* paths of documents
    Names,          \* base names without extension, for [[wiki]] links
    Base,           \* file -> its base name
    Folders, Root,  \* folders a search may name as its scope
    Within,         \* folder -> the files below it
    Above,          \* folder -> itself and its ancestors
    Parent,         \* file -> its folder
    Texts,          \* contents of documents
    Broken,         \* contents that their parser throws on
    LinksIn,        \* text -> the paths and names it links to
    Absent,         \* no such file, no such row
    Handlers,       \* write handlers
    Kinds,          \* the kinds of write they are
    Proposes,       \* what the mode of a write may be: TRUE = propose
    Overlap,        \* FALSE: nothing else happens to the files a handler is at
                    \* work on, and one handler runs at a time
    Others,         \* do other programs change documents?
    Background,     \* config.search.sync_on_start = "background"
    Semantic,       \* config.search.semantic.enabled
    Interval,       \* rescan_interval_ms
    MaxClock,       \* bound: time ends
    MaxCrashes      \* bound: crashes of the server process

Target == Files \union Names
Row    == [from : Files, to : Target, ok : BOOLEAN]   \* ok: without the '?'
Never  == -1                                          \* no index row, no walk
Time   == 0 .. MaxClock
Request == [kind : Kinds, file : Files, dest : Files, text : Texts, propose : Proposes]
Job    == [scope : Folders \union Files, walk : BOOLEAN, boot : BOOLEAN, at : Time]

ASSUME NamesAssumption  == Names \intersect Files = {} /\ Base \in [Files -> Names]
ASSUME FolderAssumption ==
    /\ Folders \intersect Files = {} /\ Root \in Folders
    /\ Within \in [Folders -> SUBSET Files] /\ Within[Root] = Files
    /\ Above \in [Folders -> SUBSET Folders]
    /\ \A d \in Folders : {d, Root} \subseteq Above[d]
    /\ \A d \in Folders, e \in Folders : e \in Above[d] => Within[d] \subseteq Within[e]
    /\ Parent \in [Files -> Folders] /\ \A f \in Files : f \in Within[Parent[f]]
ASSUME TextAssumption   ==
    /\ Files # {} /\ Texts # {} /\ Absent \notin Texts
    /\ Broken \subseteq Texts /\ LinksIn \in [Texts -> SUBSET Target]
ASSUME KindAssumption   ==
    /\ Kinds \subseteq {"edit", "create", "rename", "text_rename", "delete"}
    /\ Proposes \subseteq BOOLEAN /\ Kinds # {} /\ Proposes # {}
    /\ Semantic \in BOOLEAN
ASSUME ClockAssumption  ==
    Interval \in Nat /\ MaxClock \in Nat /\ MaxCrashes \in Nat

VARIABLES
    clock, crashes,
    text, mtime,        \* the documents on disk
    fts, stamp,         \* sections_fts and index_metadata.mtime_ms
    links,              \* doc_links
    vec,                \* the text each document's vectors were made of
    walked,             \* folder -> when it was last walked (lastWalk)
    phase, job,         \* the sync under way and what it is to do
    found, gone, todo,  \* files it saw, rows without a file, files to index
    backlog,            \* files whose links it is to store
    changed,            \* did it index or remove anything?
    bootDue, embedDue,  \* the startup sync and embedding pass are to come
    pend,               \* texts that are being embedded
    hpc, hreq,          \* where each write handler stands, what it is to do
    held,               \* the text it read before its first await
    inbound,            \* who links to the file it is renaming
    since               \* history: when the path last got a text that parses;
                        \* Never when that was during the startup sync

diskVars  == <<text, mtime, since>>
indexVars == <<fts, stamp, links, vec>>
syncVars  == <<phase, job, found, gone, todo, backlog, changed>>
callVars  == <<hpc, hreq, held, inbound>>
bootVars  == <<bootDue, embedDue, pend, crashes>>
vars == <<clock, diskVars, indexVars, walked, syncVars, callVars, bootVars>>

TextOrNot == Texts \union {Absent}

TypeOK ==
    /\ clock \in Time /\ crashes \in 0 .. MaxCrashes
    /\ text \in [Files -> TextOrNot] /\ mtime \in [Files -> Time]
    /\ since \in [Files -> Time \union {Never}]
    /\ fts \in [Files -> TextOrNot] /\ stamp \in [Files -> Time \union {Never}]
    /\ links \subseteq Row
    /\ vec \in [Files -> TextOrNot]
    /\ walked \in [Folders -> Time \union {Never}]
    /\ phase \in {"none", "index", "links", "resolve"} /\ job \in Job
    /\ found \subseteq Files /\ gone \subseteq Files
    /\ todo \in [Files -> Time \union {Never}]
    /\ backlog \in [Files -> TextOrNot]
    /\ changed \in BOOLEAN /\ bootDue \in BOOLEAN /\ embedDue \in BOOLEAN
    /\ pend \in [Files -> TextOrNot]
    /\ hpc \in [Handlers -> {"idle", "rename", "snapshot", "move", "index", "warn", "restore"}]
    /\ hreq \in [Handlers -> Request]
    /\ held \in [Handlers -> TextOrNot]
    /\ inbound \in [Handlers -> SUBSET Files]

Present == {f \in Files : text[f] # Absent}
Indexed == {f \in Files : stamp[f] # Never}
Skipped == {f \in Present \intersect Indexed : stamp[f] >= mtime[f]}  \* by a refresh

Parses(t) == t \in Texts \ Broken

InFlight(h) == hpc[h] # "idle"
(* Steps that follow the one before without an await.                      *)
HasTurn(h)  == hpc[h] \in {"snapshot", "warn"} \/ (hpc[h] = "move" /\ ~hreq[h].propose)
Idle        == phase = "none" /\ \A h \in Handlers : ~HasTurn(h)
Ready       == Idle /\ (Background \/ ~bootDue)     \* requests are served

Busy(f)     == \E h \in Handlers : InFlight(h) /\ f \in {hreq[h].file, hreq[h].dest}
Quiet       == \A h \in Handlers : ~InFlight(h)

---------------------------------------------------------------------------
(* LINKS                                                                   *)

Matches(n, indexed) == {f \in indexed : Base[f] = n}

(* resolveTarget, for a link that names a path or a base name.             *)
Resolve(from, l, indexed) ==
    IF l \in Files
    THEN [from |-> from, to |-> l, ok |-> l \in indexed]
    ELSE IF Cardinality(Matches(l, indexed)) = 1
    THEN [from |-> from, to |-> CHOOSE f \in Matches(l, indexed) : TRUE, ok |-> TRUE]
    ELSE [from |-> from, to |-> l, ok |-> FALSE]

RowsFor(from, t, indexed) == {Resolve(from, l, indexed) : l \in LinksIn[t]}

Outgoing(rows, f) == {r \in rows : r.from = f}

(* Fault to detect: the rows of the former text stay.                      *)
StoreLinks_Appends(rows, files, content, indexed) ==
    rows \union UNION {RowsFor(f, content[f], indexed) : f \in files}

(* storeLinks, for each file of a set, from what text says it contains.    *)
StoreLinks(rows, files, content, indexed) ==
    {r \in rows : r.from \notin files} \union
    UNION {RowsFor(f, content[f], indexed) : f \in files}

(* Fault to detect: rows that point at a removed file are left as they are.*)
DropRows_NoDowngrade(rows, files) == {r \in rows : r.from \notin files}

(* removeFromIndex: rows that pointed at a removed file get the '?' back.  *)
DropRows(rows, files) ==
    {IF r.to \in files THEN [r EXCEPT !.ok = FALSE] ELSE r :
        r \in {s \in rows : s.from \notin files}}

(* resolveStaleLinks: '?' rows are looked up again, over the whole index.  *)
Unstale(rows, indexed) ==
    {IF r.ok THEN r ELSE Resolve(r.from, r.to, indexed) : r \in rows}

---------------------------------------------------------------------------
(* SYNC                                                                    *)

FilesIn(scope) == IF scope \in Files THEN {scope} ELSE Within[scope]

(* walkedRecently: a walk of an ancestor counts.                           *)
WalkedRecently(d) ==
    \E e \in Above[d] : walked[e] # Never /\ clock - walked[e] < Interval

(* Fault to detect: the mtime is rounded up to the next tick.              *)
Noted_RoundedUp(f) == mtime[f] + 1

Noted(f) == mtime[f]

(* Fault to detect: a file that has a row is not looked at again.          *)
Newer_NoRow(f) == stamp[f] = Never

Newer(f) == stamp[f] = Never \/ stamp[f] < mtime[f]

(* The head of syncIndex: list the files (walk) or take those indexed, and *)
(* note the mtime of each that is newer than its row.                      *)
BeginSync(scope, walk, boot) ==
    LET known  == FilesIn(scope) \intersect Indexed
        listed == IF walk THEN FilesIn(scope) ELSE known
        there  == listed \intersect Present
    IN  /\ phase' = "index"
        /\ job' = [scope |-> scope, walk |-> walk, boot |-> boot, at |-> clock]
        /\ found' = there
        /\ gone' = known \ there
        /\ todo' = [f \in Files |-> IF f \in there /\ Newer(f) THEN Noted(f) ELSE Never]
        /\ backlog' = [f \in Files |-> Absent]
        /\ changed' = FALSE

NoJob == [scope |-> Root, walk |-> FALSE, boot |-> FALSE, at |-> 0]

(* The local variables of syncIndex are gone when it returns.              *)
SyncForgets ==
    /\ job' = NoJob /\ found' = {} /\ gone' = {} /\ changed' = FALSE
    /\ todo' = [f \in Files |-> Never]
    /\ backlog' = [f \in Files |-> Absent]

(* refreshIndexForScope: a scope that is no file or folder widens to the   *)
(* folder above it; a file is always checked, a folder is walked unless it *)
(* was lately.                                                             *)
BeginRefresh(scope) ==
    LET s == IF scope \in Files \ Present THEN Parent[scope] ELSE scope
    IN  BeginSync(s, s \in Files \/ ~WalkedRecently(s), FALSE)

(* handleDocSearch after its await: refresh, then query, in one turn.      *)
Search(scope) ==
    /\ Ready /\ (Overlap \/ Quiet)
    /\ BeginRefresh(scope)
    /\ UNCHANGED <<clock, diskVars, indexVars, walked, callVars, bootVars>>

(* bin.ts, sync of a root when the server starts.                          *)
BootSync ==
    /\ Idle /\ bootDue
    /\ BeginSync(Root, TRUE, TRUE)
    /\ bootDue' = FALSE
    /\ UNCHANGED <<clock, diskVars, indexVars, walked, callVars, embedDue, pend, crashes>>

(* Phase 1: read and parse a file that was noted.  One that cannot be read *)
(* or parsed keeps its old row.                                            *)
SyncRead(f) ==
    /\ phase = "index" /\ todo[f] # Never /\ backlog[f] = Absent
    /\ IF Parses(text[f])
       THEN backlog' = [backlog EXCEPT ![f] = text[f]] /\ UNCHANGED todo
       ELSE todo' = [todo EXCEPT ![f] = Never] /\ UNCHANGED backlog
    /\ UNCHANGED <<clock, diskVars, indexVars, walked, phase, job, found, gone, changed,
                   callVars, bootVars>>

Prepared == {f \in Files : todo[f] # Never /\ backlog[f] # Absent}

(* One transaction: rows for the files of a batch, stamped s, and their    *)
(* vectors dropped.                                                        *)
Inserts(s, v) ==
    /\ phase = "index" /\ Prepared # {}
    /\ todo' = [f \in Files |-> IF f \in Prepared THEN Never ELSE todo[f]]
    /\ fts' = [f \in Files |-> IF f \in Prepared THEN backlog[f] ELSE fts[f]]
    /\ stamp' = [f \in Files |-> IF f \in Prepared THEN s[f] ELSE stamp[f]]
    /\ vec' = v
    /\ changed' = TRUE
    /\ UNCHANGED <<clock, diskVars, links, walked, phase, job, found, gone, backlog, callVars,
                   bootVars>>

DropVectors == [f \in Files |-> IF f \in Prepared THEN Absent ELSE vec[f]]

(* Fault to detect: rows are stamped with the time of the transaction.     *)
SyncInsert_StampsNow ==
    Inserts([f \in Files |-> clock], IF job.boot THEN vec ELSE DropVectors)

(* Fault to detect: a file that is read again keeps its vectors.           *)
SyncInsert_KeepsVectors == Inserts(todo, vec)

(* Phase 2: the files read so far get their rows, under the mtime noted    *)
(* before they were read.  A refresh drops their vectors, the startup sync *)
(* leaves that to the embedding pass.                                      *)
SyncInsert == Inserts(todo, IF job.boot THEN vec ELSE DropVectors)

(* Phase 2.5: drop the rows of files that are gone.                        *)
SyncRemove ==
    /\ phase = "index" /\ \A f \in Files : todo[f] = Never
    /\ phase' = "links"
    /\ fts' = [f \in Files |-> IF f \in gone THEN Absent ELSE fts[f]]
    /\ stamp' = [f \in Files |-> IF f \in gone THEN Never ELSE stamp[f]]
    /\ vec' = [f \in Files |-> IF f \in gone THEN Absent ELSE vec[f]]
    /\ links' = DropRows(links, gone)
    /\ changed' = (changed \/ gone # {})
    /\ UNCHANGED <<clock, diskVars, walked, job, found, gone, todo, backlog, callVars, bootVars>>

(* Phase 3: store the links of the files indexed, now that all are.        *)
SyncLinks ==
    /\ phase = "links"
    /\ phase' = "resolve"
    /\ links' = StoreLinks(links, {f \in Files : backlog[f] # Absent}, backlog, Indexed)
    /\ UNCHANGED <<clock, diskVars, fts, stamp, vec, walked, job, found, gone, todo, backlog,
                   changed, callVars, bootVars>>

(* Fault to detect: a refresh that did not walk counts as a walk.          *)
SyncEnd_AlwaysWalked ==
    /\ phase = "resolve"
    /\ phase' = "none"
    /\ links' = IF job.boot \/ changed THEN Unstale(links, Indexed) ELSE links
    /\ walked' = IF job.scope \in Folders THEN [walked EXCEPT ![job.scope] = job.at] ELSE walked
    /\ SyncForgets
    /\ UNCHANGED <<clock, diskVars, fts, stamp, vec, callVars, bootVars>>

(* Phase 3.5 and the return to the caller: look '?' rows up again and mark *)
(* the folder as walked, with the time the refresh began (a startup sync:  *)
(* the time it ends).                                                      *)
SyncEnd ==
    /\ phase = "resolve"
    /\ phase' = "none"
    /\ links' = IF job.boot \/ changed THEN Unstale(links, Indexed) ELSE links
    /\ walked' = IF job.walk /\ job.scope \in Folders
                 THEN [walked EXCEPT ![job.scope] = IF job.boot THEN clock ELSE job.at]
                 ELSE walked
    /\ SyncForgets
    /\ UNCHANGED <<clock, diskVars, fts, stamp, vec, callVars, bootVars>>

---------------------------------------------------------------------------
(* WRITE HANDLERS                                                          *)

Blank == CHOOSE r \in Request : TRUE

(* The documents become t, with mtimes m.                                  *)
Disk(t, m) ==
    /\ text' = t /\ mtime' = m
    /\ since' = [f \in Files |-> IF Parses(text[f]) \/ ~Parses(t[f]) THEN since[f]
                                 ELSE IF phase # "none" /\ job.boot THEN Never ELSE clock']

Writes(f, t) ==
    /\ clock < MaxClock /\ clock' = clock + 1
    /\ Disk([text EXCEPT ![f] = t], [mtime EXCEPT ![f] = clock + 1])

(* renameSync: the file keeps its mtime.                                   *)
Moves(f, g) ==
    /\ clock' = clock
    /\ Disk([text EXCEPT ![g] = text[f], ![f] = Absent], [mtime EXCEPT ![g] = mtime[f]])

MayStart(h) == Ready /\ hpc[h] = "idle" /\ (Overlap \/ Quiet)

Takes(h, r, to) ==
    /\ hpc' = [hpc EXCEPT ![h] = to]
    /\ hreq' = [hreq EXCEPT ![h] = r]
    /\ held' = [held EXCEPT ![h] = text[r.file]]

Finish(h) ==
    /\ hpc' = [hpc EXCEPT ![h] = "idle"]
    /\ hreq' = [hreq EXCEPT ![h] = Blank]
    /\ held' = [held EXCEPT ![h] = Absent]
    /\ inbound' = [inbound EXCEPT ![h] = {}]

(* On to the finally clause, when it has something to restore.             *)
Proceed(h) ==
    IF hreq[h].propose
    THEN hpc' = [hpc EXCEPT ![h] = "restore"] /\ UNCHANGED <<hreq, held, inbound>>
    ELSE Finish(h)

(* A handler checks its request and changes the file; git runs next.  The  *)
(* awaits before that are left out: what it writes does not depend on them.*)
Write(h) ==
    /\ MayStart(h)
    /\ \E r \in Request :
          /\ Takes(h, r, "index")
          /\ r.kind # "text_rename" => r.dest = r.file
          /\ \/ /\ r.kind = "edit" /\ Parses(text[r.file]) /\ text[r.file] # r.text
                /\ Parses(r.text) /\ Writes(r.file, r.text)
             \/ /\ r.kind = "create" /\ text[r.file] = Absent
                /\ Parses(r.text) /\ Writes(r.file, r.text)
             \/ /\ r.kind = "delete" /\ text[r.file] = r.text /\ Writes(r.file, Absent)
             \/ /\ r.kind = "text_rename" /\ text[r.file] = r.text /\ text[r.dest] = Absent
                /\ Moves(r.file, r.dest)
    /\ UNCHANGED <<indexVars, walked, syncVars, inbound, bootVars>>

(* doc_rename checks its request, then asks git for the current branch.    *)
BeginRename(h) ==
    /\ MayStart(h)
    /\ \E r \in Request :
          /\ r.kind = "rename" /\ text[r.file] = r.text /\ text[r.dest] = Absent
          /\ Takes(h, r, "rename")
    /\ UNCHANGED <<clock, diskVars, indexVars, walked, syncVars, inbound, bootVars>>

(* snapshotRenameLinks: refresh the whole index,                           *)
RefreshLinks(h) ==
    /\ Idle /\ hpc[h] = "rename"
    /\ hpc' = [hpc EXCEPT ![h] = "snapshot"]
    /\ BeginRefresh(Root)
    /\ UNCHANGED <<clock, diskVars, indexVars, walked, hreq, held, inbound, bootVars>>

(* then note who links to the file.                                        *)
SnapshotLinks(h) ==
    LET rows == {r \in links : r.ok /\ r.to = hreq[h].file /\ r.from # r.to}
    IN  /\ phase = "none" /\ hpc[h] = "snapshot"
        /\ hpc' = [hpc EXCEPT ![h] = "move"]
        /\ inbound' = [inbound EXCEPT ![h] = {r.from : r \in rows}]
        /\ UNCHANGED <<clock, diskVars, indexVars, walked, syncVars, hreq, held, bootVars>>

(* renameSync, after git created the branch of a proposal; it throws if    *)
(* the file is gone, and overwrites a destination made meanwhile.          *)
MoveFile(h) ==
    LET r == hreq[h]
    IN  /\ phase = "none" /\ hpc[h] = "move" /\ (r.propose => Idle)
        /\ \/ /\ text[r.file] # Absent
              /\ Moves(r.file, r.dest)
              /\ hpc' = [hpc EXCEPT ![h] = "index"]
              /\ UNCHANGED <<hreq, held, inbound>>
           \/ /\ text[r.file] = Absent
              /\ Finish(h)
              /\ UNCHANGED <<clock, diskVars>>
        /\ UNCHANGED <<indexVars, walked, syncVars, bootVars>>

(* indexDocument(f, t) with the time of the call, rows as given.           *)
Indexes(f, t, rows) ==
    /\ fts' = [fts EXCEPT ![f] = t]
    /\ stamp' = [stamp EXCEPT ![f] = clock]
    /\ links' = StoreLinks(rows, {f}, [g \in {f} |-> t], Indexed \union {f})

(* removeFromIndex(f).                                                     *)
Unindexes(f) ==
    /\ fts' = [fts EXCEPT ![f] = Absent]
    /\ stamp' = [stamp EXCEPT ![f] = Never]
    /\ vec' = [vec EXCEPT ![f] = Absent]
    /\ links' = DropRows(links, {f})

(* doc_rename: the old path goes, the new one is indexed with the content  *)
(* read at the start, and every file that linked to the old path has its   *)
(* links resolved again from its content of now.                           *)
Renames(h) ==
    LET f == hreq[h].file
        g == hreq[h].dest
        indexed == (Indexed \ {f}) \union {g}
        rows    == StoreLinks(DropRows(links, {f}), {g}, [x \in {g} |-> held[h]], indexed)
    IN  /\ fts' = [fts EXCEPT ![f] = Absent, ![g] = held[h]]
        /\ stamp' = [stamp EXCEPT ![f] = Never, ![g] = clock]
        /\ vec' = [vec EXCEPT ![f] = Absent]
        /\ links' = StoreLinks(rows, {x \in inbound[h] : Parses(text[x])}, text, indexed)

(* The handler after its commit: it updates the index.  An edit may then   *)
(* have links to report.                                                   *)
IndexWrite(h) ==
    LET r == hreq[h]
    IN  /\ Idle /\ hpc[h] = "index"
        /\ \/ /\ r.kind = "edit" /\ Indexes(r.file, r.text, links)
              /\ vec' = [vec EXCEPT ![r.file] = Absent]
           \/ r.kind = "create" /\ Indexes(r.file, r.text, links) /\ UNCHANGED vec
           \/ r.kind \in {"delete", "text_rename"} /\ Unindexes(r.file)
           \/ r.kind = "rename" /\ Parses(held[h]) /\ Renames(h)
           \/ r.kind = "rename" /\ ~Parses(held[h]) /\ Unindexes(r.file)
        /\ \/ r.kind = "edit" /\ hpc' = [hpc EXCEPT ![h] = "warn"]
              /\ UNCHANGED <<hreq, held, inbound>>
           \/ r.kind # "edit" /\ Proceed(h)
        /\ UNCHANGED <<clock, diskVars, walked, syncVars, bootVars>>

(* brokenInboundLinkWarnings refreshes the index when a heading is gone.   *)
WarnLinks(h) ==
    /\ phase = "none" /\ hpc[h] = "warn"
    /\ Proceed(h)
    /\ BeginRefresh(Root) \/ UNCHANGED syncVars
    /\ UNCHANGED <<clock, diskVars, indexVars, walked, bootVars>>

(* git add or git commit fails: the index is not updated, and the checkout *)
(* that restores the branch carries the changed file along.                *)
GitFails(h) ==
    /\ Idle /\ hpc[h] = "index"
    /\ Finish(h)
    /\ UNCHANGED <<clock, diskVars, indexVars, walked, syncVars, bootVars>>

(* finally: git checks the former branch out again, and with it the files  *)
(* as they were, under the mtime of now.                                   *)
RestoreFiles(h) ==
    LET f == hreq[h].file
        g == hreq[h].dest
    IN  /\ Idle /\ hpc[h] = "restore" /\ clock < MaxClock
        /\ clock' = clock + 1
        /\ Disk([x \in Files |-> IF x = f THEN held[h] ELSE IF x = g THEN Absent ELSE text[x]],
                [x \in Files |-> IF x \in {f, g} THEN clock + 1 ELSE mtime[x]])
        /\ Finish(h)
        /\ UNCHANGED <<indexVars, walked, syncVars, bootVars>>

---------------------------------------------------------------------------
(* EMBEDDING PASS, OTHER PROGRAMS, CRASH                                   *)

(* The head of syncEmbeddings: the vectors of every file that can be read  *)
(* are dropped and its sections sent to be embedded.                       *)
EmbedStart ==
    /\ Idle /\ embedDue /\ ~bootDue
    /\ embedDue' = FALSE
    /\ vec' = [f \in Files |-> IF text[f] \in Broken THEN vec[f] ELSE Absent]
    /\ pend' = [f \in Files |-> IF text[f] \in Broken THEN Absent ELSE text[f]]
    /\ UNCHANGED <<clock, diskVars, fts, stamp, links, walked, syncVars, callVars, bootDue, crashes>>

(* An answer of the embedding service: vectors, or an error that is skipped. *)
EmbedAnswer(f) ==
    /\ Idle /\ pend[f] # Absent
    /\ pend' = [pend EXCEPT ![f] = Absent]
    /\ vec' = [vec EXCEPT ![f] = pend[f]] \/ UNCHANGED vec
    /\ UNCHANGED <<clock, diskVars, fts, stamp, links, walked, syncVars, callVars, bootDue,
                   embedDue, crashes>>

(* Another program writes or deletes a document.                           *)
Outside(f) ==
    /\ Others /\ (Overlap \/ ~Busy(f))
    /\ \E t \in TextOrNot \ {text[f]} : Writes(f, t)
    /\ UNCHANGED <<indexVars, walked, syncVars, callVars, bootVars>>

Tick ==
    /\ clock < MaxClock /\ clock' = clock + 1
    /\ UNCHANGED <<diskVars, indexVars, walked, syncVars, callVars, bootVars>>

(* The process dies and starts again.  Documents and database remain as    *)
(* the last transaction left them; everything in memory is gone.           *)
Crash ==
    /\ crashes < MaxCrashes /\ crashes' = crashes + 1
    /\ phase' = "none" /\ SyncForgets
    /\ walked' = [d \in Folders |-> Never]
    /\ bootDue' = TRUE /\ embedDue' = Semantic
    /\ pend' = [f \in Files |-> Absent]
    /\ hpc' = [h \in Handlers |-> "idle"] /\ hreq' = [h \in Handlers |-> Blank]
    /\ held' = [h \in Handlers |-> Absent] /\ inbound' = [h \in Handlers |-> {}]
    /\ UNCHANGED <<clock, diskVars, indexVars>>

Init ==
    /\ clock = 0 /\ crashes = 0
    /\ text \in [Files -> TextOrNot] /\ mtime = [f \in Files |-> 0]
    /\ since = mtime
    /\ fts = [f \in Files |-> Absent] /\ stamp = [f \in Files |-> Never]
    /\ links = {} /\ vec = fts
    /\ walked = [d \in Folders |-> Never]
    /\ phase = "none" /\ job = NoJob /\ found = {} /\ gone = {} /\ changed = FALSE
    /\ todo = stamp /\ backlog = fts /\ pend = fts
    /\ bootDue = TRUE /\ embedDue = Semantic
    /\ hpc = [h \in Handlers |-> "idle"] /\ hreq = [h \in Handlers |-> Blank]
    /\ held = [h \in Handlers |-> Absent] /\ inbound = [h \in Handlers |-> {}]

Sync == (\E f \in Files : SyncRead(f)) \/ SyncInsert \/ SyncRemove \/ SyncLinks \/ SyncEnd

Handle(h) ==
    \/ Write(h) \/ BeginRename(h) \/ RefreshLinks(h) \/ SnapshotLinks(h) \/ MoveFile(h)
    \/ IndexWrite(h) \/ WarnLinks(h) \/ GitFails(h) \/ RestoreFiles(h)

Next ==
    \/ \E scope \in Folders \union Files : Search(scope)
    \/ BootSync \/ Sync
    \/ \E h \in Handlers : Handle(h)
    \/ EmbedStart \/ (\E f \in Files : EmbedAnswer(f))
    \/ \E f \in Files : Outside(f)
    \/ Tick \/ Crash

Spec == Init /\ [][Next]_vars

(* A sync runs to its end without an await, and git ends every command.    *)
FairSpec ==
    /\ Spec /\ WF_vars(Sync)
    /\ \A h \in Handlers :
          WF_vars(RefreshLinks(h) \/ SnapshotLinks(h) \/ MoveFile(h) \/ IndexWrite(h)
                  \/ WarnLinks(h) \/ RestoreFiles(h))

---------------------------------------------------------------------------
(* PROPERTIES                                                              *)

(* A refresh re-reads a file only when it is newer than its row.  So a     *)
(* file that it will skip must be indexed as it is (freshness.ts:14-17).   *)
SkippedIsCurrent ==
    \A f \in Skipped : ~Busy(f) /\ Parses(text[f]) => fts[f] = text[f]

(* The end of a refresh that precedes a query.                             *)
Refreshed == phase = "resolve" /\ phase' = "none" /\ ~job.boot

(* A search never answers from a text that is not on disk any more, unless *)
(* it was changed while the refresh ran (freshness.ts:11-12).              *)
SearchSeesDisk ==
    [][Refreshed => \A f \in FilesIn(job.scope) :
          /\ f \in Indexed' /\ ~Busy(f) /\ text[f] \notin Broken /\ mtime[f] <= job.at
          => fts'[f] = text[f]]_vars

(* The throttle hides a new file for rescan_interval_ms and no longer      *)
(* (freshness.ts:18-21).                                                   *)
NotHiddenLong ==
    [][Refreshed => \A f \in FilesIn(job.scope) :
          /\ Parses(text[f]) /\ mtime[f] <= job.at
          /\ since[f] # Never /\ since[f] + Interval <= job.at
          => f \in Indexed']_vars

(* A link that looks resolved leads to an indexed document, whatever was   *)
(* removed or renamed since it was stored (indexer.ts:84-92).              *)
NoDanglingRows == \A r \in links : r.ok => r.to \in Indexed

(* Every row comes from an indexed file, and the rows of a file that a     *)
(* refresh will skip are those of the text it is indexed with              *)
(* (link-storage.ts:7-9, "in lockstep with the FTS index").                *)
Stems(r, l) == r.to = l \/ (r.to \in Files /\ Base[r.to] = l)

LinksFollowText ==
    Idle /\ ~bootDue =>
        /\ \A r \in links : r.from \in Indexed
        /\ \A f \in Skipped :
              /\ \A l \in LinksIn[fts[f]] : \E r \in Outgoing(links, f) : Stems(r, l)
              /\ \A r \in Outgoing(links, f) : \E l \in LinksIn[fts[f]] : Stems(r, l)

(* A link that a refresh could resolve is resolved: a path link when its   *)
(* document is there, a wiki link when one document has its name, wherever *)
(* it was moved (SKILL.md:221, "they survive a folder move").              *)
LinksResolve ==
    [][Refreshed => \A f \in Indexed' : \A l \in LinksIn[fts'[f]] :
          Resolve(f, l, Indexed').ok
          => \E r \in Outgoing(links', f) : r.ok /\ Stems(r, l)]_vars

(* A search by meaning finds f by vectors of another text than its rows    *)
(* hold, and no refresh will look at f again.                              *)
Misled(f) ==
    /\ ~bootDue /\ ~embedDue /\ f \in Skipped
    /\ vec[f] \notin {Absent, fts[f]}

(* Once the embedding pass has begun, vectors become those of a text that  *)
(* is gone only when an answer arrives for a text that was replaced while  *)
(* it was under way, and then until the next edit: every other write drops *)
(* them with the rows (write-helpers.ts:136-140, sync.ts:410).             *)
OnlyLateAnswersMislead ==
    [][\A f \in Files : Misled(f)' =>
          \/ Misled(f) /\ vec'[f] = vec[f] /\ fts'[f] = fts[f]
          \/ pend[f] \notin {Absent, fts[f]} /\ vec'[f] = pend[f]]_vars

(* Checked by hand: the comment at write-helpers.ts:136-140, "leaving it   *)
(* in place means semantic and hybrid search return matches against text   *)
(* that no longer exists", taken as a promise; a late answer breaks it.    *)
VectorsCurrent == \A f \in Files : ~Misled(f)
=============================================================================
