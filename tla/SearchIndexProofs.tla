------------------------- MODULE SearchIndexProofs -------------------------
(* Theorems of SearchIndex.  Whatever overlaps, dies or changes documents  *)
(* behind the server's back, the state is well typed and a link row that   *)
(* looks resolved leads to an indexed document.  With one writer at a time *)
(* and other programs at work, the rows a refresh passes over are those of *)
(* the disk, searches see it, the throttle hides no document for long, and *)
(* vectors and links follow the text.                                      *)
EXTENDS SearchIndex, FiniteSetTheorems, TLAPS

(* What the rows and stamps depend on: removal and resolution are exact    *)
(* only if a stamp that is set differs from Never.                         *)
LinkInv ==
    /\ clock \in Time /\ mtime \in [Files -> Time]
    /\ stamp \in [Files -> Time \union {Never}]
    /\ todo \in [Files -> Time \union {Never}]
    /\ backlog \in [Files -> TextOrNot]
    /\ hreq \in [Handlers -> Request]
    /\ inbound \in [Handlers -> SUBSET Files]
    /\ links \subseteq Row
    /\ NoDanglingRows

(* Rows that are well formed and, where resolved, lead into a set of files. *)
Sound(rows, indexed) == rows \subseteq Row /\ \A r \in rows : r.ok => r.to \in indexed

LEMMA ResolveSound ==
    ASSUME NEW f \in Files, NEW l \in Target, NEW indexed \in SUBSET Files
    PROVE  Resolve(f, l, indexed) \in Row
           /\ (Resolve(f, l, indexed).ok => Resolve(f, l, indexed).to \in indexed)
<1>1. CASE l \in Files
  <2> USE <1>1
  <2>0. Resolve(f, l, indexed) = [from |-> f, to |-> l, ok |-> l \in indexed]
    BY DEF Resolve
  <2>1. CASE l \in indexed
    <3>1. Resolve(f, l, indexed) = [from |-> f, to |-> l, ok |-> TRUE]
      <4>1. (l \in indexed) = TRUE
        BY <2>1
      <4> QED
        BY <2>0, <4>1
    <3>2. [from |-> f, to |-> l, ok |-> TRUE] \in Row
      BY DEF Row
    <3> QED
      BY <2>1, <3>1, <3>2
  <2>2. CASE l \notin indexed
    <3>1. Resolve(f, l, indexed) = [from |-> f, to |-> l, ok |-> FALSE]
      <4>1. (l \in indexed) = FALSE
        BY <2>2
      <4> QED
        BY <2>0, <4>1
    <3>2. [from |-> f, to |-> l, ok |-> FALSE] \in Row
      BY DEF Row
    <3> QED
      BY <3>1, <3>2
  <2> QED
    BY <2>1, <2>2
<1>2. CASE l \notin Files /\ Cardinality(Matches(l, indexed)) = 1
  <2>1. Matches(l, indexed) # {}
    BY <1>2, FS_EmptySet
  <2>2. PICK g \in Matches(l, indexed) : g = CHOOSE x \in Matches(l, indexed) : TRUE
    BY <2>1
  <2>3. g \in indexed /\ g \in Files
    BY DEF Matches
  <2> QED
    BY <1>2, <2>2, <2>3 DEF Resolve, Row, Target
<1>3. CASE l \notin Files /\ Cardinality(Matches(l, indexed)) # 1
  BY <1>3 DEF Resolve, Row, Target
<1> QED
  BY <1>1, <1>2, <1>3

LEMMA StoreSound ==
    ASSUME NEW rows, NEW indexed \in SUBSET Files, Sound(rows, indexed),
           NEW files \in SUBSET Files, NEW content, \A f \in files : content[f] \in Texts
    PROVE  Sound(StoreLinks(rows, files, content, indexed), indexed)
<1> SUFFICES ASSUME NEW r \in StoreLinks(rows, files, content, indexed)
             PROVE  r \in Row /\ (r.ok => r.to \in indexed)
  BY DEF Sound
<1>1. CASE r \in rows
  BY <1>1 DEF Sound
<1>2. CASE r \notin rows
  <2>1. PICK f \in files : r \in RowsFor(f, content[f], indexed)
    BY <1>2 DEF StoreLinks
  <2>2. PICK l \in LinksIn[content[f]] : r = Resolve(f, l, indexed)
    BY <2>1 DEF RowsFor
  <2>3. l \in Target
    BY <2>2, TextAssumption
  <2> QED
    BY <2>2, <2>3, ResolveSound
<1> QED
  BY <1>1, <1>2

(* removeFromIndex: no row that leads to a removed file looks resolved.    *)
LEMMA DropSound ==
    ASSUME NEW rows, NEW indexed \in SUBSET Files, Sound(rows, indexed), NEW files
    PROVE  Sound(DropRows(rows, files), indexed \ files)
<1> SUFFICES ASSUME NEW r \in DropRows(rows, files)
             PROVE  r \in Row /\ (r.ok => r.to \in indexed \ files)
  BY DEF Sound
<1>1. PICK s \in rows : r = IF s.to \in files THEN [s EXCEPT !.ok = FALSE] ELSE s
  BY DEF DropRows
<1> QED
  BY <1>1 DEF Sound, Row

LEMMA UnstaleSound ==
    ASSUME NEW rows, NEW indexed \in SUBSET Files, Sound(rows, indexed)
    PROVE  Sound(Unstale(rows, indexed), indexed)
<1> SUFFICES ASSUME NEW r \in Unstale(rows, indexed)
             PROVE  r \in Row /\ (r.ok => r.to \in indexed)
  BY DEF Sound
<1>1. PICK s \in rows : r = IF s.ok THEN s ELSE Resolve(s.from, s.to, indexed)
  BY DEF Unstale
<1>2. s \in Row /\ s.from \in Files /\ s.to \in Target
  BY DEF Sound, Row
<1> QED
  BY <1>1, <1>2, ResolveSound DEF Sound

LEMMA MoreSound ==
    ASSUME NEW rows, NEW some, NEW more, Sound(rows, some), some \subseteq more
    PROVE  Sound(rows, more)
BY DEF Sound


LEMMA BlankTyped == Blank \in Request
<1>1. PICK k \in Kinds, p \in Proposes, f \in Files, t \in Texts : TRUE
  BY TextAssumption, KindAssumption
<1>2. [kind |-> k, file |-> f, dest |-> f, text |-> t, propose |-> p] \in Request
  BY DEF Request
<1> QED
  BY <1>2 DEF Blank

LEMMA InitLinks == Init => LinkInv
<1> SUFFICES ASSUME Init PROVE LinkInv
  OBVIOUS
<1>1. 0 \in Time
  BY ClockAssumption DEF Time
<1>2. NoDanglingRows /\ links \subseteq Row
  BY DEF Init, NoDanglingRows
<1> QED
  BY <1>1, <1>2, BlankTyped DEF Init, LinkInv, TextOrNot

(* The variables LinkInv speaks of.                                        *)
linkVars == <<clock, mtime, stamp, todo, backlog, hreq, inbound, links>>

LEMMA LinksUntouched ==
    ASSUME LinkInv, UNCHANGED linkVars
    PROVE  LinkInv'
BY DEF LinkInv, linkVars, NoDanglingRows, Indexed, Row, Target, Time, Request, TextOrNot

(* A step that leaves the rows and the stamps alone keeps the invariant if *)
(* it keeps the types.                                                     *)
LEMMA RowsUntouched ==
    ASSUME LinkInv, UNCHANGED <<stamp, links>>,
           clock' \in Time, mtime' \in [Files -> Time],
           todo' \in [Files -> Time \union {Never}], backlog' \in [Files -> TextOrNot],
           hreq' \in [Handlers -> Request], inbound' \in [Handlers -> SUBSET Files]
    PROVE  LinkInv'
BY DEF LinkInv, NoDanglingRows, Indexed

LEMMA SyncBegins ==
    ASSUME LinkInv, NEW scope, NEW walk, NEW boot, BeginSync(scope, walk, boot)
    PROVE  todo' \in [Files -> Time \union {Never}] /\ backlog' \in [Files -> TextOrNot]
BY DEF LinkInv, BeginSync, Noted, TextOrNot

LEMMA RefreshBegins ==
    ASSUME LinkInv, NEW scope, BeginRefresh(scope)
    PROVE  todo' \in [Files -> Time \union {Never}] /\ backlog' \in [Files -> TextOrNot]
BY SyncBegins DEF BeginRefresh

LEMMA Finishes ==
    ASSUME LinkInv, NEW h \in Handlers, Finish(h)
    PROVE  hreq' \in [Handlers -> Request] /\ inbound' \in [Handlers -> SUBSET Files]
BY BlankTyped DEF LinkInv, Finish

LEMMA Proceeds ==
    ASSUME LinkInv, NEW h \in Handlers, Proceed(h)
    PROVE  hreq' \in [Handlers -> Request] /\ inbound' \in [Handlers -> SUBSET Files]
BY Finishes DEF LinkInv, Proceed

LEMMA DiskWrites ==
    ASSUME LinkInv, NEW f \in Files, NEW t, Writes(f, t)
    PROVE  clock' \in Time /\ mtime' \in [Files -> Time]
<1>1. clock + 1 \in Time /\ clock' = clock + 1
  BY ClockAssumption DEF LinkInv, Writes, Time
<1> QED
  BY <1>1 DEF LinkInv, Writes, Disk

LEMMA DiskMoves ==
    ASSUME LinkInv, NEW f \in Files, NEW g \in Files, Moves(f, g)
    PROVE  clock' \in Time /\ mtime' \in [Files -> Time]
BY DEF LinkInv, Moves, Disk

LEMMA SyncKeeps ==
    ASSUME LinkInv, Sync
    PROVE  LinkInv'
<1> USE DEF LinkInv
<1>1. ASSUME NEW f \in Files, SyncRead(f) PROVE LinkInv'
  <2>1. todo' \in [Files -> Time \union {Never}] /\ backlog' \in [Files -> TextOrNot]
    BY <1>1 DEF SyncRead, Parses, TextOrNot
  <2> QED
    BY <1>1, <2>1, RowsUntouched DEF SyncRead, diskVars, indexVars, callVars
<1>2. CASE SyncInsert
  <2>1. stamp' \in [Files -> Time \union {Never}] /\ todo' \in [Files -> Time \union {Never}]
    BY <1>2 DEF SyncInsert, Inserts
  <2>2. \A f \in Indexed : stamp'[f] # Never
    BY <1>2 DEF SyncInsert, Inserts, Indexed, Prepared
  <2>3. NoDanglingRows'
    BY <1>2, <2>2 DEF SyncInsert, Inserts, NoDanglingRows, Indexed
  <2> QED
    BY <1>2, <2>1, <2>3 DEF SyncInsert, Inserts, diskVars, callVars
<1>3. CASE SyncRemove
  <2>1. stamp' \in [Files -> Time \union {Never}]
    BY <1>3 DEF SyncRemove
  <2>2. Indexed' = Indexed \ gone
    BY <1>3 DEF SyncRemove, Indexed
  <2>3. Sound(links, Indexed)
    BY DEF Sound, NoDanglingRows
  <2>4. Sound(links', Indexed')
    <3>1. Indexed \in SUBSET Files
      BY DEF Indexed
    <3> HIDE DEF LinkInv
    <3>2. Sound(DropRows(links, gone), Indexed \ gone)
      BY <2>3, <3>1, DropSound
    <3> QED
      BY <1>3, <2>2, <3>2 DEF SyncRemove
  <2> QED
    BY <1>3, <2>1, <2>4 DEF SyncRemove, Sound, NoDanglingRows, diskVars, callVars
<1>4. CASE SyncLinks
  <2>1. Sound(links, Indexed)
    BY DEF Sound, NoDanglingRows
  <2>2. Indexed' = Indexed
    BY <1>4 DEF SyncLinks, Indexed
  <2>3. Sound(links', Indexed)
    BY <1>4, <2>1, StoreSound DEF SyncLinks, TextOrNot, Indexed
  <2> QED
    BY <1>4, <2>2, <2>3 DEF SyncLinks, Sound, NoDanglingRows, diskVars, callVars
<1>5. CASE SyncEnd
  <2>1. Sound(links, Indexed)
    BY DEF Sound, NoDanglingRows
  <2>2. Indexed' = Indexed
    BY <1>5 DEF SyncEnd, Indexed
  <2>3. Sound(links', Indexed)
    BY <1>5, <2>1, UnstaleSound DEF SyncEnd, Indexed
  <2>4. todo' \in [Files -> Time \union {Never}] /\ backlog' \in [Files -> TextOrNot]
    BY <1>5 DEF SyncEnd, SyncForgets, TextOrNot
  <2> QED
    BY <1>5, <2>2, <2>3, <2>4 DEF SyncEnd, Sound, NoDanglingRows, diskVars, callVars
<1> QED
  BY <1>1, <1>2, <1>3, <1>4, <1>5 DEF Sync

(* indexDocument: the rows it starts from may lead to the file it indexes. *)
LEMMA IndexesSound ==
    ASSUME LinkInv, NEW f \in Files, NEW t \in Texts, Indexes(f, t, links)
    PROVE  stamp' \in [Files -> Time \union {Never}] /\ Sound(links', Indexed')
<1>1. stamp' \in [Files -> Time \union {Never}]
  BY DEF LinkInv, Indexes
<1>2. Indexed' = Indexed \union {f}
  BY DEF LinkInv, Indexes, Indexed, Time, Never
<1>3. Sound(links, Indexed \union {f})
  BY DEF LinkInv, Sound, NoDanglingRows
<1>4. Sound(links', Indexed \union {f})
  BY <1>3, StoreSound DEF Indexes, Indexed
<1> QED
  BY <1>1, <1>2, <1>4

LEMMA UnindexesSound ==
    ASSUME LinkInv, NEW f \in Files, Unindexes(f)
    PROVE  stamp' \in [Files -> Time \union {Never}] /\ Sound(links', Indexed')
<1>1. stamp' \in [Files -> Time \union {Never}]
  BY DEF LinkInv, Unindexes
<1>2. Indexed' = Indexed \ {f}
  BY DEF LinkInv, Unindexes, Indexed
<1>3. Sound(links, Indexed)
  BY DEF LinkInv, Sound, NoDanglingRows
<1> QED
  BY <1>1, <1>2, <1>3, DropSound DEF Unindexes, Indexed

LEMMA RenamesSound ==
    ASSUME LinkInv, NEW h \in Handlers, Parses(held[h]), Renames(h)
    PROVE  stamp' \in [Files -> Time \union {Never}] /\ Sound(links', Indexed')
<1> DEFINE f == hreq[h].file
           g == hreq[h].dest
           indexed == (Indexed \ {f}) \union {g}
           dropped == DropRows(links, {f})
           rows == StoreLinks(dropped, {g}, [x \in {g} |-> held[h]], indexed)
           linkers == {x \in inbound[h] : Parses(text[x])}
<1>1. f \in Files /\ g \in Files /\ indexed \in SUBSET Files
  BY DEF LinkInv, Request, Indexed
<1>2. stamp' \in [Files -> Time \union {Never}]
  BY <1>1 DEF LinkInv, Renames
<1>3. Indexed' = indexed
  BY <1>1 DEF LinkInv, Renames, Indexed, Time, Never
<1>4. Sound(dropped, indexed)
  <2>1. Sound(links, Indexed)
    BY DEF LinkInv, Sound, NoDanglingRows
  <2>2. Sound(dropped, Indexed \ {f})
    BY <2>1, DropSound DEF Indexed
  <2> QED
    BY <2>2, MoreSound
<1>5. Sound(rows, indexed)
  <2>1. \A x \in {g} : [y \in {g} |-> held[h]][x] \in Texts
    BY DEF Parses
  <2> HIDE DEF dropped, indexed
  <2> QED
    BY <1>1, <1>4, <2>1, StoreSound
<1>6. Sound(StoreLinks(rows, linkers, text, indexed), indexed)
  <2>1. linkers \in SUBSET Files /\ \A x \in linkers : text[x] \in Texts
    BY DEF LinkInv, Parses
  <2> HIDE DEF rows, indexed, linkers
  <2> QED
    BY <1>1, <1>5, <2>1, StoreSound
<1>7. links' = StoreLinks(rows, linkers, text, indexed)
  BY DEF Renames
<1> QED
  BY <1>2, <1>3, <1>6, <1>7

LEMMA IndexWriteKeeps ==
    ASSUME LinkInv, NEW h \in Handlers, IndexWrite(h)
    PROVE  LinkInv'
<1> DEFINE r == hreq[h]
<1>1. r.file \in Files /\ r.text \in Texts
  BY DEF LinkInv, Request
<1>2. stamp' \in [Files -> Time \union {Never}] /\ Sound(links', Indexed')
  BY <1>1, IndexesSound, UnindexesSound, RenamesSound DEF IndexWrite
<1>3. hreq' \in [Handlers -> Request] /\ inbound' \in [Handlers -> SUBSET Files]
  BY Proceeds DEF IndexWrite, LinkInv
<1> QED
  BY <1>2, <1>3 DEF IndexWrite, LinkInv, Sound, NoDanglingRows, diskVars, syncVars

LEMMA HandleKeeps ==
    ASSUME LinkInv, NEW h \in Handlers, Handle(h)
    PROVE  LinkInv'
<1> USE DEF diskVars, indexVars, syncVars, bootVars
<1>1. CASE Write(h)
  <2>1. PICK r \in Request : Takes(h, r, "index") /\ (Writes(r.file, r.text)
                             \/ Writes(r.file, Absent) \/ Moves(r.file, r.dest))
    BY <1>1 DEF Write
  <2>2. clock' \in Time /\ mtime' \in [Files -> Time]
    BY <2>1, DiskWrites, DiskMoves DEF Request
  <2>3. hreq' \in [Handlers -> Request]
    BY <2>1 DEF Takes, LinkInv
  <2> QED
    BY <1>1, <2>2, <2>3, RowsUntouched DEF Write, LinkInv
<1>2. CASE BeginRename(h)
  <2>1. hreq' \in [Handlers -> Request]
    BY <1>2 DEF BeginRename, Takes, LinkInv
  <2> QED
    BY <1>2, <2>1, RowsUntouched DEF BeginRename, LinkInv
<1>3. CASE RefreshLinks(h)
  BY <1>3, RefreshBegins, RowsUntouched DEF RefreshLinks, LinkInv
<1>4. CASE SnapshotLinks(h)
  <2>1. inbound' \in [Handlers -> SUBSET Files]
    BY <1>4 DEF SnapshotLinks, LinkInv, Row
  <2> QED
    BY <1>4, <2>1, RowsUntouched DEF SnapshotLinks, LinkInv
<1>5. CASE MoveFile(h)
  <2>1. clock' \in Time /\ mtime' \in [Files -> Time]
    BY <1>5, DiskMoves DEF MoveFile, LinkInv, Request
  <2>2. hreq' \in [Handlers -> Request] /\ inbound' \in [Handlers -> SUBSET Files]
    BY <1>5, Finishes DEF MoveFile, LinkInv
  <2> QED
    BY <1>5, <2>1, <2>2, RowsUntouched DEF MoveFile, LinkInv
<1>6. CASE IndexWrite(h)
  BY <1>6, IndexWriteKeeps
<1>7. CASE WarnLinks(h)
  <2>1. todo' \in [Files -> Time \union {Never}] /\ backlog' \in [Files -> TextOrNot]
    BY <1>7, RefreshBegins DEF WarnLinks, LinkInv
  <2> QED
    BY <1>7, <2>1, Proceeds, RowsUntouched DEF WarnLinks, LinkInv
<1>8. CASE GitFails(h)
  BY <1>8, Finishes, RowsUntouched DEF GitFails, LinkInv
<1>9. CASE RestoreFiles(h)
  <2>1. clock' \in Time /\ mtime' \in [Files -> Time]
    BY <1>9, ClockAssumption DEF RestoreFiles, Disk, LinkInv, Time
  <2> QED
    BY <1>9, <2>1, Finishes, RowsUntouched DEF RestoreFiles, LinkInv
<1> QED
  BY <1>1, <1>2, <1>3, <1>4, <1>5, <1>6, <1>7, <1>8, <1>9 DEF Handle

LEMMA OutsideKeeps ==
    ASSUME LinkInv, NEW f \in Files, Outside(f)
    PROVE  LinkInv'
BY DiskWrites, RowsUntouched DEF Outside, LinkInv, indexVars, syncVars, callVars

LEMMA CrashKeeps ==
    ASSUME LinkInv, Crash
    PROVE  LinkInv'
<1>1. hreq' \in [Handlers -> Request] /\ inbound' \in [Handlers -> SUBSET Files]
  BY BlankTyped DEF Crash
<1>2. todo' \in [Files -> Time \union {Never}] /\ backlog' \in [Files -> TextOrNot]
  BY DEF Crash, SyncForgets, TextOrNot
<1> QED
  BY <1>1, <1>2, RowsUntouched DEF Crash, LinkInv, diskVars, indexVars

LEMMA NextKeeps ==
    ASSUME LinkInv, [Next]_vars
    PROVE  LinkInv'
<1> USE DEF diskVars, indexVars, syncVars, callVars, bootVars
<1>1. ASSUME NEW scope \in Folders \union Files, Search(scope) PROVE LinkInv'
  BY <1>1, RefreshBegins, RowsUntouched DEF Search, LinkInv
<1>2. CASE BootSync
  BY <1>2, SyncBegins, RowsUntouched DEF BootSync, LinkInv
<1>3. CASE EmbedStart
  BY <1>3, LinksUntouched DEF EmbedStart, linkVars
<1>4. ASSUME NEW f \in Files, EmbedAnswer(f) PROVE LinkInv'
  BY <1>4, LinksUntouched DEF EmbedAnswer, linkVars
<1>5. CASE Tick
  <2>1. clock' \in Time
    BY <1>5, ClockAssumption DEF Tick, LinkInv, Time
  <2> QED
    BY <1>5, <2>1, RowsUntouched DEF Tick, LinkInv
<1>6. CASE UNCHANGED vars
  BY <1>6, LinksUntouched DEF vars, linkVars
<1> QED
  BY <1>1, <1>2, <1>3, <1>4, <1>5, <1>6, SyncKeeps, HandleKeeps, OutsideKeeps, CrashKeeps DEF Next

(* A link that looks resolved leads to an indexed document, whatever       *)
(* overlaps, dies or changes behind the server's back (indexer.ts:84-92).  *)
THEOREM NoRowDangles == Spec => []NoDanglingRows
<1>1. LinkInv => NoDanglingRows
  BY DEF LinkInv
<1> QED
  BY <1>1, InitLinks, NextKeeps, PTL DEF Spec

---------------------------------------------------------------------------
(* TYPES                                                                   *)

(* The parts of TypeOK that the rows do not depend on.                     *)
SyncTyped == phase \in {"none", "index", "links", "resolve"} /\ job \in Job
             /\ found \subseteq Files /\ gone \subseteq Files /\ changed \in BOOLEAN
DiskTyped == text \in [Files -> TextOrNot] /\ since \in [Files -> Time \union {Never}]
CallTyped == hpc \in [Handlers -> {"idle", "rename", "snapshot", "move", "index", "warn", "restore"}]
             /\ held \in [Handlers -> TextOrNot]
BootTyped == crashes \in 0 .. MaxCrashes /\ bootDue \in BOOLEAN /\ embedDue \in BOOLEAN
             /\ pend \in [Files -> TextOrNot]
DataTyped == fts \in [Files -> TextOrNot] /\ vec \in [Files -> TextOrNot]
             /\ walked \in [Folders -> Time \union {Never}]

LEMMA TypeParts ==
    ASSUME LinkInv
    PROVE  TypeOK <=> SyncTyped /\ DiskTyped /\ CallTyped /\ BootTyped /\ DataTyped
BY DEF LinkInv, TypeOK, SyncTyped, DiskTyped, CallTyped, BootTyped, DataTyped

LEMMA NoJobTyped == NoJob \in Job
BY ClockAssumption, FolderAssumption DEF NoJob, Job, Time

LEMMA InitTyped == Init => TypeOK
<1> SUFFICES ASSUME Init PROVE TypeOK
  OBVIOUS
<1>1. LinkInv
  BY InitLinks
<1>2. SyncTyped
  BY NoJobTyped DEF Init, SyncTyped
<1>3. DiskTyped
  BY ClockAssumption DEF Init, DiskTyped, Time
<1>4. CallTyped
  BY DEF Init, CallTyped, TextOrNot
<1>5. BootTyped
  BY ClockAssumption, KindAssumption DEF Init, BootTyped, TextOrNot
<1>6. DataTyped
  BY DEF Init, DataTyped, TextOrNot
<1> QED
  BY <1>1, <1>2, <1>3, <1>4, <1>5, <1>6, TypeParts

LEMMA SyncBeginsTyped ==
    ASSUME LinkInv, NEW scope \in Folders \union Files, NEW walk \in BOOLEAN, NEW boot \in BOOLEAN,
           BeginSync(scope, walk, boot)
    PROVE  SyncTyped'
<1>1. FilesIn(scope) \subseteq Files
  BY FolderAssumption DEF FilesIn
<1>2. job' \in Job
  BY DEF BeginSync, Job, LinkInv
<1> QED
  BY <1>1, <1>2 DEF BeginSync, SyncTyped, Indexed, Present

(* What a refresh makes of the scope it is asked for.                      *)
Widened(scope) == IF scope \in Files \ Present THEN Parent[scope] ELSE scope

LEMMA WidenedTyped ==
    ASSUME NEW scope \in Folders \union Files
    PROVE  Widened(scope) \in Folders \union Files
BY FolderAssumption DEF Widened

LEMMA RefreshIsSync ==
    ASSUME NEW scope \in Folders \union Files, BeginRefresh(scope)
    PROVE  \E walk \in BOOLEAN :
              /\ BeginSync(Widened(scope), walk, FALSE)
              /\ walk <=> Widened(scope) \in Files \/ ~WalkedRecently(Widened(scope))
<1> DEFINE s == Widened(scope)
           walk == s \in Files \/ ~WalkedRecently(s)
<1>1. walk \in BOOLEAN
  OBVIOUS
<1>2. BeginSync(s, walk, FALSE)
  BY DEF BeginRefresh, Widened
<1> QED
  BY <1>1, <1>2

LEMMA RefreshBeginsTyped ==
    ASSUME LinkInv, NEW scope \in Folders \union Files, BeginRefresh(scope)
    PROVE  SyncTyped'
<1>1. PICK walk \in BOOLEAN : BeginSync(Widened(scope), walk, FALSE)
  BY RefreshIsSync
<1>2. Widened(scope) \in Folders \union Files
  BY WidenedTyped
<1> QED
  BY <1>1, <1>2, SyncBeginsTyped

LEMMA DiskTypes ==
    ASSUME LinkInv, DiskTyped, clock' \in Time, NEW t \in [Files -> TextOrNot], NEW m, Disk(t, m)
    PROVE  DiskTyped'
BY DEF Disk, DiskTyped

LEMMA WritesTypes ==
    ASSUME LinkInv, DiskTyped, NEW f \in Files, NEW t \in TextOrNot, Writes(f, t)
    PROVE  DiskTyped'
<1>1. [text EXCEPT ![f] = t] \in [Files -> TextOrNot]
  BY DEF DiskTyped
<1>2. clock' \in Time
  BY DiskWrites
<1> QED
  BY <1>1, <1>2, DiskTypes DEF Writes

LEMMA MovesTypes ==
    ASSUME LinkInv, DiskTyped, NEW f \in Files, NEW g \in Files, Moves(f, g)
    PROVE  DiskTyped'
<1>1. [text EXCEPT ![g] = text[f], ![f] = Absent] \in [Files -> TextOrNot]
  BY DEF DiskTyped, TextOrNot
<1>2. clock' \in Time
  BY DiskMoves
<1> QED
  BY <1>1, <1>2, DiskTypes DEF Moves

LEMMA FinishTypes ==
    ASSUME CallTyped, NEW h \in Handlers, Finish(h)
    PROVE  CallTyped'
BY DEF CallTyped, Finish, TextOrNot

LEMMA ProceedTypes ==
    ASSUME CallTyped, NEW h \in Handlers, Proceed(h)
    PROVE  CallTyped'
BY FinishTypes DEF CallTyped, Proceed

LEMMA SyncKeepsTypes ==
    ASSUME LinkInv, TypeOK, Sync
    PROVE  SyncTyped' /\ DiskTyped' /\ CallTyped' /\ BootTyped' /\ DataTyped'
<1> USE DEF diskVars, indexVars, syncVars, callVars, bootVars,
        SyncTyped, DiskTyped, CallTyped, BootTyped, DataTyped
<1>0. SyncTyped /\ DiskTyped /\ CallTyped /\ BootTyped /\ DataTyped
  BY TypeParts
<1>1. ASSUME NEW f \in Files, SyncRead(f)
      PROVE  SyncTyped' /\ DiskTyped' /\ CallTyped' /\ BootTyped' /\ DataTyped'
  BY <1>0, <1>1 DEF SyncRead
<1>2. CASE SyncInsert
  <2>1. fts' \in [Files -> TextOrNot] /\ vec' \in [Files -> TextOrNot]
    BY <1>0, <1>2 DEF SyncInsert, Inserts, DropVectors, LinkInv, TextOrNot
  <2> QED
    BY <1>0, <1>2, <2>1 DEF SyncInsert, Inserts
<1>3. CASE SyncRemove
  <2>1. fts' \in [Files -> TextOrNot] /\ vec' \in [Files -> TextOrNot]
    BY <1>0, <1>3 DEF SyncRemove, TextOrNot
  <2> QED
    BY <1>0, <1>3, <2>1 DEF SyncRemove
<1>4. CASE SyncLinks
  BY <1>0, <1>4 DEF SyncLinks
<1>5. CASE SyncEnd
  <2>1. walked' \in [Folders -> Time \union {Never}]
    BY <1>0, <1>5 DEF SyncEnd, Job, LinkInv
  <2>2. SyncTyped'
    BY <1>5, NoJobTyped DEF SyncEnd, SyncForgets
  <2> QED
    BY <1>0, <1>5, <2>1, <2>2 DEF SyncEnd
<1> QED
  BY <1>1, <1>2, <1>3, <1>4, <1>5 DEF Sync

LEMMA HandleKeepsTypes ==
    ASSUME LinkInv, TypeOK, NEW h \in Handlers, Handle(h)
    PROVE  SyncTyped' /\ DiskTyped' /\ CallTyped' /\ BootTyped' /\ DataTyped'
<1> USE DEF diskVars, indexVars, syncVars, callVars, bootVars
<1>0. SyncTyped /\ DiskTyped /\ CallTyped /\ BootTyped /\ DataTyped
  BY TypeParts
<1>s. (UNCHANGED syncVars => SyncTyped') /\ (UNCHANGED diskVars => DiskTyped')
      /\ (UNCHANGED callVars => CallTyped') /\ (UNCHANGED bootVars => BootTyped')
      /\ (UNCHANGED <<indexVars, walked>> => DataTyped')
  BY <1>0 DEF SyncTyped, DiskTyped, CallTyped, BootTyped, DataTyped
<1>r. /\ hreq[h].file \in Files /\ hreq[h].dest \in Files /\ hreq[h].text \in Texts
      /\ Root \in Folders \union Files
  BY FolderAssumption DEF LinkInv, Request
<1>1. CASE Write(h)
  <2>1. PICK r \in Request : Takes(h, r, "index") /\ (Writes(r.file, r.text)
                             \/ Writes(r.file, Absent) \/ Moves(r.file, r.dest))
    BY <1>1 DEF Write
  <2>2. DiskTyped'
    BY <1>0, <2>1, WritesTypes, MovesTypes DEF Request, TextOrNot
  <2>3. CallTyped'
    BY <1>0, <2>1 DEF Takes, CallTyped, DiskTyped, Request
  <2> QED
    BY <1>1, <1>s, <2>2, <2>3 DEF Write
<1>2. CASE BeginRename(h)
  <2>3. CallTyped'
    BY <1>0, <1>2 DEF BeginRename, Takes, CallTyped, DiskTyped, Request
  <2> QED
    BY <1>2, <1>s, <2>3 DEF BeginRename
<1>3. CASE RefreshLinks(h)
  <2>1. SyncTyped'
    BY <1>3, <1>r, RefreshBeginsTyped DEF RefreshLinks
  <2>2. CallTyped'
    BY <1>0, <1>3 DEF RefreshLinks, CallTyped
  <2> QED
    BY <1>3, <1>s, <2>1, <2>2 DEF RefreshLinks
<1>4. CASE SnapshotLinks(h)
  <2>2. CallTyped'
    BY <1>0, <1>4 DEF SnapshotLinks, CallTyped
  <2> QED
    BY <1>4, <1>s, <2>2 DEF SnapshotLinks
<1>5. CASE MoveFile(h)
  <2>1. DiskTyped'
    BY <1>0, <1>5, <1>r, <1>s, MovesTypes DEF MoveFile
  <2>2. CallTyped'
    <3>1. CASE Finish(h)
      BY <1>0, <3>1, FinishTypes
    <3>2. CASE ~Finish(h)
      BY <1>0, <1>5, <3>2 DEF MoveFile, CallTyped
    <3> QED
      BY <3>1, <3>2
  <2> QED
    BY <1>5, <1>s, <2>1, <2>2 DEF MoveFile
<1>6. CASE IndexWrite(h)
  <2>1. DataTyped'
    BY <1>0, <1>6, <1>r DEF IndexWrite, Indexes, Unindexes, Renames, DataTyped, CallTyped,
                            TextOrNot, Parses
  <2>2. CallTyped'
    <3>1. CASE Proceed(h)
      BY <1>0, <3>1, ProceedTypes
    <3>2. CASE ~Proceed(h)
      BY <1>0, <1>6, <3>2 DEF IndexWrite, CallTyped
    <3> QED
      BY <3>1, <3>2
  <2> QED
    BY <1>6, <1>s, <2>1, <2>2 DEF IndexWrite
<1>7. CASE WarnLinks(h)
  <2>1. SyncTyped'
    BY <1>7, <1>r, <1>s, RefreshBeginsTyped DEF WarnLinks
  <2>2. CallTyped'
    BY <1>0, <1>7, ProceedTypes DEF WarnLinks
  <2> QED
    BY <1>7, <1>s, <2>1, <2>2 DEF WarnLinks
<1>8. CASE GitFails(h)
  BY <1>0, <1>8, <1>s, FinishTypes DEF GitFails
<1>9. CASE RestoreFiles(h)
  <2>1. clock' \in Time
    BY <1>9, ClockAssumption DEF RestoreFiles, LinkInv, Time
  <2>2. [x \in Files |-> IF x = hreq[h].file THEN held[h]
                         ELSE IF x = hreq[h].dest THEN Absent ELSE text[x]] \in [Files -> TextOrNot]
    BY <1>0 DEF CallTyped, DiskTyped, TextOrNot
  <2>3. DiskTyped'
    BY <1>0, <1>9, <2>1, <2>2, DiskTypes DEF RestoreFiles
  <2>4. CallTyped'
    BY <1>0, <1>9, FinishTypes DEF RestoreFiles
  <2> QED
    BY <1>9, <1>s, <2>3, <2>4 DEF RestoreFiles
<1> QED
  BY <1>1, <1>2, <1>3, <1>4, <1>5, <1>6, <1>7, <1>8, <1>9 DEF Handle

LEMMA NextKeepsTypes ==
    ASSUME LinkInv, TypeOK, [Next]_vars
    PROVE  LinkInv' /\ TypeOK'
<1> USE DEF diskVars, indexVars, syncVars, callVars, bootVars
<1>0. SyncTyped /\ DiskTyped /\ CallTyped /\ BootTyped /\ DataTyped
  BY TypeParts
<1>s. (UNCHANGED syncVars => SyncTyped') /\ (UNCHANGED diskVars => DiskTyped')
      /\ (UNCHANGED callVars => CallTyped') /\ (UNCHANGED bootVars => BootTyped')
      /\ (UNCHANGED <<indexVars, walked>> => DataTyped')
  BY <1>0 DEF SyncTyped, DiskTyped, CallTyped, BootTyped, DataTyped
<1>l. LinkInv'
  BY NextKeeps
<1> DEFINE Kept == SyncTyped' /\ DiskTyped' /\ CallTyped' /\ BootTyped' /\ DataTyped'
<1>1. ASSUME NEW scope \in Folders \union Files, Search(scope) PROVE Kept
  BY <1>1, <1>s, RefreshBeginsTyped DEF Search
<1>2. ASSUME BootSync PROVE Kept
  <2>1. SyncTyped'
    BY <1>2, SyncBeginsTyped, FolderAssumption DEF BootSync
  <2>2. BootTyped'
    BY <1>0, <1>2 DEF BootSync, BootTyped
  <2> QED
    BY <1>2, <1>s, <2>1, <2>2 DEF BootSync
<1>3. ASSUME EmbedStart PROVE Kept
  <2>1. BootTyped'
    BY <1>0, <1>3 DEF EmbedStart, BootTyped, DiskTyped, TextOrNot
  <2>2. DataTyped'
    BY <1>0, <1>3 DEF EmbedStart, DataTyped, TextOrNot
  <2> QED
    BY <1>3, <1>s, <2>1, <2>2 DEF EmbedStart
<1>4. ASSUME NEW f \in Files, EmbedAnswer(f) PROVE Kept
  <2>1. BootTyped'
    BY <1>0, <1>4 DEF EmbedAnswer, BootTyped, TextOrNot
  <2>2. DataTyped'
    BY <1>0, <1>4 DEF EmbedAnswer, DataTyped, BootTyped
  <2> QED
    BY <1>4, <1>s, <2>1, <2>2 DEF EmbedAnswer
<1>5. ASSUME NEW f \in Files, Outside(f) PROVE Kept
  BY <1>0, <1>5, <1>s, WritesTypes DEF Outside
<1>6. ASSUME Tick PROVE Kept
  BY <1>6, <1>s DEF Tick
<1>7. ASSUME Crash PROVE Kept
  <2>1. SyncTyped'
    BY <1>7, NoJobTyped DEF Crash, SyncForgets, SyncTyped
  <2>2. CallTyped'
    BY <1>7 DEF Crash, CallTyped, TextOrNot
  <2>3. BootTyped'
    BY <1>0, <1>7, KindAssumption, ClockAssumption DEF Crash, BootTyped, TextOrNot
  <2>4. DataTyped'
    BY <1>0, <1>7 DEF Crash, DataTyped
  <2> QED
    BY <1>7, <1>s, <2>1, <2>2, <2>3, <2>4 DEF Crash
<1>8. ASSUME UNCHANGED vars PROVE Kept
  BY <1>8, <1>s DEF vars
<1>9. ASSUME NEW h \in Handlers, Handle(h) PROVE Kept
  BY <1>9, HandleKeepsTypes
<1>10. Kept
  BY <1>1, <1>2, <1>3, <1>4, <1>5, <1>6, <1>7, <1>8, <1>9, SyncKeepsTypes DEF Next
<1>11. TypeOK'
  BY <1>l, <1>10 DEF LinkInv, TypeOK, SyncTyped, DiskTyped, CallTyped, BootTyped, DataTyped
<1> QED
  BY <1>l, <1>11

(* Documents, rows, stamps, links, vectors, the sync under way and the     *)
(* handlers keep their types in every behaviour, overlaps and crashes      *)
(* included: a sync never runs without a job of the right shape, and a     *)
(* stamp is a time that has come or Never.                                 *)
THEOREM TypesCorrect == Spec => []TypeOK
BY InitLinks, InitTyped, NextKeepsTypes, PTL DEF Spec

---------------------------------------------------------------------------
(* FRESHNESS                                                               *)

(* What the theorems on freshness take for granted: one writer at a time,  *)
(* whose files others leave alone, and no move of plain text, which is the *)
(* one write that changes a document and leaves its mtime.                 *)
Undisturbed == ~Overlap /\ "text_rename" \notin Kinds

OneHandler == \A h, k \in Handlers : InFlight(h) /\ InFlight(k) => h = k

Moving(h) == hpc[h] \in {"rename", "snapshot", "move"}

(* What a handler read before it awaited is still so: until it moves a     *)
(* document, that one is there and its destination is neither on disk nor, *)
(* after the refresh, in the index; before it indexes, what it wrote is on *)
(* disk.                                                                   *)
Knows(h) ==
    LET r == hreq[h]
    IN  /\ Moving(h) => /\ r.kind = "rename" /\ text[r.dest] = Absent
                        /\ text[r.file] = held[h] /\ held[h] # Absent
        /\ hpc[h] \in {"snapshot", "move"} =>
              /\ todo[r.dest] = Never
              /\ r.dest \in Indexed => hpc[h] = "snapshot" /\ phase = "index" /\ r.dest \in gone
        /\ hpc[h] = "index" =>
              /\ r.kind \in {"edit", "create"} => text[r.file] = r.text /\ Parses(r.text)
              /\ r.kind \in {"delete", "rename"} => text[r.file] = Absent
              /\ r.kind = "rename" => text[r.dest] = held[h]

(* What a sync has noted and read: a text it read is that of the disk, if  *)
(* the mtime is still the one it noted before.                             *)
Noting ==
    /\ phase # "index" => \A f \in Files : todo[f] = Never
    /\ \A f \in Files : stamp[f] <= clock /\ mtime[f] <= clock /\ todo[f] <= clock
    /\ \A f \in Files : todo[f] # Never /\ backlog[f] # Absent =>
          Parses(backlog[f]) /\ (mtime[f] <= todo[f] => backlog[f] = text[f])

(* A row that a refresh will not look at again is that of its file.        *)
Current == \A f \in Skipped : Parses(text[f]) /\ fts[f] = text[f]

Fresh == OneHandler /\ (\A h \in Handlers : Knows(h)) /\ Noting /\ Current

LEMMA InitFresh == Init => Fresh
<1> SUFFICES ASSUME Init PROVE Fresh
  OBVIOUS
<1>1. Skipped = {}
  BY DEF Init, Skipped, Indexed
<1> QED
  BY <1>1 DEF Init, Fresh, OneHandler, Knows, Moving, InFlight, Noting, Current, Never

(* No handler awaits: nothing is to be known.                              *)
LEMMA QuietKnows ==
    ASSUME Quiet
    PROVE  OneHandler /\ \A h \in Handlers : Knows(h)
BY DEF Quiet, OneHandler, InFlight, Knows, Moving

LEMMA HandlersUntouched ==
    ASSUME Fresh, UNCHANGED <<hpc, hreq, held, text, todo, gone, stamp, phase>>
    PROVE  OneHandler' /\ \A h \in Handlers : Knows(h)'
BY DEF Fresh, OneHandler, InFlight, Knows, Moving, Indexed

LEMMA DataUntouched ==
    ASSUME Fresh, UNCHANGED <<clock, text, mtime, stamp, fts, phase, todo, backlog>>
    PROVE  Noting' /\ Current'
BY DEF Fresh, Noting, Current, Skipped, Present, Indexed

(* A sync that begins has noted no mtime but the present one, and read     *)
(* nothing; a destination that is not there it does not note.              *)
LEMMA BeginsNoting ==
    ASSUME TypeOK, Fresh, NEW scope, NEW walk, NEW boot, BeginSync(scope, walk, boot),
           UNCHANGED <<clock, text, mtime, stamp, fts>>
    PROVE  /\ Noting' /\ Current'
           /\ \A f \in Files : text[f] = Absent => todo'[f] = Never
<1>1. Noting'
  BY DEF TypeOK, Fresh, Noting, BeginSync, Noted, Never, Time
<1>2. Current'
  BY DEF Fresh, Current, Skipped, Present, Indexed
<1>3. \A f \in Files : text[f] = Absent => todo'[f] = Never
  BY DEF BeginSync, Present
<1> QED
  BY <1>1, <1>2, <1>3

LEMMA SearchFresh ==
    ASSUME ~Overlap, TypeOK, Fresh, NEW scope \in Folders \union Files, Search(scope)
    PROVE  Fresh'
<1>1. PICK walk \in BOOLEAN : BeginSync(Widened(scope), walk, FALSE)
  BY RefreshIsSync DEF Search
<1>2. Quiet'
  BY DEF Search, Quiet, InFlight, callVars
<1>3. OneHandler' /\ \A h \in Handlers : Knows(h)'
  BY <1>2 DEF Quiet, OneHandler, InFlight, Knows, Moving
<1> QED
  BY <1>1, <1>3, BeginsNoting DEF Search, Fresh, diskVars, indexVars

(* The startup sync may begin while handlers await, but not between a      *)
(* refresh for a move and the move.                                        *)
LEMMA BootFresh ==
    ASSUME TypeOK, Fresh, BootSync
    PROVE  Fresh'
<1> USE DEF diskVars, indexVars, callVars
<1>1. BeginSync(Root, TRUE, TRUE)
  BY DEF BootSync
<1>2. Noting' /\ Current' /\ \A f \in Files : text[f] = Absent => todo'[f] = Never
  BY <1>1, BeginsNoting DEF BootSync
<1>3. ASSUME NEW h \in Handlers PROVE Knows(h)'
  <2>1. hpc[h] # "snapshot" /\ Knows(h)
    BY DEF BootSync, Idle, HasTurn, Fresh
  <2>2. hreq[h].dest \in Files
    BY DEF TypeOK, Request
  <2> QED
    BY <1>2, <2>1, <2>2 DEF BootSync, Knows, Moving, Indexed
<1>4. OneHandler'
  BY DEF BootSync, Fresh, OneHandler, InFlight
<1> QED
  BY <1>2, <1>3, <1>4 DEF Fresh

LEMMA SyncFresh ==
    ASSUME TypeOK, Fresh, Sync
    PROVE  Fresh'
<1> USE DEF diskVars, indexVars, callVars
<1>0. \A h \in Handlers : Knows(h) /\ hreq[h].dest \in Files
  BY DEF Fresh, TypeOK, Request
<1>1. ASSUME NEW f \in Files, SyncRead(f) PROVE Fresh'
  <2>1. \A h \in Handlers : Knows(h)'
    BY <1>0, <1>1 DEF SyncRead, Knows, Moving, Indexed, TypeOK
  <2>2. OneHandler' /\ Current'
    BY <1>1 DEF SyncRead, Fresh, OneHandler, InFlight, Current, Skipped, Present, Indexed
  <2>3. Noting'
    BY <1>1 DEF SyncRead, Fresh, Noting, TypeOK, Never, Time
  <2> QED
    BY <2>1, <2>2, <2>3 DEF Fresh
<1>2. CASE SyncInsert
  <2> USE DEF SyncInsert, Inserts
  <2>1. ASSUME NEW h \in Handlers PROVE Knows(h)'
    <3>1. CASE todo[hreq[h].dest] = Never
      <4>1. stamp'[hreq[h].dest] = stamp[hreq[h].dest] /\ todo'[hreq[h].dest] = Never
        BY <1>0, <1>2, <3>1 DEF Prepared
      <4> QED
        BY <1>0, <1>2, <4>1 DEF Knows, Moving, Indexed
    <3>2. CASE todo[hreq[h].dest] # Never
      BY <1>0, <1>2, <3>2 DEF Knows, Moving
    <3> QED
      BY <3>1, <3>2
  <2>2. OneHandler'
    BY <1>2 DEF Fresh, OneHandler, InFlight
  <2>3. Noting'
    BY <1>2 DEF Fresh, Noting, TypeOK, Never, Time
  <2>4. ASSUME NEW f \in Skipped' PROVE Parses(text'[f]) /\ fts'[f] = text'[f]
    <3>1. f \in Files /\ text'[f] = text[f] /\ mtime'[f] = mtime[f] /\ text[f] # Absent
      BY <1>2 DEF Skipped, Present, Indexed
    <3>2. CASE f \in Prepared
      <4>1. stamp'[f] = todo[f] /\ fts'[f] = backlog[f] /\ stamp'[f] >= mtime'[f]
        BY <1>2, <3>1, <3>2 DEF Skipped
      <4>2. mtime[f] <= todo[f]
        BY <3>1, <4>1 DEF TypeOK, Time, Never
      <4> QED
        BY <3>1, <3>2, <4>1, <4>2 DEF Fresh, Noting, Prepared
    <3>3. CASE f \notin Prepared
      <4>1. stamp'[f] = stamp[f] /\ fts'[f] = fts[f]
        BY <1>2, <3>1, <3>3
      <4>2. f \in Skipped
        BY <3>1, <4>1 DEF Skipped, Present, Indexed
      <4> QED
        BY <3>1, <4>1, <4>2 DEF Fresh, Current
    <3> QED
      BY <3>2, <3>3
  <2> QED
    BY <2>1, <2>2, <2>3, <2>4 DEF Fresh, Current
<1>3. CASE SyncRemove
  <2> USE DEF SyncRemove
  <2>1. \A h \in Handlers : Knows(h)'
    BY <1>0, <1>3 DEF Knows, Moving, Indexed
  <2>2. OneHandler'
    BY <1>3 DEF Fresh, OneHandler, InFlight
  <2>3. Noting'
    BY <1>3 DEF Fresh, Noting, TypeOK, Never, Time
  <2>4. Current'
    BY <1>3 DEF Fresh, Current, Skipped, Present, Indexed, TypeOK
  <2> QED
    BY <2>1, <2>2, <2>3, <2>4 DEF Fresh
<1>4. CASE SyncLinks
  <2> USE DEF SyncLinks
  <2>1. \A h \in Handlers : Knows(h)'
    BY <1>0, <1>4 DEF Knows, Moving, Indexed
  <2>2. OneHandler'
    BY <1>4 DEF Fresh, OneHandler, InFlight
  <2>3. Noting'
    BY <1>4 DEF Fresh, Noting
  <2>4. Current'
    BY <1>4 DEF Fresh, Current, Skipped, Present, Indexed
  <2> QED
    BY <2>1, <2>2, <2>3, <2>4 DEF Fresh
<1>5. CASE SyncEnd
  <2> USE DEF SyncEnd, SyncForgets
  <2>1. \A h \in Handlers : Knows(h)'
    BY <1>0, <1>5 DEF Knows, Moving, Indexed
  <2>2. OneHandler'
    BY <1>5 DEF Fresh, OneHandler, InFlight
  <2>3. Noting'
    BY <1>5 DEF Fresh, Noting, TypeOK, Never, Time
  <2>4. Current'
    BY <1>5 DEF Fresh, Current, Skipped, Present, Indexed
  <2> QED
    BY <2>1, <2>2, <2>3, <2>4 DEF Fresh
<1> QED
  BY <1>1, <1>2, <1>3, <1>4, <1>5 DEF Sync

(* A write leaves an mtime that is above every stamp and every mtime noted.*)
LEMMA WritesFresh ==
    ASSUME TypeOK, Fresh, NEW f \in Files, NEW t, Writes(f, t),
           UNCHANGED <<stamp, fts, phase, todo, backlog>>
    PROVE  Noting' /\ Current'
<1>1. clock' = clock + 1 /\ clock \in Nat
      /\ text' = [text EXCEPT ![f] = t] /\ mtime' = [mtime EXCEPT ![f] = clock + 1]
  BY DEF Writes, Disk, TypeOK, Time
<1>2. Noting'
  BY <1>1 DEF Fresh, Noting, TypeOK, Time, Never
<1>3. ASSUME NEW g \in Skipped' PROVE Parses(text'[g]) /\ fts'[g] = text'[g]
  <2>1. g # f
    BY <1>1 DEF Skipped, Indexed, Fresh, Noting, TypeOK, Time, Never
  <2> QED
    BY <1>1, <2>1 DEF Skipped, Indexed, Present, Fresh, Current, TypeOK
<1> QED
  BY <1>2, <1>3 DEF Current

LEMMA OutsideFresh ==
    ASSUME ~Overlap, TypeOK, Fresh, NEW f \in Files, Outside(f)
    PROVE  Fresh'
<1> USE DEF indexVars, syncVars, callVars
<1>1. PICK t \in TextOrNot : Writes(f, t)
  BY DEF Outside
<1>2. Noting' /\ Current'
  BY <1>1, WritesFresh DEF Outside
<1>3. ASSUME NEW h \in Handlers, InFlight(h) PROVE Knows(h)'
  <2>1. hreq[h].file # f /\ hreq[h].dest # f
    BY <1>3 DEF Outside, Busy
  <2>2. text' = [text EXCEPT ![f] = t]
    BY <1>1 DEF Writes, Disk
  <2>3. text'[hreq[h].file] = text[hreq[h].file] /\ text'[hreq[h].dest] = text[hreq[h].dest]
    BY <2>1, <2>2 DEF TypeOK, Request
  <2> QED
    BY <2>3 DEF Outside, Fresh, Knows, Moving, Indexed
<1>4. \A h \in Handlers : Knows(h)'
  BY <1>3 DEF Outside, InFlight, Knows, Moving
<1>5. OneHandler'
  BY DEF Outside, Fresh, OneHandler, InFlight
<1> QED
  BY <1>2, <1>4, <1>5 DEF Fresh

(* The handler that is in flight alone: what it knows is all there is.     *)
LEMMA OnlyOne ==
    ASSUME Fresh, NEW h \in Handlers, InFlight(h) \/ Quiet,
           \A k \in Handlers \ {h} : hpc'[k] = hpc[k], Knows(h)'
    PROVE  OneHandler' /\ \A k \in Handlers : Knows(k)'
<1>1. \A k \in Handlers \ {h} : hpc'[k] = "idle"
  BY DEF Fresh, OneHandler, InFlight, Quiet
<1> QED
  BY <1>1 DEF OneHandler, InFlight, Knows, Moving

LEMMA Finished ==
    ASSUME TypeOK, NEW h \in Handlers, Finish(h)
    PROVE  Knows(h)' /\ \A k \in Handlers \ {h} : hpc'[k] = hpc[k]
BY DEF TypeOK, Finish, Knows, Moving

LEMMA Proceeded ==
    ASSUME TypeOK, NEW h \in Handlers, Proceed(h)
    PROVE  Knows(h)' /\ \A k \in Handlers \ {h} : hpc'[k] = hpc[k]
<1>1. CASE Finish(h)
  BY <1>1, Finished
<1>2. CASE ~Finish(h)
  BY <1>2 DEF TypeOK, Proceed, Knows, Moving
<1> QED
  BY <1>1, <1>2

LEMMA WriteFresh ==
    ASSUME Undisturbed, TypeOK, Fresh, NEW h \in Handlers, Write(h)
    PROVE  Fresh'
<1> USE DEF indexVars, syncVars
<1>1. PICK r \in Request :
         /\ Takes(h, r, "index")
         /\ \/ r.kind \in {"edit", "create"} /\ Parses(r.text) /\ Writes(r.file, r.text)
            \/ r.kind = "delete" /\ Writes(r.file, Absent)
  BY DEF Write, Undisturbed, Request
<1>2. r.file \in Files
  BY DEF Request
<1>3. Noting' /\ Current'
  BY <1>1, <1>2, WritesFresh DEF Write
<1>4. hpc' = [hpc EXCEPT ![h] = "index"] /\ hreq' = [hreq EXCEPT ![h] = r]
  BY <1>1 DEF Takes
<1>5. r.kind \in {"edit", "create"} => text'[r.file] = r.text /\ Parses(r.text)
  BY <1>1, <1>2 DEF Writes, Disk, TypeOK
<1>6. r.kind # "rename"
  BY <1>1
<1>d. r.kind = "delete" => text'[r.file] = Absent
  BY <1>1, <1>2 DEF Writes, Disk, TypeOK
<1>7. Knows(h)' /\ \A k \in Handlers \ {h} : hpc'[k] = hpc[k]
  BY <1>4, <1>5, <1>6, <1>d DEF Knows, Moving, TypeOK
<1>8. Quiet
  BY DEF Write, MayStart, Undisturbed
<1> QED
  BY <1>3, <1>7, <1>8, OnlyOne DEF Fresh

LEMMA BeginRenameFresh ==
    ASSUME ~Overlap, TypeOK, Fresh, NEW h \in Handlers, BeginRename(h)
    PROVE  Fresh'
<1> USE DEF diskVars, indexVars, syncVars
<1>1. PICK r \in Request : /\ r.kind = "rename" /\ text[r.file] = r.text /\ text[r.dest] = Absent
                           /\ Takes(h, r, "rename")
  BY DEF BeginRename
<1>2. r.text # Absent
  BY TextAssumption DEF Request
<1>3. hpc' = [hpc EXCEPT ![h] = "rename"] /\ hreq' = [hreq EXCEPT ![h] = r]
      /\ held' = [held EXCEPT ![h] = text[r.file]] /\ text' = text
  BY <1>1 DEF Takes, BeginRename
<1>4. Knows(h)' /\ \A k \in Handlers \ {h} : hpc'[k] = hpc[k]
  BY <1>1, <1>2, <1>3 DEF Knows, Moving, TypeOK
<1>5. Quiet
  BY DEF BeginRename, MayStart
<1>6. Noting' /\ Current'
  BY DataUntouched DEF BeginRename
<1> QED
  BY <1>4, <1>5, <1>6, OnlyOne DEF Fresh

(* The refresh of the whole index drops the row that the destination may   *)
(* have been left.                                                         *)
LEMMA RefreshLinksFresh ==
    ASSUME TypeOK, Fresh, NEW h \in Handlers, RefreshLinks(h)
    PROVE  Fresh'
<1> USE DEF diskVars, indexVars
<1>1. PICK walk \in BOOLEAN : BeginSync(Root, walk, FALSE)
  BY FolderAssumption DEF RefreshLinks, BeginRefresh
<1>2. Noting' /\ Current' /\ \A f \in Files : text[f] = Absent => todo'[f] = Never
  BY <1>1, BeginsNoting DEF RefreshLinks
<1>3. hreq[h].dest \in Files /\ text[hreq[h].dest] = Absent /\ Moving(h) /\ Knows(h)
  BY DEF RefreshLinks, Fresh, Knows, Moving, TypeOK, Request
<1>4. hreq[h].dest \in Indexed => hreq[h].dest \in gone'
  BY <1>1, <1>3, FolderAssumption DEF BeginSync, FilesIn, Present, Indexed
<1>5. hpc' = [hpc EXCEPT ![h] = "snapshot"] /\ UNCHANGED <<text, stamp, hreq, held>> /\ phase' = "index"
  BY <1>1 DEF RefreshLinks, BeginSync
<1>6. Knows(h)' /\ \A k \in Handlers \ {h} : hpc'[k] = hpc[k]
  BY <1>2, <1>3, <1>4, <1>5 DEF Knows, Moving, TypeOK, Indexed
<1>7. InFlight(h)
  BY DEF RefreshLinks, InFlight
<1> QED
  BY <1>2, <1>6, <1>7, OnlyOne DEF Fresh

LEMMA SnapshotLinksFresh ==
    ASSUME TypeOK, Fresh, NEW h \in Handlers, SnapshotLinks(h)
    PROVE  Fresh'
<1> USE DEF diskVars, indexVars, syncVars
<1>1. Noting' /\ Current'
  BY DataUntouched DEF SnapshotLinks
<1>2. Knows(h)' /\ \A k \in Handlers \ {h} : hpc'[k] = hpc[k]
  BY DEF SnapshotLinks, Fresh, Knows, Moving, TypeOK, Indexed
<1>3. InFlight(h)
  BY DEF SnapshotLinks, InFlight
<1> QED
  BY <1>1, <1>2, <1>3, OnlyOne DEF Fresh

(* A file that moves keeps its mtime, so its destination must have no row. *)
LEMMA MoveFileFresh ==
    ASSUME TypeOK, Fresh, NEW h \in Handlers, MoveFile(h)
    PROVE  Fresh'
<1> USE DEF indexVars, syncVars
<1> DEFINE r == hreq[h]
<1>1. r.file \in Files /\ r.dest \in Files /\ InFlight(h) /\ phase = "none"
  BY DEF TypeOK, Request, MoveFile, InFlight
<1>2. text[r.file] = held[h] /\ held[h] # Absent /\ text[r.dest] = Absent /\ r.dest \notin Indexed
  BY <1>1 DEF MoveFile, Fresh, Knows, Moving
<1>3. Moves(r.file, r.dest) /\ hpc' = [hpc EXCEPT ![h] = "index"] /\ UNCHANGED <<hreq, held>>
  BY <1>2 DEF MoveFile
<1>4. text' = [text EXCEPT ![r.dest] = text[r.file], ![r.file] = Absent]
      /\ mtime' = [mtime EXCEPT ![r.dest] = mtime[r.file]] /\ clock' = clock
  BY <1>3 DEF Moves, Disk
<1>5. Noting'
  BY <1>1, <1>4 DEF MoveFile, Fresh, Noting, TypeOK
<1>6. UNCHANGED <<stamp, fts>>
  BY DEF MoveFile
<1>7. Current'
  <2> SUFFICES ASSUME NEW g \in Skipped' PROVE Parses(text'[g]) /\ fts'[g] = text'[g]
    BY DEF Current
  <2>1. g # r.dest /\ g # r.file
    BY <1>1, <1>2, <1>4, <1>6 DEF Skipped, Indexed, Present, TypeOK
  <2> QED
    BY <1>1, <1>4, <1>6, <2>1 DEF Skipped, Indexed, Present, TypeOK, Fresh, Current
<1>8. Knows(h)'
  <2>1. hpc'[h] = "index" /\ hreq'[h] = r /\ held'[h] = held[h]
    BY <1>3 DEF TypeOK
  <2>2. text'[r.dest] = held[h] /\ text'[r.file] = Absent
    BY <1>1, <1>2, <1>4 DEF TypeOK
  <2>3. r.kind = "rename"
    BY DEF MoveFile, Fresh, Knows, Moving
  <2> QED
    BY <2>1, <2>2, <2>3 DEF Knows, Moving
<1>9. \A k \in Handlers \ {h} : hpc'[k] = hpc[k]
  BY <1>3 DEF TypeOK
<1> QED
  BY <1>1, <1>5, <1>7, <1>8, <1>9, OnlyOne DEF Fresh

(* indexDocument and removeFromIndex: the row of a file becomes that of    *)
(* the disk, or goes.                                                      *)
LEMMA RowsFresh ==
    ASSUME TypeOK, Fresh, UNCHANGED <<clock, text, mtime, phase, todo, backlog>>,
           stamp' \in [Files -> Time \union {Never}],
           \A f \in Files : \/ stamp'[f] = stamp[f] /\ fts'[f] = fts[f]
                            \/ stamp'[f] = Never
                            \/ stamp'[f] = clock /\ fts'[f] = text[f] /\ Parses(text[f])
    PROVE  Noting' /\ Current'
<1>1. Noting'
  BY DEF Fresh, Noting, TypeOK, Time, Never
<1>2. ASSUME NEW f \in Skipped' PROVE Parses(text'[f]) /\ fts'[f] = text'[f]
  <2>1. stamp'[f] # Never
    BY DEF Skipped, Indexed
  <2>2. CASE stamp'[f] = stamp[f] /\ fts'[f] = fts[f]
    BY <2>2 DEF Skipped, Present, Indexed, Fresh, Current
  <2>3. CASE ~(stamp'[f] = stamp[f] /\ fts'[f] = fts[f])
    BY <2>1, <2>3 DEF Skipped, Present, Indexed
  <2> QED
    BY <2>2, <2>3
<1> QED
  BY <1>1, <1>2 DEF Current

LEMMA IndexWriteFresh ==
    ASSUME Undisturbed, TypeOK, TypeOK', Fresh, NEW h \in Handlers, IndexWrite(h)
    PROVE  Fresh'
<1> USE DEF diskVars, syncVars
<1> DEFINE r == hreq[h]
<1>1. r.file \in Files /\ r.dest \in Files /\ InFlight(h) /\ Knows(h)
  BY DEF TypeOK, Request, IndexWrite, InFlight, Fresh
<1>2. r.kind \in {"edit", "create"} => text[r.file] = r.text /\ Parses(r.text)
  BY <1>1 DEF IndexWrite, Knows
<1>3. r.kind = "rename" => text[r.dest] = held[h]
  BY <1>1 DEF IndexWrite, Knows
<1>4. \A f \in Files : \/ stamp'[f] = stamp[f] /\ fts'[f] = fts[f]
                       \/ stamp'[f] = Never
                       \/ stamp'[f] = clock /\ fts'[f] = text[f] /\ Parses(text[f])
  <2>1. CASE r.kind \in {"edit", "create"}
    <3>1. Indexes(r.file, r.text, links)
      BY <2>1 DEF IndexWrite
    <3> QED
      BY <1>1, <1>2, <2>1, <3>1 DEF Indexes, TypeOK
  <2>2. CASE Unindexes(r.file)
    BY <2>2, <1>1 DEF Unindexes, TypeOK
  <2>3. CASE r.kind = "rename" /\ Parses(held[h]) /\ Renames(h)
    BY <2>3, <1>1, <1>3 DEF Renames, TypeOK
  <2> QED
    BY <2>1, <2>2, <2>3 DEF IndexWrite
<1>5. Noting' /\ Current'
  BY <1>4, RowsFresh DEF IndexWrite, TypeOK
<1>6. Knows(h)' /\ \A k \in Handlers \ {h} : hpc'[k] = hpc[k]
  <2>1. CASE Proceed(h)
    BY <2>1, Proceeded
  <2>2. CASE ~Proceed(h)
    BY <2>2 DEF IndexWrite, TypeOK, Knows, Moving
  <2> QED
    BY <2>1, <2>2
<1> QED
  BY <1>1, <1>5, <1>6, OnlyOne DEF Fresh

LEMMA WarnLinksFresh ==
    ASSUME TypeOK, Fresh, NEW h \in Handlers, WarnLinks(h)
    PROVE  Fresh'
<1> USE DEF diskVars, indexVars, syncVars
<1>1. Noting' /\ Current'
  <2>1. CASE BeginRefresh(Root)
    <3>1. PICK walk \in BOOLEAN : BeginSync(Root, walk, FALSE)
      BY <2>1, FolderAssumption DEF BeginRefresh
    <3> QED
      BY <3>1, BeginsNoting DEF WarnLinks
  <2>2. CASE UNCHANGED syncVars
    BY <2>2, DataUntouched DEF WarnLinks
  <2> QED
    BY <2>1, <2>2 DEF WarnLinks
<1>2. Proceed(h) /\ InFlight(h)
  BY DEF WarnLinks, InFlight
<1> QED
  BY <1>1, <1>2, Proceeded, OnlyOne DEF Fresh

LEMMA GitFailsFresh ==
    ASSUME TypeOK, Fresh, NEW h \in Handlers, GitFails(h)
    PROVE  Fresh'
<1> USE DEF diskVars, indexVars, syncVars
<1>1. Noting' /\ Current'
  BY DataUntouched DEF GitFails
<1>2. Finish(h) /\ InFlight(h)
  BY DEF GitFails, InFlight
<1> QED
  BY <1>1, <1>2, Finished, OnlyOne DEF Fresh

(* What git restores has an mtime above every stamp.                       *)
LEMMA RestoreFilesFresh ==
    ASSUME TypeOK, Fresh, NEW h \in Handlers, RestoreFiles(h)
    PROVE  Fresh'
<1> USE DEF indexVars, syncVars
<1> DEFINE f == hreq[h].file
           g == hreq[h].dest
<1>1. /\ clock' = clock + 1 /\ clock \in Nat
      /\ text' = [x \in Files |-> IF x = f THEN held[h] ELSE IF x = g THEN Absent ELSE text[x]]
      /\ mtime' = [x \in Files |-> IF x \in {f, g} THEN clock + 1 ELSE mtime[x]]
      /\ UNCHANGED <<stamp, fts, phase, todo, backlog>>
  BY DEF RestoreFiles, Disk, TypeOK, Time
<1>2. Noting'
  BY <1>1 DEF Fresh, Noting, TypeOK, Time, Never
<1>3. ASSUME NEW x \in Skipped' PROVE Parses(text'[x]) /\ fts'[x] = text'[x]
  <2>1. x \notin {f, g}
    BY <1>1 DEF Skipped, Indexed, Fresh, Noting, TypeOK, Time, Never
  <2> QED
    BY <1>1, <2>1 DEF Skipped, Indexed, Present, Fresh, Current
<1>4. Finish(h) /\ InFlight(h)
  BY DEF RestoreFiles, InFlight
<1> QED
  BY <1>2, <1>3, <1>4, Finished, OnlyOne DEF Fresh, Current

LEMMA CrashFresh ==
    ASSUME TypeOK, Fresh, Crash
    PROVE  Fresh'
<1> USE DEF diskVars, indexVars
<1>1. OneHandler' /\ \A h \in Handlers : Knows(h)'
  BY DEF Crash, OneHandler, InFlight, Knows, Moving
<1>2. Noting'
  BY DEF Crash, SyncForgets, Fresh, Noting, TypeOK, Never, Time
<1>3. Current'
  BY DEF Crash, Fresh, Current, Skipped, Present, Indexed
<1> QED
  BY <1>1, <1>2, <1>3 DEF Fresh

LEMMA TickFresh ==
    ASSUME TypeOK, Fresh, Tick
    PROVE  Fresh'
<1> USE DEF diskVars, indexVars, syncVars, callVars
<1>1. OneHandler' /\ \A h \in Handlers : Knows(h)'
  BY HandlersUntouched DEF Tick
<1>2. Noting'
  BY DEF Tick, Fresh, Noting, TypeOK, Never, Time
<1>3. Current'
  BY DEF Tick, Fresh, Current, Skipped, Present, Indexed
<1> QED
  BY <1>1, <1>2, <1>3 DEF Fresh

LEMMA NextFresh ==
    ASSUME Undisturbed, TypeOK, TypeOK', Fresh, [Next]_vars
    PROVE  Fresh'
<1> USE DEF Undisturbed
<1>1. CASE EmbedStart
  BY <1>1, HandlersUntouched, DataUntouched DEF EmbedStart, Fresh, diskVars, syncVars, callVars
<1>2. ASSUME NEW f \in Files, EmbedAnswer(f) PROVE Fresh'
  BY <1>2, HandlersUntouched, DataUntouched DEF EmbedAnswer, Fresh, diskVars, syncVars, callVars
<1>3. CASE UNCHANGED vars
  BY <1>3, HandlersUntouched, DataUntouched
     DEF vars, Fresh, diskVars, indexVars, syncVars, callVars
<1>4. ASSUME NEW h \in Handlers, Handle(h) PROVE Fresh'
  BY <1>4, WriteFresh, BeginRenameFresh, RefreshLinksFresh, SnapshotLinksFresh, MoveFileFresh,
     IndexWriteFresh, WarnLinksFresh, GitFailsFresh, RestoreFilesFresh DEF Handle
<1> QED
  BY <1>1, <1>2, <1>3, <1>4, SearchFresh, BootFresh, SyncFresh, OutsideFresh, CrashFresh, TickFresh
     DEF Next

(* The types and what is known of rows, files and handlers.                *)
FreshInv == LinkInv /\ TypeOK /\ Fresh

LEMMA FreshInvariant ==
    ASSUME Undisturbed
    PROVE  Spec => []FreshInv
<1>1. Init => FreshInv
  BY InitLinks, InitTyped, InitFresh DEF FreshInv
<1>2. FreshInv /\ [Next]_vars => FreshInv'
  BY NextKeepsTypes, NextFresh DEF FreshInv
<1> QED
  BY <1>1, <1>2, PTL DEF Spec

(* With one writer at a time, whatever other programs write, wherever the  *)
(* process dies: a file whose row is not older than its mtime is indexed   *)
(* as it is, so that a refresh may pass it over (freshness.ts:14-17).      *)
THEOREM SkippedStayCurrent ==
    ASSUME Undisturbed
    PROVE  Spec => []SkippedIsCurrent
<1>1. FreshInv => SkippedIsCurrent
  BY DEF FreshInv, Fresh, Current, SkippedIsCurrent
<1> QED
  BY <1>1, FreshInvariant, PTL

---------------------------------------------------------------------------
(* WHAT A SEARCH ANSWERS FROM                                              *)

(* A file that was not changed since the refresh began is, once the files  *)
(* noted have their rows, indexed as it is; until then it is noted.        *)
Sees ==
    /\ job.at <= clock
    /\ phase # "none" =>
        /\ \A f \in Files : todo[f] # Never => mtime[f] = todo[f] \/ mtime[f] > job.at
        /\ \A f \in FilesIn(job.scope) \intersect Indexed :
              mtime[f] <= job.at /\ text[f] \notin Broken =>
                 /\ phase # "index" => fts[f] = text[f]
                 /\ text[f] = Absent => fts[f] = text[f] \/ f \in gone
                 /\ text[f] # Absent => fts[f] = text[f] \/ todo[f] = mtime[f]

LEMMA BeginsSees ==
    ASSUME TypeOK, Fresh, NEW scope, NEW walk, NEW boot, BeginSync(scope, walk, boot),
           UNCHANGED <<clock, text, mtime, stamp, fts>>
    PROVE  Sees'
<1>1. job'.at = clock /\ job'.scope = scope /\ phase' = "index"
  BY DEF BeginSync
<1>2. \A f \in Files : todo'[f] # Never => mtime'[f] = todo'[f]
  BY DEF BeginSync, Noted
<1>3. ASSUME NEW f \in FilesIn(scope) \intersect Indexed, text[f] \notin Broken
      PROVE  /\ text[f] = Absent => f \in gone'
             /\ text[f] # Absent => fts[f] = text[f] \/ todo'[f] = mtime[f]
  <2>1. CASE text[f] = Absent
    BY <1>3, <2>1 DEF BeginSync, Present
  <2>2. CASE text[f] # Absent /\ Newer(f)
    BY <1>3, <2>2 DEF BeginSync, Present, Noted, Indexed
  <2>3. CASE text[f] # Absent /\ ~Newer(f)
    <3>1. f \in Skipped
      BY <1>3, <2>3 DEF Newer, Skipped, Present, Indexed, TypeOK, Time, Never
    <3> QED
      BY <2>3, <3>1 DEF Fresh, Current
  <2> QED
    BY <2>1, <2>2, <2>3
<1>4. clock \in Int
  BY DEF TypeOK, Time
<1> QED
  BY <1>1, <1>2, <1>3, <1>4 DEF Sees, Indexed

LEMMA SyncSees ==
    ASSUME TypeOK, Fresh, Sees, Sync
    PROVE  Sees'
<1> USE DEF diskVars, indexVars
<1>1. ASSUME NEW f \in Files, SyncRead(f) PROVE Sees'
  <2>1. CASE Parses(text[f])
    BY <1>1, <2>1 DEF SyncRead, Sees, Indexed
  <2>2. CASE ~Parses(text[f])
    <3>1. todo' = [todo EXCEPT ![f] = Never] /\ (text[f] \in Broken \/ text[f] = Absent)
      BY <1>1, <2>2 DEF SyncRead, Parses, TypeOK, TextOrNot
    <3> QED
      BY <1>1, <3>1 DEF SyncRead, Sees, Indexed, TypeOK
  <2> QED
    BY <2>1, <2>2
<1>2. CASE SyncInsert
  <2> USE DEF SyncInsert, Inserts
  <2>1. \A f \in Files : todo'[f] # Never => todo'[f] = todo[f]
    BY <1>2
  <2>2. ASSUME NEW f \in FilesIn(job.scope) \intersect Indexed',
               mtime[f] <= job.at, text[f] \notin Broken
        PROVE  /\ text[f] = Absent => fts'[f] = text[f] \/ f \in gone
               /\ text[f] # Absent => fts'[f] = text[f] \/ todo'[f] = mtime[f]
    <3>1. f \in Files
      BY DEF Indexed
    <3>2. CASE f \in Prepared
      <4>1. fts'[f] = backlog[f] /\ todo[f] # Never /\ backlog[f] # Absent
        BY <1>2, <3>1, <3>2 DEF Prepared
      <4>2. mtime[f] = todo[f]
        BY <1>2, <2>2, <3>1, <4>1 DEF Sees, TypeOK, Time, Job
      <4>3. backlog[f] = text[f]
        BY <3>1, <4>1, <4>2 DEF Fresh, Noting, TypeOK, Time
      <4> QED
        BY <4>1, <4>3
    <3>3. CASE f \notin Prepared
      <4>1. fts'[f] = fts[f] /\ todo'[f] = todo[f] /\ f \in Indexed
        BY <1>2, <3>1, <3>3 DEF Indexed
      <4> QED
        BY <1>2, <2>2, <4>1 DEF Sees
    <3> QED
      BY <3>2, <3>3
  <2> QED
    BY <1>2, <2>1, <2>2 DEF Sees
<1>3. CASE SyncRemove
  <2> USE DEF SyncRemove
  <2>1. ASSUME NEW f \in FilesIn(job.scope) \intersect Indexed',
               mtime[f] <= job.at, text[f] \notin Broken
        PROVE  fts'[f] = text[f]
    <3>1. f \in Files /\ f \notin gone /\ f \in Indexed /\ fts'[f] = fts[f]
      BY <1>3 DEF Indexed
    <3>2. todo[f] # mtime[f]
      BY <1>3, <3>1 DEF TypeOK, Time, Never
    <3> QED
      BY <1>3, <2>1, <3>1, <3>2 DEF Sees
  <2> QED
    BY <1>3, <2>1 DEF Sees
<1>4. CASE SyncLinks
  BY <1>4 DEF SyncLinks, Sees, Indexed
<1>5. CASE SyncEnd
  BY <1>5 DEF SyncEnd, SyncForgets, NoJob, Sees, TypeOK, Time
<1> QED
  BY <1>1, <1>2, <1>3, <1>4, <1>5 DEF Sync

LEMMA OutsideSees ==
    ASSUME TypeOK, Sees, NEW f \in Files, Outside(f)
    PROVE  Sees'
<1> USE DEF indexVars, syncVars
<1>1. PICK t \in TextOrNot : Writes(f, t)
  BY DEF Outside
<1>2. clock' = clock + 1 /\ clock \in Nat /\ job.at \in Nat
      /\ text' = [text EXCEPT ![f] = t] /\ mtime' = [mtime EXCEPT ![f] = clock + 1]
  BY <1>1 DEF Writes, Disk, TypeOK, Time, Job
<1>3. job.at <= clock' /\ mtime'[f] > job.at
      /\ \A g \in Files \ {f} : mtime'[g] = mtime[g] /\ text'[g] = text[g]
  BY <1>2 DEF TypeOK, Sees
<1>4. ~(mtime'[f] <= job.at)
  BY <1>2 DEF TypeOK, Sees
<1>5. UNCHANGED <<job, phase, todo, fts, stamp, gone>>
  BY DEF Outside
<1>6. ASSUME phase # "none", NEW g \in Files, todo[g] # Never
      PROVE  mtime'[g] = todo[g] \/ mtime'[g] > job.at
  BY <1>3, <1>6 DEF Sees
<1>7. ASSUME phase # "none", NEW g \in FilesIn(job.scope) \intersect Indexed,
             mtime'[g] <= job.at, text'[g] \notin Broken
      PROVE  /\ phase # "index" => fts[g] = text'[g]
             /\ text'[g] = Absent => fts[g] = text'[g] \/ g \in gone
             /\ text'[g] # Absent => fts[g] = text'[g] \/ todo[g] = mtime'[g]
  <2>1. g \in Files \ {f}
    BY <1>4, <1>7 DEF Indexed
  <2>2. mtime'[g] = mtime[g] /\ text'[g] = text[g]
    BY <1>3, <2>1
  <2> QED
    BY <1>7, <2>2 DEF Sees
<1> QED
  BY <1>3, <1>5, <1>6, <1>7 DEF Sees, Indexed

(* Between two syncs there is nothing to see.                              *)
LEMMA HandleSees ==
    ASSUME TypeOK, Fresh, Sees, NEW h \in Handlers, Handle(h)
    PROVE  Sees'
<1> USE DEF diskVars, indexVars, syncVars
<1>1. CASE BeginRefresh(Root) /\ UNCHANGED <<clock, text, mtime, stamp, fts>>
  <2>1. PICK walk \in BOOLEAN : BeginSync(Root, walk, FALSE)
    BY <1>1, FolderAssumption DEF BeginRefresh
  <2> QED
    BY <1>1, <2>1, BeginsSees
<1>2. CASE UNCHANGED syncVars /\ phase = "none" /\ clock' \in {clock, clock + 1}
  BY <1>2 DEF Sees, TypeOK, Time, Job
<1>3. clock' \in {clock, clock + 1}
  BY DEF Handle, Write, BeginRename, RefreshLinks, SnapshotLinks, MoveFile, IndexWrite, WarnLinks,
         GitFails, RestoreFiles, Writes, Moves
<1> QED
  BY <1>1, <1>2, <1>3 DEF Handle, Write, BeginRename, RefreshLinks, SnapshotLinks, MoveFile,
     IndexWrite, WarnLinks, GitFails, RestoreFiles, MayStart, Ready, Idle

LEMMA NextSees ==
    ASSUME TypeOK, Fresh, Sees, [Next]_vars
    PROVE  Sees'
<1> USE DEF diskVars, indexVars, syncVars
<1>1. ASSUME NEW scope \in Folders \union Files, Search(scope) PROVE Sees'
  <2>1. PICK walk \in BOOLEAN : BeginSync(Widened(scope), walk, FALSE)
    BY <1>1, RefreshIsSync DEF Search
  <2> QED
    BY <1>1, <2>1, BeginsSees DEF Search
<1>2. CASE BootSync
  BY <1>2, BeginsSees DEF BootSync
<1>3. CASE EmbedStart
  BY <1>3 DEF EmbedStart, Sees, Indexed
<1>4. ASSUME NEW f \in Files, EmbedAnswer(f) PROVE Sees'
  BY <1>4 DEF EmbedAnswer, Sees, Indexed
<1>5. CASE Tick
  BY <1>5 DEF Tick, Sees, Indexed, TypeOK, Time, Job
<1>6. CASE Crash
  BY <1>6 DEF Crash, SyncForgets, NoJob, Sees, TypeOK, Time
<1>7. CASE UNCHANGED vars
  BY <1>7 DEF vars, Sees, Indexed
<1> QED
  BY <1>1, <1>2, <1>3, <1>4, <1>5, <1>6, <1>7, SyncSees, OutsideSees, HandleSees DEF Next

LEMMA InitSees == Init => Sees
BY DEF Init, Sees, NoJob

(* The end of a refresh leaves the rows of the full text alone.            *)
LEMMA RefreshedRows ==
    ASSUME Next, Refreshed
    PROVE  UNCHANGED <<fts, stamp>>
BY DEF Refreshed, Next, Search, BootSync, Sync, SyncRead, SyncInsert, Inserts, SyncRemove, SyncLinks,
       SyncEnd, Handle, Write, BeginRename, RefreshLinks, SnapshotLinks, MoveFile, IndexWrite,
       WarnLinks, GitFails, RestoreFiles, MayStart, Ready, Idle, EmbedStart, EmbedAnswer, Outside,
       Tick, Crash, indexVars, syncVars

(* A search never answers from a text that is not on disk any more, unless *)
(* the file was changed while the refresh ran (freshness.ts:11-12).        *)
THEOREM SearchesSeeDisk ==
    ASSUME Undisturbed
    PROVE  Spec => SearchSeesDisk
<1> DEFINE Seen == Refreshed => \A f \in FilesIn(job.scope) :
                      /\ f \in Indexed' /\ ~Busy(f) /\ text[f] \notin Broken /\ mtime[f] <= job.at
                      => fts'[f] = text[f]
<1>1. Sees /\ [Next]_vars => [Seen]_vars
  <2> SUFFICES ASSUME Sees, Next PROVE Seen
    BY Zenon
  <2>1. ASSUME Refreshed, NEW f \in FilesIn(job.scope), f \in Indexed', text[f] \notin Broken,
               mtime[f] <= job.at
        PROVE  fts'[f] = text[f]
    <3>1. UNCHANGED <<fts, stamp>>
      BY <2>1, RefreshedRows
    <3> QED
      BY <2>1, <3>1 DEF Refreshed, Sees, Indexed
  <2> QED
    BY <2>1
<1>2. FreshInv /\ Sees /\ [Next]_vars => Sees'
  BY NextSees DEF FreshInv
<1>3. SearchSeesDisk <=> [][Seen]_vars
  BY DEF SearchSeesDisk
<1> HIDE DEF Seen
<1> QED
  BY <1>1, <1>2, <1>3, InitSees, FreshInvariant, PTL DEF Spec

---------------------------------------------------------------------------
(* WHAT THE THROTTLE HIDES                                                 *)

(* A file that parses, and did so before time t.                           *)
Long(f, t) == Parses(text[f]) /\ since[f] # Never /\ since[f] < t

(* Files as old as this a sync that walks is bound to find.                *)
Limit == IF job.boot THEN clock + 1 ELSE job.at + 1

(* A folder is marked as walked at a time when every file below it that    *)
(* had been there for long was indexed, and such a file loses its row only *)
(* with its text.  A sync that does not walk relies on a recent walk.      *)
Walks ==
    /\ \A f \in Files : since[f] <= clock
    /\ \A d \in Folders : walked[d] <= clock /\ (phase # "none" => walked[d] <= job.at)
    /\ \A d \in Folders : \A f \in Within[d] : Long(f, walked[d]) => f \in Indexed
    /\ job.at <= clock
    /\ phase # "none" =>
        /\ job.boot => job.walk
        /\ job.walk => \A f \in FilesIn(job.scope) : Long(f, Limit) => f \in Indexed \/ todo[f] # Never
        /\ \A f \in gone : ~Long(f, Limit)
        /\ ~job.walk => /\ job.scope \in Folders
                        /\ \E d \in Above[job.scope] : walked[d] # Never /\ job.at - walked[d] < Interval

(* Walks, in the parts that do not and that do depend on a sync.           *)
Walked ==
    /\ \A f \in Files : since[f] <= clock
    /\ \A d \in Folders : walked[d] <= clock
    /\ \A d \in Folders : \A f \in Within[d] : Long(f, walked[d]) => f \in Indexed

LEMMA NoSync ==
    ASSUME Walked, job.at <= clock, phase = "none"
    PROVE  Walks
BY DEF Walked, Walks

LEMMA BeginsWalks ==
    ASSUME TypeOK, Walks, NEW scope \in Folders \union Files, NEW walk \in BOOLEAN, NEW boot \in BOOLEAN,
           BeginSync(scope, walk, boot), boot => walk,
           ~walk => scope \in Folders /\ WalkedRecently(scope),
           UNCHANGED <<clock, text, since, stamp, walked>>
    PROVE  Walks'
<1>1. job' = [scope |-> scope, walk |-> walk, boot |-> boot, at |-> clock] /\ phase' = "index"
  BY DEF BeginSync
<1>2. job'.scope = scope /\ job'.walk = walk /\ job'.boot = boot /\ job'.at = clock
  BY <1>1
<1>3. ASSUME NEW f \in Files, Parses(text[f])
      PROVE  /\ f \notin gone'
             /\ walk /\ f \in FilesIn(scope) => f \in Indexed \/ todo'[f] # Never
  <2>1. text[f] # Absent
    BY <1>3, TextAssumption DEF Parses
  <2>2. f \notin gone'
    BY <2>1 DEF BeginSync, Present
  <2>3. CASE Newer(f)
    BY <2>1, <2>2, <2>3 DEF BeginSync, Present, Noted, TypeOK, Time, Never
  <2>4. CASE ~Newer(f)
    BY <2>2, <2>4 DEF Newer, Indexed
  <2> QED
    BY <2>2, <2>3, <2>4
<1>4. FilesIn(scope) \subseteq Files /\ gone' \subseteq Files
  BY FolderAssumption DEF FilesIn, BeginSync, Indexed
<1>5. walk => \A f \in FilesIn(scope) : Long(f, Limit)' => f \in Indexed' \/ todo'[f] # Never
  BY <1>3, <1>4 DEF Long, Indexed
<1>6. \A f \in gone' : ~Long(f, Limit)'
  BY <1>3, <1>4 DEF Long
<1>7. \A d \in Folders : \A f \in Within[d] : Long(f, walked[d])' => f \in Indexed'
  BY DEF Walks, Long, Indexed
<1>8. ~walk => /\ scope \in Folders
               /\ \E d \in Above[scope] : walked[d] # Never /\ clock - walked[d] < Interval
  BY DEF WalkedRecently
<1>9. clock \in Int /\ \A d \in Folders : walked[d] <= clock
  BY DEF TypeOK, Time, Walks
<1>10. \A f \in Files : since'[f] <= clock'
  BY DEF Walks
<1> QED
  BY <1>1, <1>2, <1>5, <1>6, <1>7, <1>8, <1>9, <1>10 DEF Walks

LEMMA SyncWalks ==
    ASSUME TypeOK, Fresh, Walks, Sync
    PROVE  Walks'
<1> USE DEF diskVars, indexVars
<1>1. ASSUME NEW f \in Files, SyncRead(f) PROVE Walks'
  <2>1. UNCHANGED <<clock, text, since, stamp, walked, phase, job, gone>>
    BY <1>1 DEF SyncRead
  <2>2. \A g \in Files : Parses(text[g]) /\ todo[g] # Never => todo'[g] # Never
    BY <1>1 DEF SyncRead, TypeOK
  <2>3. FilesIn(job.scope) \subseteq Files
    BY FolderAssumption DEF FilesIn, TypeOK, Job
  <2> QED
    BY <2>1, <2>2, <2>3 DEF Walks, Long, Limit, Indexed
<1>2. CASE SyncInsert
  <2>1. UNCHANGED <<clock, text, since, walked, phase, job, gone>>
    BY <1>2 DEF SyncInsert, Inserts
  <2>2. \A g \in Files : /\ g \in Indexed => g \in Indexed'
                         /\ todo[g] # Never => todo'[g] # Never \/ g \in Indexed'
    BY <1>2 DEF SyncInsert, Inserts, Prepared, Indexed
  <2>3. FilesIn(job.scope) \subseteq Files /\ \A d \in Folders : Within[d] \subseteq Files
    BY FolderAssumption DEF FilesIn, TypeOK, Job
  <2> QED
    BY <2>1, <2>2, <2>3 DEF Walks, Long, Limit
<1>3. CASE SyncRemove
  <2>1. UNCHANGED <<clock, text, since, walked, job, gone, todo>>
    BY <1>3 DEF SyncRemove
  <2>2. phase = "index" /\ phase' = "links" /\ \A g \in Files : todo[g] = Never
    BY <1>3 DEF SyncRemove
  <2>3. \A g \in Indexed \ gone : g \in Indexed'
    BY <1>3 DEF SyncRemove, Indexed
  <2>4. \A d \in Folders : walked[d] < Limit
    BY <2>2 DEF Walks, Limit, TypeOK, Time, Job, Never
  <2>5. ASSUME NEW d \in Folders, NEW f \in Within[d], Long(f, walked[d])
        PROVE  f \in Indexed'
    <3>1. f \in Files /\ f \in Indexed
      BY <2>5, FolderAssumption DEF Walks
    <3>2. Long(f, Limit)
      BY <2>4, <2>5, <3>1 DEF Long, Limit, TypeOK, Time, Job, Never
    <3> QED
      BY <2>2, <2>3, <3>1, <3>2 DEF Walks
  <2>6. FilesIn(job.scope) \subseteq Files
    BY FolderAssumption DEF FilesIn, TypeOK, Job
  <2>7. job.walk => \A f \in FilesIn(job.scope) : Long(f, Limit) => f \in Indexed'
    BY <2>2, <2>3, <2>6 DEF Walks
  <2> QED
    BY <2>1, <2>2, <2>5, <2>7 DEF Walks, Long, Limit
<1>4. CASE SyncLinks
  BY <1>4 DEF SyncLinks, Walks, Long, Limit, Indexed
<1>5. CASE SyncEnd
  <2>1. UNCHANGED <<clock, text, since, stamp>> /\ phase = "resolve" /\ phase' = "none"
    BY <1>5 DEF SyncEnd
  <2>2. ASSUME NEW d \in Folders, NEW f \in Within[d], Long(f, walked'[d]), walked'[d] # walked[d]
        PROVE  f \in Indexed
    <3>1. d = job.scope /\ job.walk /\ walked'[d] = IF job.boot THEN clock ELSE job.at
      BY <1>5, <2>2 DEF SyncEnd, TypeOK
    <3>2. f \in Files /\ f \in FilesIn(job.scope)
      BY <2>2, <3>1, FolderAssumption DEF FilesIn
    <3>3. Long(f, Limit)
      BY <2>2, <3>1, <3>2 DEF Long, Limit, TypeOK, Time, Job, Never
    <3> QED
      BY <2>1, <3>1, <3>2, <3>3 DEF Walks, Fresh, Noting
  <2>3. \A d \in Folders : \A f \in Within[d] : Long(f, walked'[d]) => f \in Indexed
    BY <2>2 DEF Walks
  <2>4. \A d \in Folders : walked'[d] <= clock
    BY <1>5 DEF SyncEnd, Walks, TypeOK, Time, Job
  <2>5. job'.at <= clock
    BY <1>5 DEF SyncEnd, SyncForgets, NoJob, TypeOK, Time
  <2> QED
    BY <2>1, <2>3, <2>4, <2>5, NoSync DEF Walks, Walked, Long, Indexed
<1> QED
  BY <1>1, <1>2, <1>3, <1>4, <1>5 DEF Sync

(* A document that parses since a step was not for long, as of any time    *)
(* before it.                                                              *)
LEMMA DiskLong ==
    ASSUME TypeOK, TypeOK', NEW t, NEW m, Disk(t, m), NEW f \in Files, NEW T \in Int,
           Long(f, T)'
    PROVE  \/ since'[f] = since[f] /\ Long(f, T)
           \/ since'[f] = clock' /\ clock' < T /\ ~(phase # "none" /\ job.boot)
BY DEF TypeOK, Disk, Long

LEMMA DiskSince ==
    ASSUME TypeOK, TypeOK', Walks, NEW t, NEW m, Disk(t, m), clock' >= clock
    PROVE  \A f \in Files : since'[f] <= clock'
BY DEF Disk, Walks, TypeOK, Time, Never

LEMMA DiskWalked ==
    ASSUME TypeOK, TypeOK', Walks, NEW t, NEW m, Disk(t, m), clock' >= clock,
           UNCHANGED <<stamp, walked>>
    PROVE  Walked'
<1>1. ASSUME NEW d \in Folders, NEW f \in Within[d], Long(f, walked[d])'
      PROVE  f \in Indexed'
  <2>1. f \in Files /\ walked[d] \in Int /\ clock' \in Int /\ clock \in Int
    BY FolderAssumption DEF TypeOK, Time, Never
  <2>2. walked[d] <= clock /\ walked' = walked
    BY DEF Walks
  <2>3. Long(f, walked[d])
    <3> DEFINE T == walked[d]
    <3>1. Long(f, T)'
      BY <1>1
    <3>2. PICK w \in Int : w = walked[d]
      BY <2>1
    <3>3. Long(f, w)'
      BY <1>1, <2>2, <3>2 DEF Long
    <3> QED
      BY <2>1, <2>2, <3>2, <3>3, DiskLong
  <2> QED
    BY <2>1, <2>3 DEF Walks, Indexed
<1>2. \A d \in Folders : walked'[d] <= clock'
  BY DEF Walks, TypeOK, Time, Never
<1> QED
  BY <1>1, <1>2, DiskSince DEF Walked

LEMMA OutsideWalks ==
    ASSUME TypeOK, TypeOK', Walks, NEW f \in Files, Outside(f)
    PROVE  Walks'
<1> USE DEF indexVars, syncVars
<1>1. PICK t \in TextOrNot : Writes(f, t)
  BY DEF Outside
<1> DEFINE texts == [text EXCEPT ![f] = t]
           mtimes == [mtime EXCEPT ![f] = clock + 1]
<1>2. Disk(texts, mtimes) /\ clock' = clock + 1 /\ clock \in Int /\ job.at \in Int
  BY <1>1 DEF Writes, TypeOK, Time, Job
<1> HIDE DEF texts, mtimes
<1>3. UNCHANGED <<job, phase, todo, stamp, gone, walked>>
  BY DEF Outside
<1>4. Walked'
  BY <1>2, <1>3, DiskWalked
<1>5. ASSUME phase # "none", NEW g \in Files, Long(g, Limit)'
      PROVE  Long(g, Limit)
  <2>1. PICK T \in Int : T = Limit'
    BY <1>2, <1>3 DEF Limit
  <2>2. Long(g, T)'
    BY <1>5, <2>1 DEF Long
  <2>3. T = IF job.boot THEN clock + 2 ELSE job.at + 1
    BY <1>2, <1>3, <2>1 DEF Limit
  <2>4. since'[g] = since[g] /\ Long(g, T)
    BY <1>2, <1>5, <2>2, <2>3, DiskLong DEF Walks
  <2> QED
    BY <1>2, <2>3, <2>4 DEF Walks, Long, Limit, TypeOK, Time, Never
<1>6. FilesIn(job.scope) \subseteq Files
  BY FolderAssumption DEF FilesIn, TypeOK, Job
<1>7. phase # "none" => \A g \in FilesIn(job.scope) :
         job.walk /\ Long(g, Limit)' => g \in Indexed \/ todo[g] # Never
  BY <1>5, <1>6 DEF Walks
<1>8. phase # "none" => \A g \in gone : ~Long(g, Limit)'
  BY <1>5 DEF Walks, TypeOK
<1> QED
  BY <1>2, <1>3, <1>4, <1>7, <1>8 DEF Walks, Walked, Indexed

(* An index update takes the row only of a document that is not there.     *)
LEMMA IndexWriteWalks ==
    ASSUME Undisturbed, TypeOK, Fresh, Walks, NEW h \in Handlers, IndexWrite(h)
    PROVE  Walks'
<1> USE DEF diskVars, syncVars
<1> DEFINE r == hreq[h]
<1>1. r.file \in Files /\ r.dest \in Files /\ Knows(h) /\ hpc[h] = "index" /\ r.kind # "text_rename"
  BY DEF TypeOK, Request, IndexWrite, Fresh, Undisturbed
<1>2. ASSUME NEW f \in Indexed PROVE f \in Indexed' \/ text[f] = Absent
  <2>1. CASE Indexes(r.file, r.text, links)
    BY <2>1, <1>1 DEF Indexes, Indexed, TypeOK, Time, Never
  <2>2. CASE Unindexes(r.file) /\ r.kind \in {"delete", "rename"}
    BY <2>2, <1>1 DEF Unindexes, Indexed, TypeOK, Knows
  <2>3. CASE Renames(h) /\ r.kind = "rename"
    BY <2>3, <1>1 DEF Renames, Indexed, TypeOK, Knows, Time, Never
  <2> QED
    BY <1>1, <2>1, <2>2, <2>3 DEF IndexWrite
<1>3. \A f \in Files : Parses(text[f]) => text[f] # Absent
  BY TextAssumption DEF Parses
<1>4. phase = "none" /\ UNCHANGED <<clock, text, since, walked, phase, job>>
  BY DEF IndexWrite, Idle
<1>5. \A d \in Folders : \A f \in Within[d] : Long(f, walked[d]) => f \in Indexed'
  BY <1>2, <1>3, FolderAssumption DEF Walks, Long
<1> QED
  BY <1>4, <1>5 DEF Walks, Long

LEMMA HandleWalks ==
    ASSUME Undisturbed, TypeOK, TypeOK', Fresh, Walks, NEW h \in Handlers, Handle(h)
    PROVE  Walks'
<1> USE DEF diskVars, indexVars, syncVars
<1>1. CASE IndexWrite(h)
  BY <1>1, IndexWriteWalks
<1>2. CASE BeginRefresh(Root) /\ UNCHANGED <<clock, text, since, stamp, walked>>
  <2>1. PICK walk \in BOOLEAN : /\ BeginSync(Widened(Root), walk, FALSE)
                                /\ walk <=> Widened(Root) \in Files \/ ~WalkedRecently(Widened(Root))
    BY <1>2, FolderAssumption, RefreshIsSync
  <2>2. Widened(Root) \in Folders \union Files
    BY WidenedTyped, FolderAssumption
  <2> QED
    BY <1>2, <2>1, <2>2, BeginsWalks
<1>3. CASE phase = "none" /\ phase' = "none"
           /\ UNCHANGED <<clock, text, since, stamp, walked, job>>
  BY <1>3 DEF Walks, Long, Indexed
<1>4. ASSUME phase = "none", UNCHANGED <<stamp, walked, job, phase>>,
             NEW t, NEW m, Disk(t, m), clock' \in {clock, clock + 1}
      PROVE  Walks'
  <2>1. clock' >= clock /\ clock \in Int /\ clock' \in Int /\ job.at \in Int
    BY <1>4 DEF TypeOK, Time, Job
  <2>2. Walked'
    BY <1>4, <2>1, DiskWalked
  <2>3. job'.at <= clock'
    BY <1>4, <2>1 DEF Walks
  <2> QED
    BY <1>4, <2>2, <2>3 DEF Walked, Walks
<1>5. CASE Write(h)
  <2>1. phase = "none" /\ UNCHANGED <<stamp, walked, job, phase>>
    BY <1>5 DEF Write, MayStart, Ready, Idle
  <2>2. \E t, m : Disk(t, m) /\ clock' \in {clock, clock + 1}
    BY <1>5 DEF Write, Writes, Moves
  <2> QED
    BY <1>4, <2>1, <2>2
<1>6. CASE MoveFile(h)
  <2>1. phase = "none" /\ UNCHANGED <<stamp, walked, job, phase>>
    BY <1>6 DEF MoveFile
  <2>2. (\E t, m : Disk(t, m) /\ clock' \in {clock, clock + 1})
        \/ UNCHANGED <<clock, text, since, stamp, walked, job>>
    BY <1>6 DEF MoveFile, Moves
  <2> QED
    BY <1>3, <1>4, <2>1, <2>2
<1>7. CASE RestoreFiles(h)
  <2>1. phase = "none" /\ UNCHANGED <<stamp, walked, job, phase>>
    BY <1>7 DEF RestoreFiles, Idle
  <2>2. \E t, m : Disk(t, m) /\ clock' \in {clock, clock + 1}
    BY <1>7 DEF RestoreFiles
  <2> QED
    BY <1>4, <2>1, <2>2
<1>8. CASE BeginRename(h) \/ SnapshotLinks(h) \/ GitFails(h)
  BY <1>3, <1>8 DEF BeginRename, SnapshotLinks, GitFails, MayStart, Ready, Idle
<1>9. CASE RefreshLinks(h)
  BY <1>2, <1>9 DEF RefreshLinks
<1>10. CASE WarnLinks(h)
  BY <1>2, <1>3, <1>10 DEF WarnLinks
<1> QED
  BY <1>1, <1>5, <1>6, <1>7, <1>8, <1>9, <1>10 DEF Handle

LEMMA NextWalks ==
    ASSUME Undisturbed, TypeOK, TypeOK', Fresh, Walks, [Next]_vars
    PROVE  Walks'
<1> USE DEF diskVars, indexVars, syncVars
<1>1. ASSUME NEW scope \in Folders \union Files, Search(scope) PROVE Walks'
  <2>1. PICK walk \in BOOLEAN : /\ BeginSync(Widened(scope), walk, FALSE)
                                /\ walk <=> Widened(scope) \in Files \/ ~WalkedRecently(Widened(scope))
    BY <1>1, RefreshIsSync DEF Search
  <2>2. Widened(scope) \in Folders \union Files
    BY WidenedTyped
  <2>3. UNCHANGED <<clock, text, since, stamp, walked>>
    BY <1>1 DEF Search
  <2> QED
    BY <2>1, <2>2, <2>3, BeginsWalks
<1>2. CASE BootSync
  BY <1>2, BeginsWalks, FolderAssumption DEF BootSync
<1>3. CASE EmbedStart
  BY <1>3 DEF EmbedStart, Walks, Long, Limit, Indexed
<1>4. ASSUME NEW f \in Files, EmbedAnswer(f) PROVE Walks'
  BY <1>4 DEF EmbedAnswer, Walks, Long, Limit, Indexed
<1>5. CASE Tick
  <2>1. clock' = clock + 1 /\ clock \in Int /\ job.at \in Int
        /\ UNCHANGED <<text, since, stamp, walked, phase, job, gone, todo>>
    BY <1>5 DEF Tick, TypeOK, Time, Job
  <2>2. ASSUME NEW f \in Files PROVE Long(f, Limit)' <=> Long(f, Limit)
    BY <2>1 DEF Long, Limit, Walks, TypeOK, Time, Never
  <2>3. FilesIn(job.scope) \subseteq Files /\ gone \subseteq Files
    BY FolderAssumption DEF FilesIn, TypeOK, Job
  <2>4. phase # "none" =>
          /\ job.walk => \A f \in FilesIn(job.scope) :
                            Long(f, Limit)' => f \in Indexed \/ todo[f] # Never
          /\ \A f \in gone : ~Long(f, Limit)'
    BY <2>2, <2>3 DEF Walks
  <2>5. (\A f \in Files : since[f] <= clock + 1) /\ \A d \in Folders : walked[d] <= clock + 1
    BY <2>1 DEF Walks, TypeOK, Time, Never
  <2>6. \A d \in Folders : \A f \in Within[d] : Long(f, walked[d])' => f \in Indexed
    BY <2>1 DEF Walks, Long
  <2> QED
    BY <2>1, <2>4, <2>5, <2>6 DEF Walks, Indexed
<1>6. CASE Crash
  <2>1. phase' = "none" /\ UNCHANGED <<clock, text, since, stamp>> /\ job'.at = 0
        /\ \A d \in Folders : walked'[d] = Never
    BY <1>6 DEF Crash, SyncForgets, NoJob
  <2>2. \A f \in Files : since[f] \in Int /\ (since[f] # Never => since[f] >= 0)
    BY DEF TypeOK, Time, Never
  <2> QED
    BY <2>1, <2>2, FolderAssumption DEF Walks, Long, Never, TypeOK, Time
<1>7. CASE UNCHANGED vars
  BY <1>7 DEF vars, Walks, Long, Limit, Indexed
<1> QED
  BY <1>1, <1>2, <1>3, <1>4, <1>5, <1>6, <1>7, SyncWalks, OutsideWalks, HandleWalks DEF Next

LEMMA InitWalks == Init => Walks
BY FolderAssumption DEF Init, Walks, Long, NoJob, Never

(* The throttle hides a new document for rescan_interval_ms and no longer: *)
(* a refresh finds every one below its scope that has parsed for that long *)
(* (freshness.ts:18-21).                                                   *)
THEOREM NoneHiddenLong ==
    ASSUME Undisturbed
    PROVE  Spec => NotHiddenLong
<1> DEFINE Found == Refreshed => \A f \in FilesIn(job.scope) :
                       /\ Parses(text[f]) /\ mtime[f] <= job.at
                       /\ since[f] # Never /\ since[f] + Interval <= job.at
                       => f \in Indexed'
<1>1. FreshInv /\ Walks /\ [Next]_vars => [Found]_vars
  <2> SUFFICES ASSUME FreshInv, Walks, Next PROVE Found
    BY Zenon
  <2>1. ASSUME Refreshed, NEW f \in FilesIn(job.scope), Parses(text[f]), since[f] # Never,
               since[f] + Interval <= job.at
        PROVE  f \in Indexed'
    <3>1. stamp' = stamp /\ TypeOK /\ Noting /\ phase = "resolve" /\ ~job.boot
      BY <2>1, RefreshedRows DEF FreshInv, Fresh, Refreshed
    <3>2. f \in Files /\ since[f] \in Int /\ job.at \in Int /\ Interval \in Nat
      BY <2>1, <3>1, FolderAssumption, ClockAssumption DEF FilesIn, TypeOK, Job, Time, Never
    <3>3. CASE job.walk
      <4>1. Long(f, Limit)
        BY <2>1, <3>1, <3>2 DEF Long, Limit
      <4> QED
        BY <2>1, <3>1, <3>2, <3>3, <4>1 DEF Walks, Noting, Indexed
    <3>4. CASE ~job.walk
      <4>1. job.scope \in Folders
        BY <3>1, <3>4 DEF Walks
      <4>2. PICK d \in Above[job.scope] : walked[d] # Never /\ job.at - walked[d] < Interval
        BY <3>1, <3>4 DEF Walks
      <4>3. d \in Folders /\ walked[d] \in Int
        BY <3>1, <4>1, FolderAssumption DEF TypeOK, Time, Never
      <4>4. f \in Within[d]
        BY <2>1, <4>1, <4>2, <4>3, FolderAssumption DEF FilesIn
      <4>5. Long(f, walked[d])
        BY <2>1, <3>2, <4>2, <4>3 DEF Long
      <4> QED
        BY <3>1, <4>3, <4>4, <4>5 DEF Walks, Indexed
    <3> QED
      BY <3>3, <3>4
  <2> QED
    BY <2>1
<1>2. FreshInv /\ FreshInv' /\ Undisturbed /\ Walks /\ [Next]_vars => Walks'
  BY NextWalks DEF FreshInv
<1>3. NotHiddenLong <=> [][Found]_vars
  BY DEF NotHiddenLong
<1> HIDE DEF Found
<1> QED
  BY <1>1, <1>2, <1>3, InitWalks, FreshInvariant, PTL DEF Spec

---------------------------------------------------------------------------
(* VECTORS                                                                 *)

(* The files a refresh would pass over, when documents change: no more     *)
(* than before.                                                            *)
LEMMA SkippedAfterWrite ==
    ASSUME TypeOK, Noting, NEW f \in Files, NEW t, Writes(f, t), UNCHANGED stamp
    PROVE  Skipped' \subseteq Skipped
<1>1. clock \in Nat /\ text' = [text EXCEPT ![f] = t] /\ mtime' = [mtime EXCEPT ![f] = clock + 1]
  BY DEF Writes, Disk, TypeOK, Time
<1> SUFFICES ASSUME NEW g \in Skipped' PROVE g \in Skipped
  OBVIOUS
<1>2. g # f
  BY <1>1 DEF Skipped, Indexed, Noting, TypeOK, Time, Never
<1> QED
  BY <1>1, <1>2 DEF Skipped, Indexed, Present, TypeOK

LEMMA SkippedAfterMove ==
    ASSUME TypeOK, NEW f \in Files, NEW g \in Files \ Indexed, Moves(f, g), UNCHANGED stamp
    PROVE  Skipped' \subseteq Skipped
<1>1. text' = [text EXCEPT ![g] = text[f], ![f] = Absent] /\ mtime' = [mtime EXCEPT ![g] = mtime[f]]
  BY DEF Moves, Disk
<1> SUFFICES ASSUME NEW x \in Skipped' PROVE x \in Skipped
  OBVIOUS
<1>2. x # g /\ x # f
  BY <1>1 DEF Skipped, Indexed, Present, TypeOK
<1> QED
  BY <1>1, <1>2 DEF Skipped, Indexed, Present, TypeOK

LEMMA SkippedAfterRestore ==
    ASSUME TypeOK, Noting, NEW h \in Handlers, RestoreFiles(h)
    PROVE  Skipped' \subseteq Skipped
<1> DEFINE f == hreq[h].file
           g == hreq[h].dest
<1>1. /\ clock \in Nat /\ stamp' = stamp
      /\ text' = [x \in Files |-> IF x = f THEN held[h] ELSE IF x = g THEN Absent ELSE text[x]]
      /\ mtime' = [x \in Files |-> IF x \in {f, g} THEN clock + 1 ELSE mtime[x]]
  BY DEF RestoreFiles, Disk, TypeOK, Time, indexVars
<1> SUFFICES ASSUME NEW x \in Skipped' PROVE x \in Skipped
  OBVIOUS
<1>2. x \notin {f, g}
  BY <1>1 DEF Skipped, Indexed, Noting, TypeOK, Time, Never
<1> QED
  BY <1>1, <1>2 DEF Skipped, Indexed, Present

(* The embedding pass is still to come while the startup sync leaves       *)
(* vectors be, and where it never comes there are none.                    *)
Embeds ==
    /\ (bootDue \/ (phase # "none" /\ job.boot)) /\ Semantic => embedDue
    /\ ~Semantic => ~embedDue /\ \A f \in Files : vec[f] = Absent /\ pend[f] = Absent

LEMMA InitEmbeds == Init => Embeds
BY DEF Init, Embeds

(* What a step may do to the vectors of f: a late answer apart, it does    *)
(* not make them those of another text than the rows'.                     *)
Late(f) == pend[f] \notin {Absent, fts[f]} /\ vec'[f] = pend[f]

Leads(f) ==
    Misled(f)' => (Misled(f) /\ vec'[f] = vec[f] /\ fts'[f] = fts[f]) \/ Late(f)

LEMMA SyncEmbeds ==
    ASSUME TypeOK, Embeds, Sync
    PROVE  Embeds' /\ \A f \in Files : Leads(f)
<1> USE DEF diskVars, indexVars, callVars, bootVars
<1>1. UNCHANGED <<text, mtime, pend, bootDue, embedDue>> /\ (phase' # "none" => phase # "none" /\ job' = job)
  BY DEF Sync, SyncRead, SyncInsert, Inserts, SyncRemove, SyncLinks, SyncEnd
<1>2. \A f \in Files : \/ vec'[f] = vec[f] /\ fts'[f] = fts[f] /\ stamp'[f] = stamp[f]
                       \/ vec'[f] = Absent
                       \/ vec'[f] = vec[f] /\ phase # "none" /\ job.boot
  BY DEF Sync, SyncRead, SyncInsert, Inserts, DropVectors, SyncRemove, SyncLinks, SyncEnd
<1>3. Embeds'
  BY <1>1, <1>2 DEF Embeds
<1>4. ASSUME NEW f \in Files PROVE Leads(f)
  <2>1. CASE vec'[f] = vec[f] /\ fts'[f] = fts[f] /\ stamp'[f] = stamp[f]
    <3>1. f \in Skipped' => f \in Skipped
      BY <1>1, <2>1 DEF Skipped, Indexed, Present
    <3> QED
      BY <1>1, <2>1, <3>1 DEF Leads, Misled
  <2>2. CASE vec'[f] = Absent
    BY <2>2 DEF Leads, Misled
  <2>3. CASE vec'[f] = vec[f] /\ phase # "none" /\ job.boot
    BY <1>1, <2>2, <2>3 DEF Leads, Misled, Embeds
  <2> QED
    BY <1>2, <2>1, <2>2, <2>3
<1> QED
  BY <1>3, <1>4

(* What a step must do that changes neither vectors nor rows, or drops the *)
(* vectors of the rows it changes.                                         *)
LEMMA VectorsKept ==
    ASSUME Embeds, UNCHANGED <<bootDue, embedDue, pend>>,
           phase' # "none" => ~job'.boot \/ (phase # "none" /\ job' = job),
           \A f \in Files : vec'[f] = Absent \/ (vec'[f] = vec[f] /\ fts'[f] = fts[f]),
           \A f \in Skipped' : vec'[f] = Absent \/ f \in Skipped
    PROVE  Embeds' /\ \A f \in Files : Leads(f)
<1>1. Embeds'
  BY DEF Embeds
<1>2. \A f \in Files : Leads(f)
  BY DEF Leads, Misled
<1> QED
  BY <1>1, <1>2

(* The kinds of write after which the vectors of a document are dropped.   *)
LEMMA HandleEmbeds ==
    ASSUME Undisturbed, Kinds \subseteq {"edit", "delete"}, TypeOK, Fresh, Embeds,
           NEW h \in Handlers, Handle(h)
    PROVE  Embeds' /\ \A f \in Files : Leads(f)
<1> USE DEF diskVars, indexVars, syncVars, bootVars
<1>1. /\ UNCHANGED <<bootDue, embedDue, pend>>
      /\ phase' # "none" => ~job'.boot \/ (phase # "none" /\ job' = job)
  BY DEF Handle, Write, BeginRename, RefreshLinks, SnapshotLinks, MoveFile, IndexWrite, WarnLinks,
         GitFails, RestoreFiles, BeginRefresh, BeginSync
<1>2. ~Moving(h) /\ ~BeginRename(h) /\ hreq[h].kind \in {"edit", "delete"}
  BY DEF Fresh, Knows, BeginRename, TypeOK, Request
<1>3. hreq[h].file \in Files
  BY DEF TypeOK, Request
<1>4. \A f \in Files : vec'[f] = Absent \/ (vec'[f] = vec[f] /\ fts'[f] = fts[f] /\ stamp'[f] = stamp[f])
  <2>1. CASE IndexWrite(h)
    BY <2>1, <1>2, <1>3 DEF IndexWrite, Indexes, Unindexes, TypeOK
  <2> QED
    BY <2>1 DEF Handle, Write, BeginRename, RefreshLinks, SnapshotLinks, MoveFile, WarnLinks,
                GitFails, RestoreFiles
<1>5. \A f \in Skipped' : vec'[f] = Absent \/ f \in Skipped
  <2>1. CASE Write(h)
    <3>1. PICK r \in Request : Writes(r.file, r.text) \/ Writes(r.file, Absent)
      BY <2>1 DEF Write, Undisturbed, Request
    <3> QED
      BY <2>1, <3>1, SkippedAfterWrite DEF Write, Request, Fresh
  <2>2. CASE RestoreFiles(h)
    BY <2>2, SkippedAfterRestore DEF Fresh
  <2>3. CASE ~Write(h) /\ ~RestoreFiles(h)
    <3>1. UNCHANGED <<text, mtime>>
      BY <1>2, <2>3 DEF Handle, RefreshLinks, SnapshotLinks, MoveFile, IndexWrite, WarnLinks,
                        GitFails, Moving
    <3> QED
      BY <1>4, <3>1 DEF Skipped, Indexed, Present
  <2> QED
    BY <2>1, <2>2, <2>3
<1> QED
  BY <1>1, <1>4, <1>5, VectorsKept

LEMMA NextEmbeds ==
    ASSUME Undisturbed, Kinds \subseteq {"edit", "delete"}, TypeOK, Fresh, Embeds, [Next]_vars
    PROVE  Embeds' /\ \A f \in Files : Leads(f)
<1> DEFINE Goal == Embeds' /\ \A f \in Files : Leads(f)
<1> USE DEF diskVars, indexVars, syncVars, callVars, bootVars
<1>1. ASSUME NEW scope \in Folders \union Files, Search(scope) PROVE Goal
  <2>1. ~job'.boot /\ Skipped' = Skipped
    BY <1>1 DEF Search, BeginRefresh, BeginSync, Skipped, Indexed, Present
  <2> QED
    BY <1>1, <2>1, VectorsKept DEF Search
<1>2. CASE BootSync
  BY <1>2 DEF BootSync, Embeds, Leads, Misled, Skipped, Indexed, Present
<1>3. CASE EmbedStart
  <2>1. \A f \in Skipped : text[f] \notin Broken
    BY DEF Fresh, Current, Parses
  <2>2. Skipped' = Skipped /\ UNCHANGED <<bootDue, phase, job>>
    BY <1>3 DEF EmbedStart, Skipped, Indexed, Present
  <2>3. \A f \in Files : f \in Skipped => vec'[f] = Absent
    BY <1>3, <2>1 DEF EmbedStart
  <2>4. \A f \in Files : Leads(f)
    BY <2>2, <2>3 DEF Leads, Misled
  <2> QED
    BY <1>3, <2>2, <2>4 DEF EmbedStart, Embeds, Idle
<1>4. ASSUME NEW f \in Files, EmbedAnswer(f) PROVE Goal
  <2>1. Skipped' = Skipped /\ UNCHANGED <<fts, bootDue, embedDue, phase, job>>
    BY <1>4 DEF EmbedAnswer, Skipped, Indexed, Present
  <2>2. pend[f] # Absent /\ Semantic
    BY <1>4 DEF EmbedAnswer, Embeds
  <2>3. \A g \in Files : vec'[g] = vec[g] \/ (g = f /\ vec'[g] = pend[g])
    BY <1>4 DEF EmbedAnswer, TypeOK
  <2>4. \A g \in Files : Leads(g)
    BY <2>1, <2>2, <2>3 DEF Leads, Misled, Late
  <2> QED
    BY <2>1, <2>2, <2>4 DEF Embeds
<1>5. ASSUME NEW f \in Files, Outside(f) PROVE Goal
  <2>1. PICK t \in TextOrNot : Writes(f, t)
    BY <1>5 DEF Outside
  <2>2. Skipped' \subseteq Skipped
    BY <1>5, <2>1, SkippedAfterWrite DEF Outside, Fresh
  <2> QED
    BY <1>5, <2>2, VectorsKept DEF Outside
<1>6. CASE Tick
  BY <1>6 DEF Tick, Embeds, Leads, Misled, Skipped, Indexed, Present
<1>7. CASE Crash
  BY <1>7 DEF Crash, Embeds, Leads, Misled
<1>8. CASE UNCHANGED vars
  BY <1>8 DEF vars, Embeds, Leads, Misled, Skipped, Indexed, Present
<1> QED
  BY <1>1, <1>2, <1>3, <1>4, <1>5, <1>6, <1>7, <1>8, SyncEmbeds, HandleEmbeds DEF Next

(* Where documents are edited and deleted, one call at a time, and while   *)
(* answers of the embedding service may be under way: whatever is written, *)
(* and wherever the process dies, a document that a refresh will pass over *)
(* gets the vectors of another text than its rows hold from one step only, *)
(* an answer for a text replaced meanwhile (sync.ts:410), and keeps them   *)
(* only as long as the rows stay (write-helpers.ts:136-140).               *)
THEOREM OnlyLateAnswersEverMislead ==
    ASSUME Undisturbed, Kinds \subseteq {"edit", "delete"}
    PROVE  Spec => OnlyLateAnswersMislead
<1>1. FreshInv /\ Embeds /\ [Next]_vars => Embeds'
  BY NextEmbeds DEF FreshInv
<1>2. FreshInv /\ Embeds /\ [Next]_vars
      => [\A f \in Files : Misled(f)' =>
             \/ Misled(f) /\ vec'[f] = vec[f] /\ fts'[f] = fts[f]
             \/ pend[f] \notin {Absent, fts[f]} /\ vec'[f] = pend[f]]_vars
  BY NextEmbeds DEF FreshInv, Leads, Late
<1> QED
  BY <1>1, <1>2, InitEmbeds, FreshInvariant, PTL DEF Spec, OnlyLateAnswersMislead

---------------------------------------------------------------------------
(* LINKS IN LOCKSTEP WITH THE TEXT                                         *)

(* The rows of f are those of text t: one for each link, none besides.     *)
Match(rows, f, t) ==
    /\ \A l \in LinksIn[t] : \E r \in Outgoing(rows, f) : Stems(r, l)
    /\ \A r \in Outgoing(rows, f) : \E l \in LinksIn[t] : Stems(r, l)

LEMMA ResolveStems ==
    ASSUME NEW f \in Files, NEW l \in Target, NEW indexed \in SUBSET Files
    PROVE  Resolve(f, l, indexed).from = f /\ Stems(Resolve(f, l, indexed), l)
<1>1. CASE l \in Files
  BY <1>1 DEF Resolve, Stems
<1>2. CASE l \notin Files /\ Cardinality(Matches(l, indexed)) = 1
  <2>1. Matches(l, indexed) # {}
    BY <1>2, FS_EmptySet
  <2>2. PICK g \in Matches(l, indexed) : g = CHOOSE x \in Matches(l, indexed) : TRUE
    BY <2>1
  <2>3. g \in Files /\ Base[g] = l
    BY <2>2 DEF Matches
  <2>4. Resolve(f, l, indexed) = [from |-> f, to |-> g, ok |-> TRUE]
    BY <1>2, <2>2 DEF Resolve
  <2> QED
    BY <2>3, <2>4 DEF Stems
<1>3. CASE l \notin Files /\ Cardinality(Matches(l, indexed)) # 1
  BY <1>3 DEF Resolve, Stems
<1> QED
  BY <1>1, <1>2, <1>3

(* storeLinks: the rows of a file it stores are those of its text,         *)
LEMMA StoredMatch ==
    ASSUME NEW rows, NEW files \in SUBSET Files, NEW content, NEW indexed \in SUBSET Files,
           NEW f \in files, content[f] \in Texts, \A g \in files : content[g] \in Texts
    PROVE  Match(StoreLinks(rows, files, content, indexed), f, content[f])
<1> DEFINE stored == StoreLinks(rows, files, content, indexed)
<1>1. \A g \in files : \A l \in LinksIn[content[g]] : l \in Target
  BY TextAssumption
<1>2. ASSUME NEW l \in LinksIn[content[f]]
      PROVE  \E r \in Outgoing(stored, f) : Stems(r, l)
  <2> DEFINE r == Resolve(f, l, indexed)
  <2>1. r \in stored
    BY DEF RowsFor, StoreLinks
  <2>2. r.from = f /\ Stems(r, l)
    BY <1>1, ResolveStems
  <2> QED
    BY <2>1, <2>2 DEF Outgoing
<1>3. ASSUME NEW r \in Outgoing(stored, f)
      PROVE  \E l \in LinksIn[content[f]] : Stems(r, l)
  <2>1. r \in stored /\ r.from = f
    BY DEF Outgoing
  <2>2. PICK g \in files : r \in RowsFor(g, content[g], indexed)
    BY <2>1 DEF StoreLinks
  <2>3. PICK l \in LinksIn[content[g]] : r = Resolve(g, l, indexed)
    BY <2>2 DEF RowsFor
  <2>4. r.from = g /\ Stems(r, l)
    BY <1>1, <2>3, ResolveStems
  <2> QED
    BY <2>1, <2>4
<1> QED
  BY <1>2, <1>3 DEF Match

(* those of other files stay.                                              *)
LEMMA StoredOthers ==
    ASSUME NEW rows, NEW files \in SUBSET Files, NEW content, NEW indexed \in SUBSET Files,
           NEW f \in Files \ files, \A g \in files : content[g] \in Texts
    PROVE  Outgoing(StoreLinks(rows, files, content, indexed), f) = Outgoing(rows, f)
<1> DEFINE stored == StoreLinks(rows, files, content, indexed)
<1>1. ASSUME NEW r \in Outgoing(rows, f) PROVE r \in Outgoing(stored, f)
  BY DEF Outgoing, StoreLinks
<1>2. ASSUME NEW r \in Outgoing(stored, f) PROVE r \in Outgoing(rows, f)
  <2>1. r \in stored /\ r.from = f
    BY DEF Outgoing
  <2>2. ASSUME NEW g \in files, r \in RowsFor(g, content[g], indexed) PROVE FALSE
    <3>1. PICK l \in LinksIn[content[g]] : r = Resolve(g, l, indexed)
      BY <2>2 DEF RowsFor
    <3>2. l \in Target
      BY TextAssumption
    <3> QED
      BY <2>1, <3>1, <3>2, ResolveStems
  <2>3. r \in rows
    BY <2>1, <2>2 DEF StoreLinks
  <2> QED
    BY <2>1, <2>3 DEF Outgoing
<1> QED
  BY <1>1, <1>2

(* Where rows come from, after each of the three operations.               *)
LEMMA StoredFrom ==
    ASSUME NEW rows, NEW files \in SUBSET Files, NEW content, NEW indexed \in SUBSET Files,
           \A g \in files : content[g] \in Texts,
           NEW r \in StoreLinks(rows, files, content, indexed)
    PROVE  r.from \in files \/ \E s \in rows : s.from = r.from
<1>1. CASE r \in rows
  BY <1>1
<1>2. CASE r \notin rows
  <2>1. PICK f \in files : r \in RowsFor(f, content[f], indexed)
    BY <1>2 DEF StoreLinks
  <2>2. PICK l \in LinksIn[content[f]] : r = Resolve(f, l, indexed)
    BY <2>1 DEF RowsFor
  <2>3. l \in Target
    BY <2>2, TextAssumption
  <2> QED
    BY <2>2, <2>3, ResolveStems
<1> QED
  BY <1>1, <1>2

LEMMA DroppedFrom ==
    ASSUME NEW rows, rows \subseteq Row, NEW files, NEW r \in DropRows(rows, files)
    PROVE  r.from \notin files /\ \E s \in rows : s.from = r.from /\ s.to = r.to
<1>1. PICK s \in rows : s.from \notin files
                        /\ r = IF s.to \in files THEN [s EXCEPT !.ok = FALSE] ELSE s
  BY DEF DropRows
<1>2. r.from = s.from /\ r.to = s.to
  BY <1>1 DEF Row
<1> QED
  BY <1>1, <1>2

(* removeFromIndex takes a '?' back, not the row of another file.          *)
LEMMA DroppedMatch ==
    ASSUME NEW rows, rows \subseteq Row, NEW files, NEW f, f \notin files, NEW t, Match(rows, f, t)
    PROVE  Match(DropRows(rows, files), f, t)
<1> DEFINE dropped == DropRows(rows, files)
<1>1. ASSUME NEW s \in Outgoing(rows, f)
      PROVE  \E r \in Outgoing(dropped, f) : r.to = s.to
  <2>0. PICK r : r = IF s.to \in files THEN [s EXCEPT !.ok = FALSE] ELSE s
    OBVIOUS
  <2>1. s \in rows /\ s.from = f
    BY DEF Outgoing
  <2>2. r \in dropped
    BY <2>0, <2>1 DEF DropRows
  <2>3. r.from = f /\ r.to = s.to
    BY <2>0, <2>1 DEF Row
  <2> QED
    BY <2>2, <2>3 DEF Outgoing
<1>2. ASSUME NEW r \in Outgoing(dropped, f)
      PROVE  \E s \in Outgoing(rows, f) : r.to = s.to
  <2>1. r \in dropped /\ r.from = f
    BY DEF Outgoing
  <2>2. PICK s \in rows : s.from = r.from /\ s.to = r.to
    BY <2>1, DroppedFrom
  <2> QED
    BY <2>1, <2>2 DEF Outgoing
<1>3. ASSUME NEW l \in LinksIn[t] PROVE \E r \in Outgoing(dropped, f) : Stems(r, l)
  <2>1. PICK s \in Outgoing(rows, f) : Stems(s, l)
    BY DEF Match
  <2>2. PICK r \in Outgoing(dropped, f) : r.to = s.to
    BY <1>1
  <2> QED
    BY <2>1, <2>2 DEF Stems
<1>4. ASSUME NEW r \in Outgoing(dropped, f) PROVE \E l \in LinksIn[t] : Stems(r, l)
  <2>1. PICK s \in Outgoing(rows, f) : r.to = s.to
    BY <1>2
  <2>2. PICK l \in LinksIn[t] : Stems(s, l)
    BY DEF Match
  <2> QED
    BY <2>1, <2>2 DEF Stems
<1> QED
  BY <1>3, <1>4 DEF Match

(* A row that is looked up again still stems from the same link.           *)
LEMMA UnstaleRow ==
    ASSUME NEW s \in Row, NEW indexed \in SUBSET Files, NEW l,
           NEW r, r = IF s.ok THEN s ELSE Resolve(s.from, s.to, indexed)
    PROVE  r.from = s.from /\ (Stems(s, l) => Stems(r, l))
<1>1. s.from \in Files /\ s.to \in Target
  BY DEF Row
<1>2. CASE s.ok
  BY <1>2
<1>3. CASE ~s.ok
  <2>1. r.from = s.from /\ Stems(r, s.to)
    BY <1>1, <1>3, ResolveStems
  <2>2. s.to \in Files => r.to = s.to
    BY <1>3 DEF Resolve
  <2> QED
    BY <2>1, <2>2 DEF Stems
<1> QED
  BY <1>2, <1>3

LEMMA UnstaleFrom ==
    ASSUME NEW rows, rows \subseteq Row, NEW indexed \in SUBSET Files, NEW r \in Unstale(rows, indexed)
    PROVE  \E s \in rows : s.from = r.from /\ \A l : Stems(s, l) => Stems(r, l)
<1>1. PICK s \in rows : r = IF s.ok THEN s ELSE Resolve(s.from, s.to, indexed)
  BY DEF Unstale
<1>2. s \in Row
  OBVIOUS
<1>3. r.from = s.from
  BY <1>1, <1>2, UnstaleRow
<1>4. \A l : Stems(s, l) => Stems(r, l)
  BY <1>1, <1>2, UnstaleRow
<1> QED
  BY <1>3, <1>4

LEMMA UnstaleMatch ==
    ASSUME NEW rows, rows \subseteq Row, NEW indexed \in SUBSET Files, NEW f, NEW t, Match(rows, f, t)
    PROVE  Match(Unstale(rows, indexed), f, t)
<1> DEFINE later == Unstale(rows, indexed)
<1>1. ASSUME NEW l \in LinksIn[t] PROVE \E r \in Outgoing(later, f) : Stems(r, l)
  <2>1. PICK s \in Outgoing(rows, f) : Stems(s, l)
    BY DEF Match
  <2>2. PICK r : r = IF s.ok THEN s ELSE Resolve(s.from, s.to, indexed)
    OBVIOUS
  <2>3. s \in rows /\ s.from = f /\ s \in Row
    BY DEF Outgoing
  <2>4. r \in later
    BY <2>2, <2>3 DEF Unstale
  <2>5. r.from = f /\ Stems(r, l)
    BY <2>1, <2>2, <2>3, UnstaleRow
  <2> QED
    BY <2>4, <2>5 DEF Outgoing
<1>2. ASSUME NEW r \in Outgoing(later, f) PROVE \E l \in LinksIn[t] : Stems(r, l)
  <2>1. r \in later /\ r.from = f
    BY DEF Outgoing
  <2>2. PICK s \in rows : s.from = r.from /\ \A l : Stems(s, l) => Stems(r, l)
    BY <2>1, UnstaleFrom
  <2>3. s \in Outgoing(rows, f)
    BY <2>1, <2>2 DEF Outgoing
  <2> QED
    BY <2>2, <2>3 DEF Match
<1> QED
  BY <1>1, <1>2 DEF Match

(* While the startup sync comes before all requests and nothing dies, no   *)
(* sync runs between the move of a document and the update of its rows: the*)
(* files that linked to it keep theirs.  A sync has the links of a file in *)
(* hand from when it reads it until it stores them.                        *)
Follows ==
    /\ bootDue => Quiet
    /\ \A h \in Handlers : hpc[h] = "idle" => inbound[h] = {}
    /\ \A h \in Handlers : hpc[h] \in {"move", "index"} =>
          phase = "none" /\ \A f \in inbound[h] : f \in Indexed /\ f # hreq[h].file
    /\ phase = "none" => \A f \in Files : backlog[f] = Absent
    /\ phase = "index" => \A f \in gone : todo[f] = Never /\ backlog[f] = Absent
    /\ \A f \in Files : backlog[f] # Absent /\ phase \in {"index", "links"} /\ todo[f] = Never
          => f \in Indexed \ gone /\ fts[f] = backlog[f]
    /\ \A r \in links : r.from \in Indexed
    /\ \A f \in Skipped : Match(links, f, fts[f]) \/ (phase \in {"index", "links"} /\ backlog[f] # Absent)

(* Its parts: those about handlers, about a sync, and about the rows.      *)
Awaiting == /\ bootDue => Quiet
            /\ \A h \in Handlers : hpc[h] = "idle" => inbound[h] = {}
            /\ \A h \in Handlers : hpc[h] \in {"move", "index"} =>
                  phase = "none" /\ \A f \in inbound[h] : f \in Indexed /\ f # hreq[h].file
InHand == /\ phase = "none" => \A f \in Files : backlog[f] = Absent
          /\ phase = "index" => \A f \in gone : todo[f] = Never /\ backlog[f] = Absent
          /\ \A f \in Files : backlog[f] # Absent /\ phase \in {"index", "links"} /\ todo[f] = Never
                => f \in Indexed \ gone /\ fts[f] = backlog[f]
Lockstep == /\ \A r \in links : r.from \in Indexed
            /\ \A f \in Skipped : Match(links, f, fts[f])
                                  \/ (phase \in {"index", "links"} /\ backlog[f] # Absent)

LEMMA FollowsParts == Follows <=> Awaiting /\ InHand /\ Lockstep
BY DEF Follows, Awaiting, InHand, Lockstep

LEMMA InitFollows == Init => Follows
<1> SUFFICES ASSUME Init PROVE Follows
  OBVIOUS
<1>1. Skipped = {}
  BY DEF Init, Skipped, Indexed
<1> QED
  BY <1>1 DEF Init, Follows, Quiet, InFlight

(* A step between syncs that leaves the rows, and has refreshes pass over  *)
(* no file more.                                                           *)
LEMMA LockstepKept ==
    ASSUME Lockstep, UNCHANGED <<links, fts, stamp>>, Skipped' \subseteq Skipped,
           phase' = phase /\ backlog' = backlog
    PROVE  Lockstep'
BY DEF Lockstep, Match, Outgoing, Stems, Indexed

LEMMA InHandKept ==
    ASSUME InHand, UNCHANGED <<phase, backlog, gone, todo, stamp, fts>>
    PROVE  InHand'
BY DEF InHand, Indexed

(* A sync that begins has nothing in hand, and every file that it would    *)
(* not look at has its rows.                                               *)
LEMMA BeginsFollows ==
    ASSUME TypeOK, Follows, phase = "none", NEW scope, NEW walk, NEW boot, BeginSync(scope, walk, boot),
           UNCHANGED <<text, mtime, stamp, fts, links>>
    PROVE  InHand' /\ Lockstep'
<1>1. phase' = "index" /\ backlog' = [f \in Files |-> Absent] /\ gone' \subseteq Files
      /\ \A f \in gone' : todo'[f] = Never
  BY DEF BeginSync, Indexed, Present
<1>2. InHand'
  BY <1>1 DEF InHand
<1>3. Skipped' = Skipped
  BY DEF Skipped, Indexed, Present
<1>4. \A f \in Skipped : Match(links, f, fts[f])
  BY DEF Follows
<1>5. \A f \in Skipped' : Match(links', f, fts'[f])
  BY <1>3, <1>4
<1>6. \A r \in links' : r.from \in Indexed'
  BY DEF Follows, Indexed
<1> QED
  BY <1>2, <1>5, <1>6 DEF Lockstep

LEMMA SyncFollows ==
    ASSUME TypeOK, TypeOK', Fresh, Follows, Sync
    PROVE  Follows'
<1> USE FollowsParts DEF diskVars, indexVars, callVars, bootVars
<1>0. InHand /\ Lockstep /\ Awaiting /\ phase # "none"
  BY FollowsParts DEF Sync, SyncRead, SyncInsert, Inserts, SyncRemove, SyncLinks, SyncEnd
<1>a. UNCHANGED <<bootDue, hpc, hreq, inbound, text, mtime>>
  BY DEF Sync, SyncRead, SyncInsert, Inserts, SyncRemove, SyncLinks, SyncEnd
<1>b. Awaiting'
  BY <1>0, <1>a DEF Awaiting, Quiet, InFlight
<1>1. ASSUME NEW f \in Files, SyncRead(f) PROVE InHand' /\ Lockstep'
  <2>1. phase = "index" /\ UNCHANGED <<phase, gone, stamp, fts, links>>
    BY <1>1 DEF SyncRead
  <2>2. \A g \in Files : \/ g # f /\ backlog'[g] = backlog[g] /\ todo'[g] = todo[g]
                         \/ g = f /\ todo[g] # Never
                            /\ ((backlog'[g] # Absent /\ todo'[g] # Never)
                                \/ (backlog'[g] = Absent /\ backlog[g] = Absent))
    BY <1>1, TextAssumption DEF SyncRead, TypeOK, Parses
  <2>3. InHand'
    BY <1>0, <2>1, <2>2 DEF InHand, Indexed, TypeOK
  <2>4. \A g \in Files : backlog[g] # Absent => backlog'[g] # Absent
    BY <1>1, TextAssumption DEF SyncRead, TypeOK, Parses
  <2>5. Skipped' = Skipped
    BY <1>a, <2>1 DEF Skipped, Indexed, Present
  <2>6. \A g \in Skipped : g \in Files
    BY DEF Skipped, Indexed
  <2>7. Lockstep'
    BY <1>0, <2>1, <2>4, <2>5, <2>6 DEF Lockstep, Indexed
  <2> QED
    BY <2>3, <2>7
<1>2. ASSUME SyncInsert PROVE InHand' /\ Lockstep'
  <2>1. phase = "index" /\ UNCHANGED <<phase, gone, backlog, links>>
    BY <1>2 DEF SyncInsert, Inserts
  <2>2. \A g \in Files :
          \/ g \in Prepared /\ todo'[g] = Never /\ fts'[g] = backlog[g] /\ stamp'[g] = todo[g]
             /\ todo[g] # Never /\ backlog[g] # Absent
          \/ g \notin Prepared /\ todo'[g] = todo[g] /\ fts'[g] = fts[g] /\ stamp'[g] = stamp[g]
             /\ (todo[g] = Never \/ backlog[g] = Absent)
    BY <1>2 DEF SyncInsert, Inserts, Prepared
  <2>3. \A g \in Files : g \in Indexed' <=> g \in Indexed \/ g \in Prepared
    BY <2>2 DEF Indexed
  <2>4. InHand'
    BY <1>0, <2>1, <2>2, <2>3 DEF InHand, TypeOK
  <2>5. ASSUME NEW g \in Skipped', backlog[g] = Absent PROVE g \in Skipped /\ fts'[g] = fts[g]
    <3>1. g \in Files
      BY DEF Skipped, Indexed
    <3> QED
      BY <1>a, <2>2, <2>5, <3>1 DEF Skipped, Indexed, Present
  <2>6. \A r \in links' : r.from \in Indexed'
    BY <1>0, <2>1, <2>3 DEF Lockstep, Indexed
  <2>7. Lockstep'
    BY <1>0, <2>1, <2>5, <2>6 DEF Lockstep
  <2> QED
    BY <2>4, <2>7
<1>3. ASSUME SyncRemove PROVE InHand' /\ Lockstep'
  <2>1. phase = "index" /\ phase' = "links" /\ links' = DropRows(links, gone)
        /\ (\A f \in Files : todo[f] = Never) /\ UNCHANGED <<gone, todo, backlog>>
    BY <1>3 DEF SyncRemove
  <2>2. \A f \in Files \ gone : fts'[f] = fts[f] /\ stamp'[f] = stamp[f]
    BY <1>3 DEF SyncRemove
  <2>3. Indexed' = Indexed \ gone
    BY <1>3 DEF SyncRemove, Indexed
  <2>4. InHand'
    BY <1>0, <2>1, <2>2, <2>3 DEF InHand
  <2>5. links \subseteq Row
    BY DEF TypeOK
  <2>6. ASSUME NEW r \in links' PROVE r.from \in Indexed'
    <3>1. r.from \notin gone /\ \E s \in links : s.from = r.from
      BY <2>1, <2>5, DroppedFrom
    <3> QED
      BY <1>0, <2>3, <3>1 DEF Lockstep
  <2>7. ASSUME NEW f \in Skipped', backlog[f] = Absent PROVE Match(links', f, fts'[f])
    <3>1. f \in Files \ gone
      BY <2>3 DEF Skipped, Indexed
    <3>2. f \in Skipped /\ fts'[f] = fts[f]
      BY <1>a, <2>2, <2>3, <3>1 DEF Skipped, Present
    <3>3. Match(links, f, fts[f])
      BY <1>0, <2>7, <3>2 DEF Lockstep
    <3> QED
      BY <2>1, <2>5, <3>1, <3>2, <3>3, DroppedMatch
  <2>8. Lockstep'
    BY <2>1, <2>6, <2>7 DEF Lockstep
  <2> QED
    BY <2>4, <2>8
<1>4. ASSUME SyncLinks PROVE InHand' /\ Lockstep'
  <2> DEFINE files == {f \in Files : backlog[f] # Absent}
  <2>1. phase = "links" /\ phase' = "resolve" /\ links' = StoreLinks(links, files, backlog, Indexed)
        /\ UNCHANGED <<fts, stamp, gone, todo, backlog>>
    BY <1>4 DEF SyncLinks
  <2>2. \A f \in files : f \in Indexed /\ fts[f] = backlog[f]
    BY <1>0, <2>1 DEF InHand, Fresh, Noting
  <2>3. files \in SUBSET Files /\ (\A f \in files : backlog[f] \in Texts) /\ Indexed \in SUBSET Files
        /\ Indexed' = Indexed
    BY <2>1 DEF TypeOK, TextOrNot, Indexed
  <2>4. \A f \in Files \ files : backlog[f] = Absent
    OBVIOUS
  <2> HIDE DEF files
  <2>5. InHand'
    BY <2>1 DEF InHand
  <2>6. ASSUME NEW r \in links' PROVE r.from \in Indexed'
    BY <1>0, <2>1, <2>2, <2>3, StoredFrom DEF Lockstep
  <2>7. ASSUME NEW f \in Skipped' PROVE Match(links', f, fts'[f])
    <3>1. f \in Skipped /\ f \in Files
      BY <1>a, <2>1 DEF Skipped, Indexed, Present
    <3>2. CASE f \in files
      BY <2>1, <2>2, <2>3, <3>2, StoredMatch
    <3>3. CASE f \notin files
      <4>1. Match(links, f, fts[f])
        BY <1>0, <2>4, <3>1, <3>3 DEF Lockstep
      <4>2. Outgoing(links', f) = Outgoing(links, f)
        BY <2>1, <2>3, <3>1, <3>3, StoredOthers
      <4> QED
        BY <2>1, <4>1, <4>2 DEF Match
    <3> QED
      BY <3>2, <3>3
  <2>8. Lockstep'
    BY <2>6, <2>7 DEF Lockstep
  <2> QED
    BY <2>5, <2>8
<1>5. ASSUME SyncEnd PROVE InHand' /\ Lockstep'
  <2>1. phase = "resolve" /\ phase' = "none" /\ links' \in {Unstale(links, Indexed), links}
        /\ UNCHANGED <<fts, stamp>> /\ backlog' = [f \in Files |-> Absent]
    BY <1>5 DEF SyncEnd, SyncForgets
  <2>2. InHand'
    BY <2>1 DEF InHand
  <2>3. links \subseteq Row /\ Indexed \in SUBSET Files /\ Skipped' = Skipped /\ Indexed' = Indexed
    BY <1>a, <2>1 DEF TypeOK, Indexed, Skipped, Present
  <2>4. ASSUME NEW r \in links' PROVE r.from \in Indexed
    <3>1. \E s \in links : s.from = r.from
      BY <2>1, <2>3, UnstaleFrom
    <3> QED
      BY <1>0, <3>1 DEF Lockstep
  <2>5. ASSUME NEW f \in Skipped PROVE Match(links', f, fts[f])
    <3>1. Match(links, f, fts[f])
      BY <1>0, <2>1 DEF Lockstep
    <3>2. PICK t : t = fts[f]
      OBVIOUS
    <3>3. Match(links', f, t)
      BY <2>1, <2>3, <3>1, <3>2, UnstaleMatch
    <3> QED
      BY <3>2, <3>3
  <2>6. Lockstep'
    BY <2>1, <2>3, <2>4, <2>5 DEF Lockstep
  <2> QED
    BY <2>2, <2>6
<1> QED
  BY <1>1, <1>2, <1>3, <1>4, <1>5, <1>b, FollowsParts DEF Sync, Follows, Awaiting, InHand, Lockstep

(* The write that h is to index is the only one in flight, and no sync     *)
(* runs.                                                                   *)
LEMMA HandlerAwaits ==
    ASSUME ~Background, Undisturbed, TypeOK, Fresh, Follows, NEW h \in Handlers, Handle(h)
    PROVE  ~bootDue
<1>1. InFlight(h) \/ MayStart(h)
  BY DEF Handle, Write, BeginRename, RefreshLinks, SnapshotLinks, MoveFile, IndexWrite, WarnLinks,
         GitFails, RestoreFiles, InFlight
<1> QED
  BY <1>1 DEF Follows, Quiet, MayStart, Ready

(* h leaves the others as they were, and ends up where it awaits nothing   *)
(* of the rows, or where the sync has ended and its linkers are indexed.   *)
LEMMA AwaitsOther ==
    ASSUME Fresh, Awaiting, NEW h \in Handlers, InFlight(h) \/ Quiet, ~bootDue',
           \A k \in Handlers \ {h} : hpc'[k] = hpc[k] /\ inbound'[k] = inbound[k],
           hpc'[h] = "idle" => inbound'[h] = {},
           hpc'[h] \in {"move", "index"} =>
              phase' = "none" /\ \A f \in inbound'[h] : f \in Indexed' /\ f # hreq'[h].file
    PROVE  Awaiting'
<1>1. \A k \in Handlers \ {h} : hpc[k] = "idle"
  BY DEF Fresh, OneHandler, InFlight, Quiet
<1>2. \A k \in Handlers \ {h} : hpc'[k] = "idle" /\ inbound'[k] = {}
  BY <1>1 DEF Awaiting
<1> QED
  BY <1>2 DEF Awaiting

LEMMA FinishAwaits ==
    ASSUME TypeOK, NEW h \in Handlers, Finish(h) \/ Proceed(h)
    PROVE  /\ hpc'[h] \notin {"move", "index"} /\ (hpc'[h] = "idle" => inbound'[h] = {})
           /\ \A k \in Handlers \ {h} : hpc'[k] = hpc[k] /\ inbound'[k] = inbound[k]
BY DEF TypeOK, Finish, Proceed

(* The rows after one document is indexed, removed or renamed.             *)
LEMMA IndexWriteLockstep ==
    ASSUME Undisturbed, TypeOK, TypeOK', Fresh, Follows, NEW h \in Handlers, IndexWrite(h)
    PROVE  Lockstep'
<1> USE DEF diskVars, syncVars
<1> DEFINE r == hreq[h]
           f == r.file
           g == r.dest
<1>1. /\ f \in Files /\ g \in Files /\ r.text \in Texts /\ phase = "none" /\ phase' = "none"
      /\ r.kind # "text_rename" /\ hpc[h] = "index"
      /\ links \subseteq Row /\ Indexed \in SUBSET Files /\ UNCHANGED <<text, mtime, backlog>>
  BY DEF TypeOK, Request, IndexWrite, Idle, Indexed, Undisturbed
<1>2. \A x \in Skipped : Match(links, x, fts[x])
  BY <1>1 DEF Follows
<1>3. \A s \in links : s.from \in Indexed
  BY DEF Follows
<1>4. CASE Indexes(f, r.text, links)
  <2> DEFINE content == [x \in {f} |-> r.text]
             indexed == Indexed \union {f}
  <2>1. links' = StoreLinks(links, {f}, content, indexed) /\ indexed \in SUBSET Files
        /\ {f} \in SUBSET Files /\ (\A x \in {f} : content[x] \in Texts) /\ content[f] = r.text
    BY <1>1, <1>4 DEF Indexes
  <2>2. /\ Indexed' = indexed /\ fts'[f] = r.text
        /\ \A x \in Files \ {f} : fts'[x] = fts[x] /\ stamp'[x] = stamp[x]
    BY <1>1, <1>4 DEF Indexes, Indexed, TypeOK, Time, Never
  <2> HIDE DEF content, indexed
  <2>3. \A s \in links' : s.from \in {f} \/ \E q \in links : q.from = s.from
    BY <2>1, StoredFrom
  <2>4. \A s \in links' : s.from \in Indexed'
    BY <1>1, <1>3, <2>2, <2>3 DEF indexed
  <2>5. ASSUME NEW x \in Skipped' PROVE Match(links', x, fts'[x])
    <3>1. CASE x = f
      <4>1. Match(StoreLinks(links, {f}, content, indexed), f, content[f])
        BY <2>1, StoredMatch
      <4> QED
        BY <2>1, <2>2, <3>1, <4>1
    <3>2. CASE x # f
      <4>1. x \in Skipped /\ fts'[x] = fts[x] /\ x \in Files \ {f}
        BY <1>1, <2>2, <3>2 DEF Skipped, Indexed, Present
      <4>2. Outgoing(links', x) = Outgoing(links, x)
        BY <2>1, <4>1, StoredOthers
      <4> QED
        BY <1>2, <4>1, <4>2 DEF Match
    <3> QED
      BY <3>1, <3>2
  <2> QED
    BY <2>4, <2>5 DEF Lockstep
<1>5. CASE Unindexes(f)
  <2>1. /\ links' = DropRows(links, {f}) /\ Indexed' = Indexed \ {f}
        /\ \A x \in Files \ {f} : fts'[x] = fts[x] /\ stamp'[x] = stamp[x]
    BY <1>1, <1>5 DEF Unindexes, Indexed, TypeOK
  <2>2. ASSUME NEW s \in links' PROVE s.from \in Indexed'
    <3>1. s.from \notin {f} /\ \E q \in links : q.from = s.from
      BY <1>1, <2>1, DroppedFrom
    <3> QED
      BY <1>3, <2>1, <3>1
  <2>3. ASSUME NEW x \in Skipped' PROVE Match(links', x, fts'[x])
    <3>1. x \in Skipped /\ fts'[x] = fts[x] /\ x \notin {f}
      BY <1>1, <2>1 DEF Skipped, Indexed, Present
    <3> QED
      BY <1>1, <1>2, <2>1, <3>1, DroppedMatch
  <2> QED
    BY <2>2, <2>3 DEF Lockstep
<1>6. CASE r.kind = "rename" /\ Parses(held[h]) /\ Renames(h)
  <2> DEFINE indexed == (Indexed \ {f}) \union {g}
             dropped == DropRows(links, {f})
             content == [x \in {g} |-> held[h]]
             rows == StoreLinks(dropped, {g}, content, indexed)
             linkers == {x \in inbound[h] : Parses(text[x])}
  <2>0. links' = StoreLinks(rows, linkers, text, indexed)
    BY <1>6 DEF Renames
  <2>1. f # g
    <3>1. text[f] = Absent /\ text[g] = held[h]
      BY <1>1, <1>6 DEF Fresh, Knows
    <3> QED
      BY <1>6, <3>1, TextAssumption DEF Parses
  <2>2. /\ Indexed' = indexed /\ fts'[g] = held[h] /\ indexed \in SUBSET Files
        /\ \A x \in Files \ {f, g} : fts'[x] = fts[x] /\ stamp'[x] = stamp[x]
    BY <1>1, <1>6, <2>1 DEF Renames, Indexed, TypeOK, Time, Never
  <2>3. \A x \in linkers : x \in Indexed /\ x # f /\ x \in Files /\ text[x] \in Texts
    BY <1>1 DEF Follows, Parses, Indexed
  <2>4. {g} \in SUBSET Files /\ (\A x \in {g} : content[x] \in Texts) /\ content[g] = held[h]
        /\ linkers \in SUBSET Files
    BY <1>1, <1>6, <2>3 DEF Parses
  <2>5. g \in Indexed' /\ \A x \in Indexed : x # f => x \in Indexed'
    BY <2>2
  <2>6. ASSUME NEW x \in Skipped'
        PROVE  x \in Files /\ x # f /\ (x # g => x \in Skipped /\ fts'[x] = fts[x])
               /\ (x \in linkers => fts'[x] = text[x])
    <3>1. x \in Files /\ x # f
      BY <1>1, <2>1, <2>2 DEF Skipped, Indexed
    <3>2. x # g => x \in Skipped /\ fts'[x] = fts[x]
      BY <1>1, <2>2, <3>1 DEF Skipped, Indexed, Present
    <3>3. fts'[x] = text[x]
      BY <1>1, <1>6, <2>2, <3>2 DEF Fresh, Knows, Current
    <3> QED
      BY <3>1, <3>2, <3>3
  <2>7. dropped = DropRows(links, {f}) /\ rows = StoreLinks(dropped, {g}, content, indexed)
    OBVIOUS
  <2> HIDE DEF indexed, dropped, content, rows, linkers
  <2>8. ASSUME NEW s \in dropped PROVE s.from \in Indexed'
    <3>1. s.from \notin {f} /\ \E q \in links : q.from = s.from
      BY <1>1, <2>7, DroppedFrom
    <3> QED
      BY <1>3, <2>5, <3>1
  <2>9. ASSUME NEW s \in rows PROVE s.from \in Indexed'
    <3>1. s.from \in {g} \/ \E q \in dropped : q.from = s.from
      BY <2>2, <2>4, <2>7, StoredFrom
    <3> QED
      BY <2>5, <2>8, <3>1
  <2>10. ASSUME NEW s \in links' PROVE s.from \in Indexed'
    <3>1. s.from \in linkers \/ \E q \in rows : q.from = s.from
      BY <2>0, <2>2, <2>3, <2>4, StoredFrom
    <3> QED
      BY <2>3, <2>5, <2>9, <3>1
  <2>11. ASSUME NEW x \in Skipped' PROVE Match(links', x, fts'[x])
    <3>1. CASE x \in linkers
      <4>1. Match(links', x, text[x])
        BY <2>0, <2>2, <2>3, <2>4, <3>1, StoredMatch
      <4> QED
        BY <2>6, <3>1, <4>1
    <3>2. CASE x \notin linkers
      <4>1. Outgoing(links', x) = Outgoing(rows, x)
        BY <2>0, <2>2, <2>3, <2>4, <2>6, <3>2, StoredOthers
      <4>2. Match(rows, x, fts'[x])
        <5>1. CASE x = g
          BY <2>2, <2>4, <2>7, <5>1, StoredMatch
        <5>2. CASE x # g
          <6>1. Match(dropped, x, fts[x])
            BY <1>1, <1>2, <2>6, <2>7, <5>2, DroppedMatch
          <6>2. Outgoing(rows, x) = Outgoing(dropped, x)
            BY <2>2, <2>4, <2>6, <2>7, <5>2, StoredOthers
          <6> QED
            BY <2>6, <5>2, <6>1, <6>2 DEF Match
        <5> QED
          BY <5>1, <5>2
      <4> QED
        BY <4>1, <4>2 DEF Match
    <3> QED
      BY <3>1, <3>2
  <2> QED
    BY <2>10, <2>11 DEF Lockstep
<1> QED
  BY <1>1, <1>4, <1>5, <1>6 DEF IndexWrite

LEMMA HandleFollows ==
    ASSUME ~Background, Undisturbed, TypeOK, TypeOK', Fresh, Follows, NEW h \in Handlers, Handle(h)
    PROVE  Follows'
<1> USE DEF diskVars, indexVars, syncVars, bootVars
<1>0. InHand /\ Lockstep /\ Awaiting /\ ~bootDue
  BY HandlerAwaits, FollowsParts
<1>a. ~bootDue' /\ phase = "none"
  BY <1>0 DEF Handle, Write, BeginRename, RefreshLinks, SnapshotLinks, MoveFile, IndexWrite,
         WarnLinks, GitFails, RestoreFiles, MayStart, Ready, Idle
<1>r. hreq[h].file \in Files /\ hreq[h].dest \in Files
  BY DEF TypeOK, Request
<1>b. InFlight(h) \/ Quiet
  BY DEF Handle, Write, BeginRename, RefreshLinks, SnapshotLinks, MoveFile, IndexWrite, WarnLinks,
         GitFails, RestoreFiles, InFlight, MayStart, Undisturbed
<1>1. ASSUME Write(h) PROVE Awaiting' /\ InHand' /\ Lockstep'
  <2>1. PICK r \in Request : Writes(r.file, r.text) \/ Writes(r.file, Absent)
    BY <1>1 DEF Write, Undisturbed, Request
  <2>2. Skipped' \subseteq Skipped
    BY <1>1, <2>1, SkippedAfterWrite DEF Write, Request, Fresh
  <2>3. inbound[h] = {}
    BY <1>0, <1>1 DEF Write, MayStart, Awaiting
  <2>4. \A k \in Handlers \ {h} : hpc'[k] = hpc[k] /\ inbound'[k] = inbound[k]
    BY <1>1 DEF Write, Takes, TypeOK
  <2>5. inbound'[h] = {} /\ phase' = "none"
    BY <1>1, <1>a, <2>3 DEF Write
  <2>6. Awaiting'
    BY <1>0, <1>a, <1>b, <2>4, <2>5, AwaitsOther
  <2> QED
    BY <1>0, <1>1, <2>2, <2>6, LockstepKept, InHandKept DEF Write
<1>2. ASSUME BeginRename(h) PROVE Awaiting' /\ InHand' /\ Lockstep'
  <2>1. Skipped' \subseteq Skipped
    BY <1>2 DEF BeginRename, Skipped, Indexed, Present
  <2>2. hpc'[h] = "rename" /\ \A k \in Handlers \ {h} : hpc'[k] = hpc[k] /\ inbound'[k] = inbound[k]
    BY <1>2 DEF BeginRename, Takes, TypeOK
  <2>3. Awaiting'
    BY <1>0, <1>a, <1>b, <2>2, AwaitsOther
  <2> QED
    BY <1>0, <1>2, <2>1, <2>3, LockstepKept, InHandKept DEF BeginRename
<1>3. ASSUME RefreshLinks(h) PROVE Awaiting' /\ InHand' /\ Lockstep'
  <2>1. PICK walk \in BOOLEAN : BeginSync(Root, walk, FALSE)
    BY <1>3, FolderAssumption DEF RefreshLinks, BeginRefresh
  <2>2. InHand' /\ Lockstep'
    BY <1>3, <1>a, <2>1, BeginsFollows DEF RefreshLinks
  <2>3. hpc'[h] = "snapshot" /\ \A k \in Handlers \ {h} : hpc'[k] = hpc[k] /\ inbound'[k] = inbound[k]
    BY <1>3 DEF RefreshLinks, TypeOK
  <2> QED
    BY <1>0, <1>a, <1>b, <2>2, <2>3, AwaitsOther
<1>4. ASSUME SnapshotLinks(h) PROVE Awaiting' /\ InHand' /\ Lockstep'
  <2>1. Skipped' \subseteq Skipped
    BY <1>4 DEF SnapshotLinks, Skipped, Indexed, Present
  <2>2. hpc'[h] = "move" /\ \A k \in Handlers \ {h} : hpc'[k] = hpc[k] /\ inbound'[k] = inbound[k]
    BY <1>4 DEF SnapshotLinks, TypeOK
  <2>3. \A f \in inbound'[h] : \E r \in links : f = r.from /\ r.to = hreq[h].file /\ r.from # r.to
    BY <1>4 DEF SnapshotLinks, TypeOK
  <2>4. UNCHANGED <<stamp, hreq, phase>>
    BY <1>4 DEF SnapshotLinks
  <2>5. \A f \in inbound'[h] : f \in Indexed' /\ f # hreq'[h].file
    BY <1>0, <2>3, <2>4 DEF Lockstep, Indexed
  <2>6. phase' = "none"
    BY <1>a, <2>4
  <2>7. Awaiting'
    BY <1>0, <1>a, <1>b, <2>2, <2>5, <2>6, AwaitsOther
  <2> QED
    BY <1>0, <1>4, <2>1, <2>7, LockstepKept, InHandKept DEF SnapshotLinks
<1>5. ASSUME MoveFile(h) PROVE Awaiting' /\ InHand' /\ Lockstep'
  <2>1. text[hreq[h].file] = held[h] /\ held[h] # Absent /\ hreq[h].dest \notin Indexed
    BY <1>5 DEF MoveFile, Fresh, Knows, Moving
  <2>2. Moves(hreq[h].file, hreq[h].dest) /\ hpc' = [hpc EXCEPT ![h] = "index"]
        /\ UNCHANGED <<hreq, inbound, stamp, phase>>
    BY <1>5, <2>1 DEF MoveFile
  <2>3. Skipped' \subseteq Skipped
    BY <1>r, <2>1, <2>2, SkippedAfterMove
  <2>4. \A f \in inbound[h] : f \in Indexed /\ f # hreq[h].file
    BY <1>0, <1>5 DEF Awaiting, MoveFile
  <2>5. \A k \in Handlers \ {h} : hpc'[k] = hpc[k] /\ inbound'[k] = inbound[k]
    BY <2>2 DEF TypeOK
  <2>6. hpc'[h] = "index"
    BY <2>2 DEF TypeOK
  <2>7. Awaiting'
    BY <1>0, <1>a, <1>b, <2>2, <2>4, <2>5, <2>6, AwaitsOther DEF Indexed
  <2> QED
    BY <1>0, <1>5, <2>3, <2>7, LockstepKept, InHandKept DEF MoveFile
<1>6. ASSUME IndexWrite(h) PROVE Awaiting' /\ InHand' /\ Lockstep'
  <2>1. Lockstep'
    BY <1>6, IndexWriteLockstep
  <2>2. InHand'
    BY <1>0, <1>6, <1>a DEF IndexWrite, InHand
  <2>3. /\ hpc'[h] \notin {"move", "index"} /\ (hpc'[h] = "idle" => inbound'[h] = {})
        /\ \A k \in Handlers \ {h} : hpc'[k] = hpc[k] /\ inbound'[k] = inbound[k]
    <3>1. CASE Proceed(h)
      BY <3>1, FinishAwaits
    <3>2. CASE ~Proceed(h)
      BY <1>6, <3>2 DEF IndexWrite, TypeOK
    <3> QED
      BY <3>1, <3>2
  <2> QED
    BY <1>0, <1>a, <1>b, <2>1, <2>2, <2>3, AwaitsOther
<1>7. ASSUME WarnLinks(h) PROVE Awaiting' /\ InHand' /\ Lockstep'
  <2>1. InHand' /\ Lockstep'
    <3>1. CASE BeginRefresh(Root)
      <4>1. PICK walk \in BOOLEAN : BeginSync(Root, walk, FALSE)
        BY <3>1, FolderAssumption DEF BeginRefresh
      <4> QED
        BY <1>7, <1>a, <4>1, BeginsFollows DEF WarnLinks
    <3>2. CASE UNCHANGED syncVars
      <4>1. Skipped' \subseteq Skipped
        BY <1>7 DEF WarnLinks, Skipped, Indexed, Present
      <4> QED
        BY <1>0, <1>7, <3>2, <4>1, LockstepKept, InHandKept DEF WarnLinks
    <3> QED
      BY <1>7, <3>1, <3>2 DEF WarnLinks
  <2>2. /\ hpc'[h] \notin {"move", "index"} /\ (hpc'[h] = "idle" => inbound'[h] = {})
        /\ \A k \in Handlers \ {h} : hpc'[k] = hpc[k] /\ inbound'[k] = inbound[k]
    BY <1>7, FinishAwaits DEF WarnLinks
  <2> QED
    BY <1>0, <1>a, <1>b, <2>1, <2>2, AwaitsOther
<1>8. ASSUME GitFails(h) \/ RestoreFiles(h) PROVE Awaiting' /\ InHand' /\ Lockstep'
  <2>1. Skipped' \subseteq Skipped
    <3>1. CASE RestoreFiles(h)
      BY <3>1, SkippedAfterRestore DEF Fresh
    <3>2. CASE GitFails(h)
      BY <3>2 DEF GitFails, Skipped, Indexed, Present
    <3> QED
      BY <1>8, <3>1, <3>2
  <2>2. /\ hpc'[h] \notin {"move", "index"} /\ (hpc'[h] = "idle" => inbound'[h] = {})
        /\ \A k \in Handlers \ {h} : hpc'[k] = hpc[k] /\ inbound'[k] = inbound[k]
    BY <1>8, FinishAwaits DEF GitFails, RestoreFiles
  <2>3. Awaiting'
    BY <1>0, <1>a, <1>b, <2>2, AwaitsOther
  <2> QED
    BY <1>0, <1>8, <2>1, <2>3, LockstepKept, InHandKept DEF GitFails, RestoreFiles
<1>9. Awaiting' /\ InHand' /\ Lockstep'
  BY <1>1, <1>2, <1>3, <1>4, <1>5, <1>6, <1>7, <1>8 DEF Handle
<1> QED
  BY <1>9 DEF Follows, Awaiting, InHand, Lockstep

(* Steps of the startup, of the embedding service and of other programs.   *)
LEMMA NextFollows ==
    ASSUME ~Background, MaxCrashes = 0, Undisturbed, TypeOK, TypeOK', Fresh, Follows, [Next]_vars
    PROVE  Follows'
<1> USE DEF diskVars, indexVars, syncVars, callVars, bootVars
<1>0. InHand /\ Lockstep /\ Awaiting
  BY FollowsParts
<1>f. Awaiting' /\ InHand' /\ Lockstep' => Follows'
  BY DEF Follows, Awaiting, InHand, Lockstep
<1>q. Quiet => \A h \in Handlers : hpc[h] = "idle"
  BY DEF Quiet, InFlight
<1>1. ASSUME NEW scope \in Folders \union Files, Search(scope) PROVE Follows'
  <2>1. PICK walk \in BOOLEAN : BeginSync(Widened(scope), walk, FALSE)
    BY <1>1, RefreshIsSync DEF Search
  <2>2. InHand' /\ Lockstep'
    BY <1>1, <2>1, BeginsFollows DEF Search, Ready, Idle
  <2>3. Awaiting'
    BY <1>0, <1>1, <1>q DEF Search, Undisturbed, Awaiting, Quiet, InFlight
  <2> QED
    BY <1>f, <2>2, <2>3
<1>2. ASSUME BootSync PROVE Follows'
  <2>1. BeginSync(Root, TRUE, TRUE) /\ phase = "none" /\ Quiet
    BY <1>0, <1>2 DEF BootSync, Idle, Awaiting
  <2>2. InHand' /\ Lockstep'
    BY <1>2, <2>1, BeginsFollows DEF BootSync
  <2>3. Awaiting'
    BY <1>0, <1>2, <1>q, <2>1 DEF BootSync, Awaiting
  <2> QED
    BY <1>f, <2>2, <2>3
<1>3. ASSUME EmbedStart \/ (\E f \in Files : EmbedAnswer(f)) \/ Tick \/ UNCHANGED vars
      PROVE  Follows'
  <2>1. /\ UNCHANGED <<text, mtime, fts, stamp, links, phase, backlog, gone, todo, hpc, hreq, inbound,
                       bootDue>>
    BY <1>3 DEF EmbedStart, EmbedAnswer, Tick, vars
  <2>2. Skipped' \subseteq Skipped
    BY <2>1 DEF Skipped, Indexed, Present
  <2>3. Awaiting'
    BY <1>0, <2>1 DEF Awaiting, Quiet, InFlight, Indexed
  <2> QED
    BY <1>0, <1>f, <2>1, <2>2, <2>3, LockstepKept, InHandKept
<1>4. ASSUME NEW f \in Files, Outside(f) PROVE Follows'
  <2>1. PICK t \in TextOrNot : Writes(f, t)
    BY <1>4 DEF Outside
  <2>2. Skipped' \subseteq Skipped
    BY <1>4, <2>1, SkippedAfterWrite DEF Outside, Fresh
  <2>3. Awaiting'
    BY <1>0, <1>4 DEF Outside, Awaiting, Quiet, InFlight, Indexed
  <2> QED
    BY <1>0, <1>4, <1>f, <2>2, <2>3, LockstepKept, InHandKept DEF Outside
<1>5. ~Crash
  BY DEF Crash, TypeOK
<1> QED
  BY <1>1, <1>2, <1>3, <1>4, <1>5, SyncFollows, HandleFollows DEF Next

(* With one writer at a time, startup before the first request and no      *)
(* crash: whatever other programs write, every row comes from an indexed   *)
(* document, and a document that a refresh will pass over has the rows of  *)
(* the text it is indexed with, after edits, moves and removals            *)
(* (link-storage.ts:7-9).                                                  *)
THEOREM LinksStayInLockstep ==
    ASSUME Undisturbed, ~Background, MaxCrashes = 0
    PROVE  Spec => []LinksFollowText
<1>1. FreshInv /\ FreshInv' /\ Follows /\ [Next]_vars => Follows'
  BY NextFollows DEF FreshInv
<1>2. Follows => LinksFollowText
  BY DEF Follows, LinksFollowText, Match, Idle
<1> QED
  BY <1>1, <1>2, InitFollows, FreshInvariant, PTL DEF Spec
=============================================================================
