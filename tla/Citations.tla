----------------------------- MODULE Citations -----------------------------
(***************************************************************************)
(* doc_cite and doc_cite_reverify: fetch a source, look for the quote in it, *)
(* allocate a number in the registry, append the reference line to the       *)
(* target document.  A member of Calls is one tool call; its pc names what   *)
(* it awaits.  Sources change, other clients edit the targets, the network,  *)
(* the file system and git fail, and the process may die at any await.       *)
(***************************************************************************)
EXTENDS CiteText, FiniteSets

CONSTANTS Calls,
          Limiters,    \* rate limiters: one per MCP server
          Callers,
          Targets,     \* documents that can be cited into
          GitTargets,  \* those in a root under git
          Spellings,   \* what callers write as target_file, absolute paths made relative
          FileOf,      \* spelling |-> the document that resolveFilePath and safePath make of it
          Opening,     \* target |-> its lines at the start
          Additions,   \* target |-> lines other clients add to it
          Sources,
          Kind,        \* source |-> "web", "literal", "refused", "file", "managed", "indirect",
                       \* "outside", "pdf".  A source is a URI as it is written; an "indirect"
                       \* file:// path lies in a root only once it is resolved.
          Unprintable, \* sources whose URI has white space or "]"
          Published,   \* source |-> its text
          Revisions,   \* source |-> what it may be instead later, Gone included
          RequireRead, \* require_read_before_write
          PerMinute,   \* rate_limit.external_per_minute
          Window,      \* the window of the limiter, in ticks
          MaxNow, MaxEdits, MaxChanges, MaxFaults,  \* bounds
          NoTarget, NoEtag, Gone, NoCall

ASSUME CiteAssumption ==
    /\ GitTargets \subseteq Targets /\ NoTarget \notin Spellings
    /\ FileOf \in [Spellings -> Targets]
    /\ PerMinute \in Nat /\ Window \in Nat \ {0}

(* A reference line of a document is one that doc_cite has written: neither   *)
(* the documents of the start nor other clients bring any.                  *)
ASSUME LinesAssumption ==
    /\ Opening = [t \in Targets |-> Opening[t]]
    /\ \A t \in Targets :
         /\ Opening[t] \in Seq(Range(Opening[t]))
         /\ \A line \in Range(Opening[t]) \union Additions[t] :
              line.level \in Nat /\ "no" \notin DOMAIN line

VARIABLES call,     \* the calls
          rows,     \* table citations; the position is the rowid
          audit,    \* table cite_audit_log
          docs,     \* target |-> its lines
          bucket,   \* limiter |-> caller |-> times of the window
          granted,  \* history: limiter |-> caller |-> all grants of this process
          source,   \* source |-> its text, or Gone
          now, edits, changes, faults

citeVars == <<call, rows, audit, docs, bucket, granted, source, now, edits, changes, faults>>

NotBegun == [pc |-> "idle", req |-> NoCall, by |-> NoCall, page |-> <<>>, row |-> 0,
         held |-> <<>>, answer |-> "none", appended |-> FALSE]

CiteInit ==
    /\ call = [c \in Calls |-> NotBegun]
    /\ rows = <<>>
    /\ audit = {}
    /\ docs = Opening
    /\ bucket = [l \in Limiters |-> [k \in Callers |-> <<>>]]
    /\ granted = bucket
    /\ source = Published
    /\ now = 0 /\ edits = 0 /\ changes = 0 /\ faults = 0

-----------------------------------------------------------------------------
(* Answers.  A call that throws leaves nothing in the audit log.            *)

Done(c, answer) == [call EXCEPT ![c] = [@ EXCEPT !.pc = "done", !.answer = answer,
                                                !.page = <<>>, !.held = <<>>]]

Answer(c, answer) ==
    /\ call' = Done(c, answer)
    /\ audit' = audit \union {<<c, answer>>}

Throw(c) ==
    /\ call' = Done(c, "thrown")
    /\ UNCHANGED audit

Await(c, pc) == call' = [call EXCEPT ![c].pc = pc] /\ UNCHANGED audit

-----------------------------------------------------------------------------
(* The registry.  Its key is target_file as the caller wrote it.             *)

Numbers(target) == {rows[i].no : i \in {j \in DOMAIN rows : rows[j].target = target}}

(* COALESCE(MAX(citation_number), 0) + 1 over the rows of the target.        *)
NextNumber(target) ==
    CHOOSE n \in 1..Len(rows) + 1 : /\ \A m \in Numbers(target) : m < n
                                    /\ n = 1 \/ n - 1 \in Numbers(target)

(* The first row of the same target, source hash and quote.                 *)
Duplicates(r, page) ==
    {i \in DOMAIN rows : /\ ~r.force /\ r.target # NoTarget
                         /\ rows[i].target = r.target
                         /\ rows[i].hash = page /\ rows[i].quote = r.quote}

(* The place of the row a cite ends up with, the first duplicate or a new one,*)
(* and the source that row names.                                           *)
RowOf(r, page) ==
    LET old == Duplicates(r, page) IN
    IF old = {} THEN Len(rows) + 1 ELSE CHOOSE i \in old : \A j \in old : i <= j

CitedSource(r, page) ==
    IF RowOf(r, page) > Len(rows) THEN r.source ELSE rows[RowOf(r, page)].uri

NewRow(r, page, status) ==
    [target |-> r.target, no |-> NextNumber(r.target), uri |-> r.source, hash |-> page,
     quote |-> r.quote, status |-> status, checked |-> <<>>]

Reference(row) == [level |-> 0, no |-> row.no, uri |-> row.uri, hash |-> row.hash]

-----------------------------------------------------------------------------
(* CiteRateLimiter.                                                         *)

(* Fault to detect: an attempt leaves the window one tick early.            *)
Recent_Short(times) ==
    FoldLeft(LAMBDA kept, t : IF t > now - Window + 1 THEN Append(kept, t) ELSE kept, <<>>, times)

Recent(times) ==
    FoldLeft(LAMBDA kept, t : IF t > now - Window THEN Append(kept, t) ELSE kept, <<>>, times)

(* tryAcquire for the caller k: granted, or the trimmed bucket is put back.  *)
TryAcquire(l, k) ==
    LET kept == Recent(bucket[l][k]) IN
    \/ /\ Len(kept) < PerMinute
       /\ bucket' = [bucket EXCEPT ![l][k] = Append(kept, now)]
       /\ granted' = [granted EXCEPT ![l][k] = Append(@, now)]
    \/ /\ Len(kept) >= PerMinute
       /\ bucket' = [bucket EXCEPT ![l][k] = kept]
       /\ UNCHANGED granted

Acquired(l, k) == Len(Recent(bucket[l][k])) < PerMinute

-----------------------------------------------------------------------------
(* A call begins.  A request is [op, source, quote, target, force, etag, id];*)
(* `who` is [id, perms, limiter].  An etag is the content it stands for.    *)

Web(s) == Kind[s] \in {"web", "literal", "refused"}

(* read is asked for where filePathToPrefixed finds a root in the path as it  *)
(* is written; fetchFile resolves the path first, and then looks for a root.  *)
MayFetch(who, s, target) ==
    /\ <<IF Web(s) THEN "cite_web" ELSE "cite", target>> \in who.perms
    /\ Kind[s] \in {"managed", "file"} => <<"read", s>> \in who.perms

(* What doc_cite asks before it fetches: permissions, and an etag that fits. *)
Preflight(r, who) ==
    /\ MayFetch(who, r.source, r.target)
    /\ r.target # NoTarget =>
         /\ <<"write", r.target>> \in who.perms
         /\ r.etag \/ ~RequireRead

(* The etag the client sends: of the document as it is, or none.            *)
EtagOf(r) == IF r.target = NoTarget \/ ~r.etag THEN NoEtag ELSE docs[FileOf[r.target]]

(* fetchSource up to its first await; fetchHttp asks the limiter first.     *)
StartFetch(c, r, who, id) ==
    LET k == Kind[r.source]
        begun(pc) == [NotBegun EXCEPT !.pc = pc, !.req = [r EXCEPT !.etag = EtagOf(r)],
                                  !.by = who, !.row = id]
        ends(answer) == /\ call' = [call EXCEPT ![c] = [begun("done") EXCEPT !.answer = answer]]
                        /\ audit' = audit \union {<<c, answer>>}
        awaits(pc) == call' = [call EXCEPT ![c] = begun(pc)] /\ UNCHANGED audit
    IN  \/ Web(r.source) /\ TryAcquire(who.limiter, who.id)
           /\ \/ ~Acquired(who.limiter, who.id) /\ ends("rate_limited")
              \/ Acquired(who.limiter, who.id)
                 /\ CASE k = "refused" -> ends("source_blocked")
                      [] k = "literal" -> awaits("request")
                      [] k = "web"     -> awaits("dns")
        \/ ~Web(r.source) /\ UNCHANGED <<bucket, granted>>
           /\ CASE k = "pdf"     -> ends("source_not_readable")
                [] k = "outside" -> ends("source_blocked")
                [] OTHER         -> awaits("local")

Submit(c, r, who) ==
    /\ call[c] = NotBegun
    /\ r.op = "cite"
    /\ Preflight(r, who)
    /\ StartFetch(c, r, who, 0)
    /\ UNCHANGED <<rows, docs, source, now, edits, changes, faults>>

(* A refused preflight throws, and nothing has happened.  (A stale etag is    *)
(* refused here too.)                                                       *)
Refuse(c, r, who) ==
    /\ call[c] = NotBegun
    /\ r.op = "cite" /\ ~Preflight(r, who)
    /\ call' = [call EXCEPT ![c] = [NotBegun EXCEPT !.pc = "done", !.req = r, !.by = who,
                                               !.answer = "thrown"]]
    /\ UNCHANGED <<rows, audit, docs, bucket, granted, source, now, edits, changes, faults>>

(* doc_cite_reverify of an id that is not there, or that it may not fetch.   *)
RefuseReverify(c, r, who) ==
    /\ call[c] = NotBegun
    /\ r.op = "reverify"
    /\ \E answer \in {"unknown", "thrown"} :
         /\ answer = "thrown" => \E id \in DOMAIN rows : ~MayFetch(who, rows[id].uri, rows[id].target)
         /\ call' = [call EXCEPT ![c] = [NotBegun EXCEPT !.pc = "done", !.req = r, !.by = who,
                                                    !.answer = answer]]
    /\ UNCHANGED <<rows, audit, docs, bucket, granted, source, now, edits, changes, faults>>

(* doc_cite_reverify: the row is looked up before the fetch.                *)
Reverify(c, r, who) ==
    /\ call[c] = NotBegun
    /\ r.op = "reverify"
    /\ \E id \in DOMAIN rows :
         /\ MayFetch(who, rows[id].uri, rows[id].target)
         /\ LET row == rows[id] IN
            StartFetch(c, [r EXCEPT !.source = row.uri, !.quote = row.quote,
                                    !.target = row.target], who, id)
    /\ UNCHANGED <<rows, docs, source, now, edits, changes, faults>>

-----------------------------------------------------------------------------
(* The fetch.  Whatever the network does wrong ends in a reason.            *)

DnsAnswers(c) ==
    /\ call[c].pc = "dns"
    /\ Await(c, "request") \/ Answer(c, "source_blocked")
    /\ UNCHANGED <<rows, docs, bucket, granted, source, now, edits, changes, faults>>

(* The headers: fetch errors, bad statuses, too long, not a text.           *)
HeadersArrive(c) ==
    LET s == call[c].req.source IN
    /\ call[c].pc = "request"
    /\ \/ /\ source[s] # Gone
          /\ call' = [call EXCEPT ![c].pc = "body", ![c].page = source[s]]
          /\ UNCHANGED <<audit, faults>>
       \/ source[s] = Gone /\ Answer(c, "source_not_found") /\ UNCHANGED faults
       \/ /\ faults < MaxFaults /\ faults' = faults + 1
          /\ \E reason \in {"source_not_found", "source_blocked", "source_too_large",
                            "source_not_readable"} : Answer(c, reason)
    /\ UNCHANGED <<rows, docs, bucket, granted, source, now, edits, changes>>

-----------------------------------------------------------------------------
(* The rest of doc_cite, after the fetch, up to its next await.             *)

(* verifyQuote did not find it.                                             *)
NotQuoted(c, page) ==
    /\ VerifyQuote(page, call[c].req.quote) = "not_found"
    /\ Answer(c, "not_found")
    /\ UNCHANGED <<rows, docs>>

(* The row is stored; the line cannot be formatted.                         *)
Unformatted(c, page) ==
    LET r == call[c].req
        v == VerifyQuote(page, r.quote)
    IN  /\ v # "not_found"
        /\ CitedSource(r, page) \in Unprintable
        /\ rows' = IF Duplicates(r, page) # {} THEN rows ELSE Append(rows, NewRow(r, page, v))
        /\ Throw(c)
        /\ UNCHANGED docs

(* A duplicate, a warning or a call without a target: no line to append.    *)
CitedOnly(c, page) ==
    LET r == call[c].req
        v == VerifyQuote(page, r.quote)
        answer == IF v = "verified" THEN v ELSE "warning"
    IN  /\ v # "not_found" /\ CitedSource(r, page) \notin Unprintable
        /\ \/ Duplicates(r, page) # {} /\ UNCHANGED rows
           \/ /\ Duplicates(r, page) = {}
              /\ v # "verified" \/ r.target = NoTarget
              /\ rows' = Append(rows, NewRow(r, page, v))
        /\ call' = [Done(c, answer) EXCEPT ![c].row = RowOf(r, page)]
        /\ audit' = audit \union {<<c, answer>>}
        /\ UNCHANGED docs

(* Fault to detect: every write awaits something between reading and writing. *)
AwaitsGit_Always(file) == file \in Targets

(* executeWrite awaits the current branch, in a root under git only.        *)
AwaitsGit(file) == file \in GitTargets

(* A new verified row with a target: the document is loaded again and the    *)
(* etag compared again; the text with the line is validated and written,     *)
(* under git after an await.  The row is stored before all that.            *)
CitedInto(c, page) ==
    LET r    == call[c].req
        file == FileOf[r.target]
        row  == NewRow(r, page, "verified")
        text == BuildCitationAppend(docs[file], Reference(row))
        ours == [call EXCEPT ![c].row = Len(rows) + 1]
        fits == r.etag \in {NoEtag, docs[file]}
    IN  /\ VerifyQuote(page, r.quote) = "verified" /\ r.source \notin Unprintable
        /\ r.target # NoTarget /\ Duplicates(r, page) = {}
        /\ rows' = Append(rows, row)
        /\ \/ /\ ~fits \/ (~AwaitsGit(file) /\ ~Valid(text))
              /\ call' = [ours EXCEPT ![c].pc = "done", ![c].answer = "thrown", ![c].page = <<>>]
              /\ UNCHANGED <<docs, audit>>
           \/ /\ fits /\ AwaitsGit(file)
              /\ call' = [ours EXCEPT ![c].pc = "branch", ![c].held = text, ![c].page = <<>>]
              /\ UNCHANGED <<docs, audit>>
           \/ /\ fits /\ ~AwaitsGit(file) /\ Valid(text)
              /\ docs' = [docs EXCEPT ![file] = text]
              /\ call' = [ours EXCEPT ![c].pc = "done", ![c].answer = "verified",
                                      ![c].appended = TRUE, ![c].page = <<>>]
              /\ audit' = audit \union {<<c, "verified">>}

(* Fault to detect: the hash that was cited is brought up to date as well.   *)
Reverified_Overwrites(c, page) ==
    /\ rows' = [rows EXCEPT ![call[c].row].checked = page, ![call[c].row].hash = page]
    /\ Answer(c, IF page = rows[call[c].row].hash THEN "unchanged" ELSE "drifted")
    /\ UNCHANGED docs

(* doc_cite_reverify notes what it found and answers.                       *)
Reverified(c, page) ==
    /\ rows' = [rows EXCEPT ![call[c].row].checked = page]
    /\ Answer(c, IF page = rows[call[c].row].hash THEN "unchanged" ELSE "drifted")
    /\ UNCHANGED docs

Fetched(c, page) ==
    \/ /\ call[c].req.op = "cite"
       /\ \/ NotQuoted(c, page) \/ Unformatted(c, page)
          \/ CitedOnly(c, page) \/ CitedInto(c, page)
    \/ call[c].req.op = "reverify" /\ Reverified(c, page)

(* The body: all of it, too much of it, or an error that nobody catches.    *)
BodyArrives(c) ==
    /\ call[c].pc = "body"
    /\ \/ Fetched(c, call[c].page) /\ UNCHANGED faults
       \/ /\ faults < MaxFaults /\ faults' = faults + 1
          /\ Answer(c, "source_too_large") \/ Throw(c)
          /\ UNCHANGED <<rows, docs>>
    /\ UNCHANGED <<bucket, granted, source, now, edits, changes>>

(* readFile of a source inside a root.                                      *)
FileRead(c) ==
    LET s == call[c].req.source IN
    /\ call[c].pc = "local"
    /\ \/ source[s] # Gone /\ Fetched(c, source[s]) /\ UNCHANGED faults
       \/ /\ source[s] = Gone /\ Answer(c, "source_not_found")
          /\ UNCHANGED <<rows, docs, faults>>
       \/ /\ faults < MaxFaults /\ faults' = faults + 1
          /\ Answer(c, "source_not_readable") /\ UNCHANGED <<rows, docs>>
    /\ UNCHANGED <<bucket, granted, source, now, edits, changes>>

-----------------------------------------------------------------------------
(* executeWrite in a root under git (Workspace has its steps in detail).    *)

(* The content computed before the await is validated and written.          *)
BranchKnown(c) ==
    /\ call[c].pc = "branch"
    /\ \/ ~Valid(call[c].held) /\ Throw(c) /\ UNCHANGED <<docs, faults>>
       \/ /\ Valid(call[c].held)
          /\ docs' = [docs EXCEPT ![FileOf[call[c].req.target]] = call[c].held]
          /\ Await(c, "commit") /\ UNCHANGED faults
       \/ faults < MaxFaults /\ faults' = faults + 1 /\ Throw(c) /\ UNCHANGED docs
    /\ UNCHANGED <<rows, bucket, granted, source, now, edits, changes>>

Committed(c) ==
    /\ call[c].pc = "commit"
    /\ \/ /\ call' = [Done(c, "verified") EXCEPT ![c].appended = TRUE]
          /\ audit' = audit \union {<<c, "verified">>}
          /\ UNCHANGED faults
       \/ faults < MaxFaults /\ faults' = faults + 1 /\ Throw(c)
    /\ UNCHANGED <<rows, docs, bucket, granted, source, now, edits, changes>>

-----------------------------------------------------------------------------
(* The surroundings.                                                        *)

Tick ==
    /\ now < MaxNow /\ now' = now + 1
    /\ UNCHANGED <<call, rows, audit, docs, bucket, granted, source, edits, changes, faults>>

(* A source is published anew, or goes away.                                *)
SourceChanges ==
    /\ changes < MaxChanges /\ changes' = changes + 1
    /\ \E s \in Sources : \E t \in Revisions[s] : source' = [source EXCEPT ![s] = t]
    /\ UNCHANGED <<call, rows, audit, docs, bucket, granted, now, edits, faults>>

(* Another client adds a line to a document.                                *)
OtherEdit ==
    /\ edits < MaxEdits /\ edits' = edits + 1
    /\ \E t \in Targets : \E line \in Additions[t] : docs' = [docs EXCEPT ![t] = Append(@, line)]
    /\ UNCHANGED <<call, rows, audit, bucket, granted, source, now, changes, faults>>

Lost(k) == IF k.pc \in {"idle", "done"} THEN k ELSE [k EXCEPT !.pc = "done", !.answer = "lost",
                                                        !.page = <<>>, !.held = <<>>]

(* The process ends: the calls and the limiters are gone, the rest is stored. *)
ProcessEnds ==
    /\ call' = [c \in Calls |-> Lost(call[c])]
    /\ bucket' = [l \in Limiters |-> [k \in Callers |-> <<>>]]
    /\ granted' = bucket'
    /\ UNCHANGED <<rows, audit, docs, source, now, edits, changes, faults>>

Begin(c, r, who) ==
    Submit(c, r, who) \/ Refuse(c, r, who) \/ Reverify(c, r, who) \/ RefuseReverify(c, r, who)

CiteStep(c) == DnsAnswers(c) \/ HeadersArrive(c) \/ BodyArrives(c) \/ FileRead(c)
           \/ BranchKnown(c) \/ Committed(c)

-----------------------------------------------------------------------------
(* Properties.                                                              *)

ReferencesIn(lines) == {i \in DOMAIN lines : "no" \in DOMAIN lines[i]}

InCitations(lines, i) ==
    \E h \in CiteHeadings(lines) : h < i /\ i < SectionEnd(lines, h)

(* The rows a reference line of the document t can stand for.                *)
RowsFor(t, line) ==
    {n \in DOMAIN rows : /\ rows[n].target \in Spellings /\ FileOf[rows[n].target] = t
                         /\ rows[n].no = line.no
                         /\ rows[n].uri = line.uri /\ rows[n].hash = line.hash
                         /\ VerifyQuote(line.hash, rows[n].quote) = "verified"}

(* A reader who follows a reference line finds it: whatever overlaps, fails  *)
(* or dies, each line of a document has a registry row with its number, its  *)
(* source and its hash and a quote that was found there, two lines have two  *)
(* rows, no number is used twice under one spelling of target_file, and the  *)
(* line stands in the Citations section.  So two lines with one number were  *)
(* cited under two spellings.  (registry.ts allocateAndInsertCitation,       *)
(* doc-cite.ts steps 4 to 6, doc-cite-reverify.ts.)                          *)
ReferencesResolve ==
    /\ \A t \in Targets : \A i \in ReferencesIn(docs[t]) :
         /\ RowsFor(t, docs[t][i]) # {}
         /\ \A j \in ReferencesIn(docs[t]) : i # j =>
              \E m \in RowsFor(t, docs[t][i]), n \in RowsFor(t, docs[t][j]) : m # n
         /\ InCitations(docs[t], i)
    /\ \A m, n \in DOMAIN rows :
         m # n /\ rows[m].target = rows[n].target => rows[m].no # rows[n].no

HasLine(t, row) == \E i \in DOMAIN docs[t] : docs[t][i] = Reference(row)

(* Where no await separates reading and writing, that is without git, a call *)
(* that says it appended its line has: neither another cite nor an edit of   *)
(* another client takes it away again.  (doc-cite.ts step 6, executeWrite.)  *)
AppendedStays ==
    \A c \in Calls : call[c].appended =>
        LET file == FileOf[call[c].req.target] IN
        file \notin GitTargets => HasLine(file, rows[call[c].row])

(* A sliding window: in no Window ticks does one limiter let one caller make *)
(* more than PerMinute attempts, those that fail later included.            *)
(* (rate-limit.ts tryAcquire, fetch-source.ts fetchHttp.)                    *)
RateHolds ==
    \A l \in Limiters, k \in Callers, t \in 0..MaxNow :
        Cardinality({i \in DOMAIN granted[l][k] : granted[l][k][i] \in t..t + Window - 1})
            <= PerMinute

(* doc-cite.ts:39 says that on a verified cite the tool appends the reference *)
(* line to the target.  The code stores the row first: when the write is      *)
(* refused, the retry finds a duplicate, answers verified and appends nothing. *)
VerifiedHasItsLine ==
    \A c \in Calls :
        call[c].answer = "verified" /\ call[c].req.target \in Spellings =>
            LET file == FileOf[call[c].req.target] IN
            file \notin GitTargets => HasLine(file, rows[call[c].row])

(* README.md:433 says that every cite attempt is recorded, successful or      *)
(* denied.  A call that throws is not: doc-cite.ts has no try around it.      *)
EveryAttemptIsAudited ==
    \A c \in Calls : call[c].pc = "done" /\ call[c].answer # "lost"
        => \E a \in audit : a[1] = c

(* doc-cite.ts:45 says that citing the same (target_file, source, quote)      *)
(* returns the citation that is there.  Rows are found by the hash of the     *)
(* text, not by the source: a second source with the same text is answered    *)
(* with the row of the first.                                                *)
AnsweredWithItsSource ==
    \A c \in Calls : call[c].answer = "verified" => rows[call[c].row].uri = call[c].req.source

(* registry.ts:49 calls the number sequential per target.  The key is the     *)
(* target_file as it was written: a document that is cited into under two     *)
(* spellings has two lines with the number 1.                               *)
NumbersDiffer ==
    \A t \in Targets : \A i, j \in ReferencesIn(docs[t]) :
        i # j => docs[t][i].no # docs[t][j].no
=============================================================================
