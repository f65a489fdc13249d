----------------------------- MODULE Workspace -----------------------------
(***************************************************************************)
(* The write path of one document root: the tool handlers that change      *)
(* documents (executeWrite and the doc_/text_ create, rename and delete    *)
(* handlers) and the proposal handlers that merge or delete what they      *)
(* proposed.  Every handler is an async function on one shared working     *)
(* tree; nothing locks the tree, so other handlers run at every await.     *)
(*                                                                         *)
(* A call is one tool call.  pc[c] names the git process the handler       *)
(* awaits, or the continuation that is due after it; each action is one    *)
(* such process or one such continuation.  Roots without a git remote:     *)
(* pushProposalBranch and the pr_hook return at once and do nothing.       *)
(***************************************************************************)
EXTENDS GitRepo

CONSTANTS
    Callers,        \* authenticated identities
    Stamps,         \* seconds that buildProposalBranch may read off the clock
    Perms,          \* caller -> file -> how its scopes let it write there
    Approvers,      \* file -> who has "approve" on the path that
                    \* parseProposalBranch reads off a proposal for the file
    Menu,           \* call -> the requests it may turn out to be
    GitEnabled,     \* git.available of this root
    RequireRead,    \* config.require_read_before_write
    Exclusive,      \* TRUE: one client that awaits each answer (stdio);
                    \* FALSE: sessions that overlap (HTTP)
    MaxFaults,      \* bound: git commands that fail for outside reasons
    MaxCrashes      \* bound: crashes of the server process

Proposals == Callers \X Files \X Stamps      \* propose/{caller}/{file}/{time}
EditKinds   == {"edit"}
CreateKinds == {"create", "text_create"}
RenameKinds == {"rename", "text_rename"}
WriteKinds  == EditKinds \union CreateKinds \union RenameKinds \union {"delete"}
ReviewKinds == {"approve", "reject"}

(* valid says whether parser.validate accepts the content of the request.  *)
Request == [kind   : WriteKinds \union ReviewKinds,
            caller : Callers,
            file   : Files,
            dest   : Files,
            asked  : {"none", "write", "propose"},
            valid  : BOOLEAN]

Permission == {"write", "propose"}
Pc == {"idle", "ready", "status", "branch", "write", "add", "commit", "index",
       "mergecheck", "checkout", "merge", "revparse", "delete", "restore", "done"}
Result == {"none", "ok", "rejected", "failed", "crashed"}

ASSUME BranchesAssumption == Branches = Proposals \union {Default}
ASSUME ProposalAssumption == Default \notin Proposals
ASSUME MenuAssumption     == Menu \in [Calls -> (SUBSET Request) \ {{}}]
ASSUME PermsAssumption    == Perms \in [Callers -> [Files -> SUBSET Permission]]
ASSUME ApproversAssumption == Approvers \in [Files -> SUBSET Callers]
ASSUME BoundAssumption    == MaxFaults \in Nat /\ MaxCrashes \in Nat

VARIABLES
    idx,        \* search index: the content each path was last indexed with
    pc,         \* where each call stands
    req,        \* what each call asks for
    seen,       \* what its client last saw of the file (stands for if_match)
    original,   \* the branch getCurrentBranch() answered
    branch,     \* the proposal branch it creates, approves or rejects
    res,        \* the answer it gives, or is about to give
    faults,     \* git commands that failed so far
    crashes     \* crashes so far

callVars == <<pc, req, seen, original, branch, res>>
vars == <<repoVars, idx, callVars, faults, crashes>>

TypeOK ==
    /\ RepoTypeOK
    /\ idx \in Tree
    /\ pc \in [Calls -> Pc]
    /\ req \in [Calls -> Request]
    /\ seen \in [Calls -> SUBSET Calls]
    /\ original \in [Calls -> Branches]
    /\ branch \in [Calls -> Branches]
    /\ res \in [Calls -> Result]
    /\ faults \in 0 .. MaxFaults
    /\ crashes \in 0 .. MaxCrashes

Active(c) == pc[c] \notin {"idle", "ready", "done"}
Quiet     == \A c \in Calls : ~Active(c)

---------------------------------------------------------------------------
(* resolveWriteMode, with "denied" for the PermissionDeniedError.          *)
ResolveWriteMode(granted, asked) ==
    CASE granted \intersect {"write", "propose"} = {}   -> "denied"
      [] asked # "none" /\ asked \in granted            -> asked
      [] asked # "none" /\ asked \notin granted         -> "denied"
      [] asked = "none" /\ "write" \in granted          -> "write"
      [] OTHER                                          -> "propose"

Granted(c)   == Perms[req[c].caller][req[c].file]
Mode(c)      == ResolveWriteMode(Granted(c), req[c].asked)
Proposing(c) == req[c].kind \in WriteKinds /\ Mode(c) = "propose"

(* The content a create or an edit writes: an edit replaces a section as   *)
(* its client saw it, so it keeps what the client saw and nothing else.    *)
NewContent(c) == seen[c] \union {c}

(* Fault to detect: a rename commits its new path and forgets the old one. *)
Paths_NewPathOnly(c) == IF req[c].kind \in RenameKinds THEN {req[c].dest}
                                                       ELSE {req[c].file}

(* The paths a handler hands to git add and git commit.                    *)
Paths(c) == IF req[c].kind \in RenameKinds THEN {req[c].file, req[c].dest}
                                           ELSE {req[c].file}

(* Fault to detect: the etag is never compared.                            *)
EtagMatches_Ignored(c) == TRUE

(* validateEtag: if_match must be the etag of the content just loaded.  An *)
(* etag stands for the content it is computed from.                        *)
EtagMatches(c) == RequireRead => seen[c] = disk[req[c].file]

MayWrite(c) ==
    CASE req[c].kind \in {"text_create", "delete"} ->
            "write" \in Granted(c) /\ Mode(c) # "denied"
      [] req[c].kind \in RenameKinds ->
            Mode(c) \in Perms[req[c].caller][req[c].dest]
      [] OTHER -> Mode(c) # "denied"

TargetsFit(c) ==
    CASE req[c].kind \in CreateKinds -> disk[req[c].file] = Absent
      [] req[c].kind \in RenameKinds ->
            disk[req[c].file] # Absent /\ disk[req[c].dest] = Absent
      [] OTHER -> disk[req[c].file] # Absent

(* Everything a write handler checks before its first await.               *)
AcceptsWrite(c) ==
    /\ MayWrite(c)
    /\ Mode(c) = "propose" => GitEnabled
    /\ TargetsFit(c)
    /\ req[c].kind \notin CreateKinds => EtagMatches(c)

(* Fault to detect: the 'propose/' prefix is not asked for.                *)
AcceptsReview_AnyBranch(c) ==
    /\ GitEnabled
    /\ IF branch[c] = Default THEN TRUE ELSE req[c].caller \in Approvers[branch[c][2]]

(* What approve and reject check first: a root with git, a branch name of  *)
(* the proposal form, and approve permission on the path it parses.         *)
AcceptsReview(c) ==
    /\ GitEnabled
    /\ branch[c] # Default
    /\ req[c].caller \in Approvers[branch[c][2]]

(* The file system call of the handler and the content it leaves.  rename  *)
(* and unlink throw when the file is gone.                                 *)
MutateOk(c) ==
    CASE req[c].kind \in {"edit", "text_create"} -> TRUE
      [] req[c].kind = "create"                  -> req[c].valid
      [] OTHER                                   -> disk[req[c].file] # Absent

Mutated(c) ==
    CASE req[c].kind \in EditKinds \union CreateKinds ->
            [disk EXCEPT ![req[c].file] = NewContent(c)]
      [] req[c].kind = "delete" -> [disk EXCEPT ![req[c].file] = Absent]
      [] OTHER -> [f \in Files |-> IF f = req[c].dest THEN disk[req[c].file]
                                   ELSE IF f = req[c].file THEN Absent
                                   ELSE disk[f]]

(* Fault to detect: a rename leaves the old path in the index.             *)
Indexed_KeepsOldPath(c) ==
    CASE req[c].kind \in EditKinds \union CreateKinds ->
            [idx EXCEPT ![req[c].file] = NewContent(c)]
      [] req[c].kind = "delete" -> [idx EXCEPT ![req[c].file] = Absent]
      [] OTHER -> [idx EXCEPT ![req[c].dest] = seen[c]]

(* The index after the handler: doc_rename indexes the content it loaded   *)
(* under the new path, text_rename only drops the old path.                *)
Indexed(c) ==
    CASE req[c].kind \in EditKinds \union CreateKinds ->
            [idx EXCEPT ![req[c].file] = NewContent(c)]
      [] req[c].kind \in {"delete", "text_rename"} -> [idx EXCEPT ![req[c].file] = Absent]
      [] OTHER -> [f \in Files |-> IF f = req[c].dest THEN seen[c]
                                   ELSE IF f = req[c].file THEN Absent
                                   ELSE idx[f]]

---------------------------------------------------------------------------
(* Where a handler goes when it leaves its try block: into finally         *)
(* when that has something to restore, else straight to its answer.        *)
ShouldRestore(c) == original[c] \notin {branch[c], Default}

FinallyRestores(c) ==
    \/ Proposing(c) /\ pc[c] \in {"branch", "write", "add", "commit"}
    \/ /\ req[c].kind = "approve" /\ ShouldRestore(c)
       /\ pc[c] \in {"checkout", "merge", "revparse", "delete"}

Leaves(c, answer) ==
    /\ pc' = [pc EXCEPT ![c] = IF FinallyRestores(c) THEN "restore" ELSE "done"]
    /\ res' = [res EXCEPT ![c] = answer]
    /\ UNCHANGED <<req, seen, original, branch>>

Goes(c, to) ==
    /\ pc' = [pc EXCEPT ![c] = to]
    /\ UNCHANGED <<req, seen, original, branch, res>>

Answers(c, answer) ==
    /\ pc' = [pc EXCEPT ![c] = "done"]
    /\ res' = [res EXCEPT ![c] = answer]
    /\ UNCHANGED <<req, seen, original, branch>>

---------------------------------------------------------------------------
Init ==
    /\ \E present \in SUBSET Files :
          RepoInit([f \in Files |-> IF f \in present THEN {} ELSE Absent])
    /\ idx = disk
    /\ pc = [c \in Calls |-> "idle"]
    /\ req = [c \in Calls |-> CHOOSE r \in Menu[c] : TRUE]
    /\ seen = [c \in Calls |-> {}]
    /\ original = [c \in Calls |-> Default]
    /\ branch = [c \in Calls |-> Default]
    /\ res = [c \in Calls |-> "none"]
    /\ faults = 0
    /\ crashes = 0

(* What a client can base a change of file f on: the document it reads now *)
(* or the content and etag an earlier answer of the server gave it.        *)
AnsweredPath(d) == IF req[d].kind \in RenameKinds THEN req[d].dest ELSE req[d].file
AnsweredText(d) == IF req[d].kind \in RenameKinds THEN seen[d] ELSE NewContent(d)

KnownVersions(caller, f) ==
    ({disk[f]} \ {Absent}) \union
    {AnsweredText(d) : d \in {e \in Calls :
        /\ res[e] = "ok" /\ pc[e] = "done" /\ req[e].caller = caller
        /\ req[e].kind \in EditKinds \union CreateKinds \union RenameKinds
        /\ AnsweredPath(e) = f}}

MayStart == Exclusive => Quiet

(* A client makes up its mind: what to change, from which version; or      *)
(* which of the branches doc_proposals_list shows it will approve/reject.  *)
Prepare(c) ==
    /\ pc[c] = "idle" /\ MayStart
    /\ \E r \in Menu[c] :
          /\ req' = [req EXCEPT ![c] = r]
          /\ IF r.kind \in ReviewKinds
             THEN /\ \E b \in Branches : Exists(b) /\ branch' = [branch EXCEPT ![c] = b]
                  /\ UNCHANGED seen
             ELSE /\ IF r.kind \in CreateKinds
                     THEN UNCHANGED seen
                     ELSE \E v \in KnownVersions(r.caller, r.file) :
                             seen' = [seen EXCEPT ![c] = v]
                  /\ UNCHANGED branch
    /\ pc' = [pc EXCEPT ![c] = "ready"]
    /\ UNCHANGED <<repoVars, idx, original, res, faults, crashes>>

(* The handler up to its first await.  A root without git has no await in  *)
(* the whole handler: the document is written and indexed at once.         *)
Refuse(c) ==
    /\ pc[c] = "ready" /\ MayStart
    /\ IF req[c].kind \in ReviewKinds THEN ~AcceptsReview(c) ELSE ~AcceptsWrite(c)
    /\ Answers(c, "rejected")
    /\ UNCHANGED <<repoVars, idx, faults, crashes>>

SubmitReview(c) ==
    /\ pc[c] = "ready" /\ MayStart
    /\ req[c].kind \in ReviewKinds /\ AcceptsReview(c)
    /\ Goes(c, IF req[c].kind = "approve" THEN "mergecheck" ELSE "delete")
    /\ UNCHANGED <<repoVars, idx, faults, crashes>>

SubmitWrite(c) ==
    /\ pc[c] = "ready" /\ MayStart /\ GitEnabled
    /\ req[c].kind \in WriteKinds /\ AcceptsWrite(c)
    /\ pc' = [pc EXCEPT ![c] = "status"]
    /\ seen' = [seen EXCEPT ![c] = IF req[c].kind \in RenameKinds
                                   THEN disk[req[c].file] ELSE @]
    /\ UNCHANGED <<repoVars, idx, req, original, branch, res, faults, crashes>>

WriteWithoutGit(c) ==
    /\ pc[c] = "ready" /\ MayStart /\ ~GitEnabled
    /\ req[c].kind \in WriteKinds /\ AcceptsWrite(c)
    /\ pc' = [pc EXCEPT ![c] = "done"]
    /\ seen' = [seen EXCEPT ![c] = IF req[c].kind \in RenameKinds
                                   THEN disk[req[c].file] ELSE @]
    /\ IF MutateOk(c) /\ (req[c].kind = "edit" => req[c].valid)
       THEN /\ disk' = Mutated(c)
            /\ idx' = IF req[c].kind = "rename"
                      THEN [Indexed(c) EXCEPT ![req[c].dest] = disk[req[c].file]]
                      ELSE Indexed(c)
            /\ res' = [res EXCEPT ![c] = "ok"]
       ELSE /\ res' = [res EXCEPT ![c] = "rejected"]
            /\ UNCHANGED <<disk, idx>>
    /\ UNCHANGED <<staged, head, ref, commits, unmerged, merging>>
    /\ UNCHANGED <<req, original, branch, faults, crashes>>

(* Fault to detect: approve merges without checking the default branch out.*)
GetCurrentBranch_NoCheckout(c) ==
    /\ pc[c] = "status"
    /\ original' = [original EXCEPT ![c] = head]
    /\ pc' = [pc EXCEPT ![c] = IF Proposing(c) THEN "branch"
                               ELSE IF req[c].kind = "approve" THEN "merge" ELSE "write"]
    /\ UNCHANGED <<repoVars, idx, req, seen, branch, res, faults, crashes>>

(* await git.getCurrentBranch().  executeWrite validates the new content   *)
(* right after it, approveProposal decides whether to check out default.   *)
GetCurrentBranch(c) ==
    /\ pc[c] = "status"
    /\ original' = [original EXCEPT ![c] = head]
    /\ \/ /\ req[c].kind = "edit" /\ ~req[c].valid
          /\ pc' = [pc EXCEPT ![c] = "done"]
          /\ res' = [res EXCEPT ![c] = "rejected"]
       \/ /\ req[c].kind # "edit" \/ req[c].valid
          /\ pc' = [pc EXCEPT ![c] =
                      IF Proposing(c) THEN "branch"
                      ELSE IF req[c].kind # "approve" THEN "write"
                      ELSE IF head # Default THEN "checkout" ELSE "merge"]
          /\ UNCHANGED res
    /\ UNCHANGED <<repoVars, idx, req, seen, branch, faults, crashes>>

(* Faults to detect: a name that is taken is tried again and again; the    *)
(* write goes ahead although the branch could not be created.              *)
CreateProposalBranch_Or(c, onCollision) ==
    /\ pc[c] = "branch"
    /\ \E s \in Stamps :
          LET b == <<req[c].caller, req[c].file, s>>
          IN  /\ branch' = [branch EXCEPT ![c] = b]
              /\ IF CreateBranchOk(b)
                 THEN CreateBranch(b) /\ pc' = [pc EXCEPT ![c] = "write"]
                 ELSE UNCHANGED repoVars /\ pc' = [pc EXCEPT ![c] = onCollision]
    /\ UNCHANGED <<idx, req, seen, original, res, faults, crashes>>

CreateProposalBranch_Retries(c)   == CreateProposalBranch_Or(c, "branch")
CreateProposalBranch_CarriesOn(c) == CreateProposalBranch_Or(c, "write")

(* await git.createBranch(buildProposalBranch(caller, file)).              *)
CreateProposalBranch(c) ==
    /\ pc[c] = "branch"
    /\ \E s \in Stamps :
          LET b == <<req[c].caller, req[c].file, s>>
          IN  /\ branch' = [branch EXCEPT ![c] = b]
              /\ \/ /\ CreateBranchOk(b) /\ CreateBranch(b)
                    /\ pc' = [pc EXCEPT ![c] = "write"]
                    /\ UNCHANGED res
                 \/ /\ ~CreateBranchOk(b) /\ UNCHANGED repoVars
                    /\ pc' = [pc EXCEPT ![c] = "restore"]
                    /\ res' = [res EXCEPT ![c] = "failed"]
    /\ UNCHANGED <<idx, req, seen, original, faults, crashes>>

(* Fault to detect: doc_create validates only after it has written.        *)
WriteFile_ThenValidate(c) ==
    /\ pc[c] = "write"
    /\ IF req[c].kind \in EditKinds \union CreateKinds \/ MutateOk(c)
       THEN disk' = Mutated(c) ELSE UNCHANGED disk
    /\ IF MutateOk(c) THEN Goes(c, "add")
       ELSE Leaves(c, IF req[c].kind = "create" THEN "rejected" ELSE "failed")
    /\ UNCHANGED <<staged, head, ref, commits, unmerged, merging>>
    /\ UNCHANGED <<idx, faults, crashes>>

(* writeDocument / renameSync / unlinkSync: the tree and the branch are    *)
(* what they are by now, not what the handler validated against.           *)
WriteFile(c) ==
    /\ pc[c] = "write"
    /\ \/ /\ MutateOk(c)
          /\ disk' = Mutated(c)
          /\ Goes(c, "add")
       \/ /\ ~MutateOk(c)
          /\ UNCHANGED disk
          /\ Leaves(c, IF req[c].kind = "create" THEN "rejected" ELSE "failed")
    /\ UNCHANGED <<staged, head, ref, commits, unmerged, merging>>
    /\ UNCHANGED <<idx, faults, crashes>>

(* commitFile / commitFiles: git add, then git commit, two processes.      *)
GitAdd(c) ==
    /\ pc[c] = "add"
    /\ \/ AddOk(Paths(c)) /\ Add(Paths(c)) /\ Goes(c, "commit")
       \/ ~AddOk(Paths(c)) /\ UNCHANGED repoVars /\ Leaves(c, "failed")
    /\ UNCHANGED <<idx, faults, crashes>>

GitCommit(c) ==
    /\ pc[c] = "commit"
    /\ \/ CommitOk(Paths(c)) /\ CommitPaths(Paths(c)) /\ Goes(c, "index")
       \/ ~CommitOk(Paths(c)) /\ UNCHANGED repoVars /\ Leaves(c, "failed")
    /\ UNCHANGED <<idx, faults, crashes>>

(* The rest of the handler up to its finally clause: the index update.     *)
UpdateIndex(c) ==
    /\ pc[c] = "index"
    /\ idx' = Indexed(c)
    /\ pc' = [pc EXCEPT ![c] = IF Proposing(c) THEN "restore" ELSE "done"]
    /\ res' = [res EXCEPT ![c] = "ok"]
    /\ UNCHANGED <<repoVars, req, seen, original, branch, faults, crashes>>

(* Fault to detect: the finally clause forgets to switch back.             *)
RestoreBranch_Forgotten(c) ==
    /\ pc[c] = "restore"
    /\ Goes(c, "done")
    /\ UNCHANGED <<repoVars, idx, faults, crashes>>

(* finally: switch back to the branch the call found.  A write handler     *)
(* reports a failure to, approveProposal swallows it.                      *)
RestoreBranch(c) ==
    /\ pc[c] = "restore"
    /\ \/ CheckoutOk(original[c]) /\ Checkout(original[c]) /\ Goes(c, "done")
       \/ /\ ~CheckoutOk(original[c]) /\ UNCHANGED repoVars
          /\ IF req[c].kind = "approve" THEN Goes(c, "done") ELSE Answers(c, "failed")
    /\ UNCHANGED <<idx, faults, crashes>>

---------------------------------------------------------------------------
(* Fault to detect: approve does not look for conflicts beforehand.        *)
CheckMergeable_Skipped(c) ==
    /\ pc[c] = "mergecheck"
    /\ IF Exists(branch[c]) THEN Goes(c, "status") ELSE Answers(c, "failed")
    /\ UNCHANGED <<repoVars, idx, faults, crashes>>

(* handleProposalApprove: checkMergeable reads the two branches, long      *)
(* before approveProposal merges them.                                     *)
CheckMergeable(c) ==
    /\ pc[c] = "mergecheck"
    /\ \/ ~Exists(branch[c]) /\ Answers(c, "failed")
       \/ /\ Exists(branch[c]) /\ MergeConflicts(Default, branch[c]) # {}
          /\ Answers(c, "rejected")
       \/ /\ Exists(branch[c]) /\ MergeConflicts(Default, branch[c]) = {}
          /\ Goes(c, "status")
    /\ UNCHANGED <<repoVars, idx, faults, crashes>>

(* checkoutDefault: if (original !== def) await git.checkout(def).         *)
CheckoutDefault(c) ==
    /\ pc[c] = "checkout"
    /\ \/ CheckoutOk(Default) /\ Checkout(Default) /\ Goes(c, "merge")
       \/ ~CheckoutOk(Default) /\ UNCHANGED repoVars /\ Leaves(c, "failed")
    /\ UNCHANGED <<idx, faults, crashes>>

(* Fault to detect: the branch is deleted whether or not git merged it.    *)
MergeProposal_NoVerdict(c) ==
    /\ pc[c] = "merge"
    /\ IF MergeOk(branch[c]) THEN Merge(branch[c]) ELSE UNCHANGED repoVars
    /\ Goes(c, "revparse")
    /\ UNCHANGED <<idx, faults, crashes>>

MergeProposal(c) ==
    /\ pc[c] = "merge"
    /\ \/ MergeOk(branch[c]) /\ Merge(branch[c]) /\ Goes(c, "revparse")
       \/ /\ MergeStarts(branch[c]) /\ ~MergeOk(branch[c])
          /\ MergeStopsOnConflict(branch[c])
          /\ Leaves(c, "failed")
       \/ /\ ~MergeOk(branch[c]) /\ ~MergeStarts(branch[c])
          /\ UNCHANGED repoVars
          /\ Leaves(c, "failed")
    /\ UNCHANGED <<idx, faults, crashes>>

(* await git.raw(['rev-parse', 'HEAD']): only another await.               *)
RevParse(c) ==
    /\ pc[c] = "revparse"
    /\ Goes(c, "delete")
    /\ UNCHANGED <<repoVars, idx, faults, crashes>>

(* Fault to detect: the ref is removed even while it is checked out.       *)
DeleteProposal_UpdateRef(c) ==
    /\ pc[c] = "delete"
    /\ IF Exists(branch[c]) THEN DeleteBranch(branch[c]) ELSE UNCHANGED repoVars
    /\ Leaves(c, "ok")
    /\ UNCHANGED <<idx, faults, crashes>>

(* deleteBranch: the last step of approve, the only step of reject.        *)
DeleteProposal(c) ==
    /\ pc[c] = "delete"
    /\ \/ /\ DeleteBranchOk(branch[c]) /\ DeleteBranch(branch[c])
          /\ Leaves(c, "ok")
       \/ /\ ~DeleteBranchOk(branch[c]) /\ UNCHANGED repoVars
          /\ Leaves(c, "failed")
    /\ UNCHANGED <<idx, faults, crashes>>

---------------------------------------------------------------------------
(* A git process fails for a reason of its own: a left-over index.lock, a  *)
(* hook that refuses, a full disk.  A failed restore of approve is         *)
(* swallowed, any other failure rejects the await.                         *)
GitFails(c) ==
    /\ faults < MaxFaults
    /\ pc[c] \in {"status", "branch", "add", "commit", "mergecheck", "checkout",
                  "merge", "revparse", "delete", "restore"}
    /\ faults' = faults + 1
    /\ IF pc[c] = "restore" /\ req[c].kind = "approve" THEN Goes(c, "done")
                                                       ELSE Leaves(c, "failed")
    /\ UNCHANGED <<repoVars, idx, crashes>>

(* The process dies and is started again: handlers in flight are gone, the *)
(* repository is as they left it.  Startup checks no branch out; syncIndex *)
(* re-reads the files it finds changed since they were indexed.            *)
Crash ==
    /\ crashes < MaxCrashes
    /\ ~Quiet
    /\ crashes' = crashes + 1
    /\ pc' = [c \in Calls |-> IF Active(c) THEN "done" ELSE pc[c]]
    /\ res' = [c \in Calls |-> IF Active(c) THEN "crashed" ELSE res[c]]
    /\ \E stale \in SUBSET Files :
          idx' = [f \in Files |-> IF f \in stale THEN idx[f] ELSE disk[f]]
    /\ UNCHANGED <<repoVars, req, seen, original, branch, faults>>

(* No handler is running: the server may wait for a request for ever.      *)
Rest == Quiet /\ UNCHANGED vars

(* What the event loop and git do for a handler that has started.          *)
Step(c) ==
    \/ GetCurrentBranch(c) \/ CreateProposalBranch(c) \/ WriteFile(c)
    \/ GitAdd(c) \/ GitCommit(c) \/ UpdateIndex(c) \/ RestoreBranch(c)
    \/ CheckMergeable(c) \/ CheckoutDefault(c) \/ MergeProposal(c)
    \/ RevParse(c) \/ DeleteProposal(c)

Submit(c) == Refuse(c) \/ SubmitReview(c) \/ SubmitWrite(c) \/ WriteWithoutGit(c)

Next ==
    \/ \E c \in Calls : Prepare(c) \/ Submit(c) \/ Step(c) \/ GitFails(c)
    \/ Crash
    \/ Rest

Spec == Init /\ [][Next]_vars

(* Promises settle: a git process ends and its continuation gets its turn. *)
(* Nothing makes a client send a request, a process fail or the server die.*)
Fairness == \A c \in Calls : WF_vars(Step(c))

FairSpec == Spec /\ Fairness

---------------------------------------------------------------------------
(* PROPERTIES                                                              *)

(* A handler replaces, moves or deletes only a version of a document that  *)
(* its client has seen (SKILL.md:109, "the guard exists to stop you        *)
(* overwriting a change you haven't seen").                                *)
NoUnseenOverwrite ==
    [][\A c \in Calls, f \in Files :
          /\ pc[c] \in {"ready", "write"} /\ pc'[c] # pc[c]
          /\ disk[f] # Absent /\ disk'[f] # disk[f]
          => disk[f] = seen[c]]_vars

(* Somebody with the right to do so is, or has been, approving branch b.   *)
ApprovalOf(b) ==
    \E a \in Calls : /\ req[a].kind = "approve" /\ branch[a] = b
                     /\ pc[a] \notin {"idle", "ready"} /\ res[a] # "rejected"

(* What a call only proposed is on the default branch only if its proposal *)
(* was approved (README.md:41, "edits from unprivileged callers land on    *)
(* branches, not main. Approval is a merge").                              *)
UnapprovedStaysOffDefault ==
    \A c \in Calls, f \in Files :
        /\ Published[f] # Absent /\ c \in Published[f] /\ Proposing(c)
        => ApprovalOf(branch[c])

(* The default branch moves only by the commit of a call in write mode, or *)
(* by the merge of the proposal its approver named.                        *)
DefaultMovesByRight ==
    [][ref'[Default] # ref[Default] =>
         \E c \in Calls :
            \/ pc[c] = "commit" /\ pc'[c] = "index" /\ ~Proposing(c)
            \/ pc[c] = "merge" /\ pc'[c] = "revparse" /\ Contains(Default, branch[c])'
      ]_vars

(* approveProposal merges into the default branch, whatever was checked    *)
(* out before (operations.ts:306-308).                                     *)
MergesLandOnDefault ==
    [][\A c \in Calls : pc[c] = "merge" /\ pc'[c] = "revparse"
                        => head = Default /\ Contains(Default, branch[c])']_vars

(* A proposal branch goes away only by a reject, or when all its commits   *)
(* are on the default branch (deleteBranch uses -D, which does not ask).   *)
NoProposalLost ==
    [][\A b \in Proposals : Exists(b) /\ ~Exists(b)' =>
          \/ Contains(Default, b)
          \/ \E c \in Calls : req[c].kind = "reject" /\ branch[c] = b /\ Active(c)]_vars

(* The pre-flight of approve keeps merges from stopping half way           *)
(* (proposals.ts:191-194, "so we fail before mutating any local state").   *)
NoHalfMerge == ~merging /\ unmerged = {}

(* An answer "ok" to a write means the default branch has it in its        *)
(* history: a write in write mode is never only on a side branch.          *)
AckedWritesAreOnDefault ==
    \A c \in Calls :
        /\ pc[c] = "done" /\ res[c] = "ok"
        /\ req[c].kind \in EditKinds \union CreateKinds /\ ~Proposing(c)
        => \E i \in Tip(Default).anc :
              LET text == commits[i].tree[req[c].file]
              IN  text # Absent /\ c \in text

(* When nothing is running, HEAD is on the default branch and tree, index  *)
(* and commit agree.                                                       *)
QuietIsClean ==
    Quiet => head = Default /\ disk = Published /\ staged = Published

(* A refused call leaves no trace: whatever text is on disk, in git's      *)
(* index, in a commit or in the search index was written by a call that    *)
(* had the right to and passed every check (write-helpers.ts:60, "must     *)
(* happen before any side effects").                                       *)
Authors(text) == IF text = Absent THEN {} ELSE text

WroteSomething(c) ==
    /\ req[c].kind \in EditKinds \union CreateKinds /\ Mode(c) # "denied"
    /\ pc[c] \notin {"idle", "ready", "status", "branch", "write"}
    /\ res[c] # "rejected"

TextIsAuthorised ==
    \A f \in Files :
        /\ \A c \in Authors(disk[f]) \union Authors(staged[f]) \union Authors(idx[f]) :
              WroteSomething(c)
        /\ \A i \in 1 .. Len(commits) : \A c \in Authors(commits[i].tree[f]) :
              WroteSomething(c)

(* No review deletes the default branch (proposals.ts:223-227).            *)
DefaultSurvives == Exists(Default)

(* Without git the search index is never behind the documents.             *)
IndexFollowsDisk == ~GitEnabled => idx = disk

(* Every handler that starts gives an answer.                              *)
EveryCallAnswered == \A c \in Calls : Active(c) ~> pc[c] = "done"

(* HEAD leaves the default branch only for a while.                        *)
HeadComesHome == (head # Default) ~> (head = Default)
=============================================================================
