-------------------------- MODULE WorkspaceProofs --------------------------
(***************************************************************************)
(* Theorems about the write path, for every number of calls, files,        *)
(* callers and seconds, with overlapping handlers, failing git processes   *)
(* and crashes.                                                            *)
(***************************************************************************)
EXTENDS Workspace, TLAPS

---------------------------------------------------------------------------
(* TYPE CORRECTNESS.  First the git commands: each keeps the repository    *)
(* well-formed, and above all never leaves HEAD on a branch that is gone.  *)

LEMMA TreeLemma ==
    ASSUME NEW t \in Tree, NEW f \in Files
    PROVE  t[f] \in Content
BY DEF Tree

(* The tip of a branch that exists is one of the commits.                  *)
LEMMA TipLemma ==
    ASSUME RepoTypeOK, NEW b \in Branches, Exists(b)
    PROVE  /\ ref[b] \in 1 .. Len(commits)
           /\ Tip(b) \in Commit
           /\ TipTree(b) \in Tree
           /\ Tip(b).anc \in SUBSET Nat
<1>1. ref[b] \in 1 .. Len(commits)
  BY DEF RepoTypeOK, Exists
<1>2. Tip(b) \in Commit
  BY <1>1 DEF RepoTypeOK, Tip
<1> QED
  BY <1>1, <1>2 DEF TipTree, Commit

LEMMA HeadLemma ==
    ASSUME RepoTypeOK
    PROVE  head \in Branches /\ Exists(head)
BY DEF RepoTypeOK, Exists

LEMMA CheckoutType ==
    ASSUME RepoTypeOK, NEW b \in Branches, CheckoutOk(b), Checkout(b)
    PROVE  RepoTypeOK'
<1>1. TipTree(b) \in Tree /\ ref[b] # 0
  BY TipLemma DEF CheckoutOk, Exists
<1>2. disk' \in Tree /\ staged' \in Tree
  BY <1>1 DEF Checkout, RepoTypeOK, Tree
<1> QED
  BY <1>1, <1>2 DEF Checkout, RepoTypeOK

LEMMA CreateBranchType ==
    ASSUME RepoTypeOK, NEW b \in Branches, CreateBranch(b)
    PROVE  RepoTypeOK'
BY DEF CreateBranch, RepoTypeOK

LEMMA AddType ==
    ASSUME RepoTypeOK, NEW paths \in SUBSET Files, Add(paths)
    PROVE  RepoTypeOK'
<1>1. staged' \in Tree
  BY DEF Add, RepoTypeOK, Tree
<1> QED
  BY <1>1 DEF Add, RepoTypeOK

(* A commit on top of HEAD: what commit and merge have in common.          *)
LEMMA AppendType ==
    ASSUME RepoTypeOK, NEW tree \in Tree, NEW anc \in SUBSET Nat,
           commits' = Append(commits, [tree |-> tree, anc |-> anc]),
           ref' = [ref EXCEPT ![head] = Len(commits) + 1],
           UNCHANGED head
    PROVE  /\ commits' \in Seq(Commit)
           /\ ref' \in [Branches -> 0 .. Len(commits')]
           /\ ref'[head'] # 0
<1>1. [tree |-> tree, anc |-> anc] \in Commit
  BY DEF Commit
<1>2. commits' \in Seq(Commit) /\ Len(commits') = Len(commits) + 1
  BY <1>1 DEF RepoTypeOK
<1> QED
  BY <1>2 DEF RepoTypeOK

LEMMA CommitType ==
    ASSUME RepoTypeOK, NEW paths \in SUBSET Files, CommitPaths(paths)
    PROVE  RepoTypeOK'
<1> DEFINE tree == [f \in Files |-> IF f \in paths THEN disk[f] ELSE TipTree(head)[f]]
           anc  == Tip(head).anc \union {Len(commits) + 1}
<1>1. tree \in Tree /\ TipTree(head) \in Tree
  BY HeadLemma, TipLemma DEF RepoTypeOK, Tree
<1>2. anc \in SUBSET Nat
  BY HeadLemma, TipLemma DEF RepoTypeOK
<1>3. CASE tree = TipTree(head)
  BY <1>3 DEF CommitPaths, RepoTypeOK, repoVars
<1>4. CASE tree # TipTree(head)
  <2>1. /\ commits' = Append(commits, [tree |-> tree, anc |-> anc])
        /\ ref' = [ref EXCEPT ![head] = Len(commits) + 1]
        /\ staged' = [f \in Files |-> IF f \in paths THEN disk[f] ELSE staged[f]]
        /\ unmerged' = unmerged \ paths
        /\ UNCHANGED <<disk, head, merging>>
    BY <1>4 DEF CommitPaths
  <2>2. staged' \in Tree
    BY <2>1 DEF RepoTypeOK, Tree
  <2>3. /\ commits' \in Seq(Commit)
        /\ ref' \in [Branches -> 0 .. Len(commits')]
        /\ ref'[head'] # 0
    BY <1>1, <1>2, <2>1, AppendType
  <2> QED
    BY <2>1, <2>2, <2>3 DEF RepoTypeOK
<1> QED
  BY <1>3, <1>4

(* A merged file is the file of one of the two sides.                      *)
LEMMA MergedTreeType ==
    ASSUME RepoTypeOK, NEW b \in Branches, Exists(b)
    PROVE  MergedTree(head, b) \in Tree
<1>1. TipTree(head) \in Tree /\ TipTree(b) \in Tree
  BY HeadLemma, TipLemma
<1> QED
  BY <1>1 DEF MergedTree, Tree

LEMMA MergeType ==
    ASSUME RepoTypeOK, NEW b \in Branches, MergeOk(b), Merge(b)
    PROVE  RepoTypeOK'
<1> DEFINE tree == MergedTree(head, b)
           anc  == Tip(head).anc \union Tip(b).anc \union {Len(commits) + 1}
<1>1. Exists(b)
  BY DEF MergeOk, MergeUpToDate, MergeStarts
<1>2. tree \in Tree /\ TipTree(head) \in Tree
  BY <1>1, MergedTreeType, HeadLemma, TipLemma
<1>3. anc \in SUBSET Nat
  BY <1>1, HeadLemma, TipLemma DEF RepoTypeOK
<1>4. CASE Contains(head, b)
  BY <1>4 DEF Merge, RepoTypeOK, repoVars
<1>5. CASE ~Contains(head, b)
  <2>1. /\ commits' = Append(commits, [tree |-> tree, anc |-> anc])
        /\ ref' = [ref EXCEPT ![head] = Len(commits) + 1]
        /\ staged' = tree
        /\ disk' = [f \in Files |-> IF tree[f] = TipTree(head)[f]
                                    THEN disk[f] ELSE tree[f]]
        /\ UNCHANGED <<head, unmerged, merging>>
    BY <1>5 DEF Merge
  <2>2. staged' \in Tree /\ disk' \in Tree
    BY <1>2, <2>1 DEF RepoTypeOK, Tree
  <2>3. /\ commits' \in Seq(Commit)
        /\ ref' \in [Branches -> 0 .. Len(commits')]
        /\ ref'[head'] # 0
    BY <1>2, <1>3, <2>1, AppendType
  <2> QED
    BY <2>1, <2>2, <2>3 DEF RepoTypeOK
<1> QED
  BY <1>4, <1>5

(* A conflicted file exists on one side at least.                          *)
LEMMA BothSidesType ==
    ASSUME RepoTypeOK, NEW b \in Branches, Exists(b),
           NEW f \in MergeConflicts(head, b)
    PROVE  BothSides(f, b) \in Content
<1>1. TipTree(head)[f] \in Content /\ TipTree(b)[f] \in Content /\ f \in Files
  BY HeadLemma, TipLemma, TreeLemma DEF MergeConflicts
<1>2. TipTree(head)[f] # TipTree(b)[f]
  BY DEF MergeConflicts
<1>3. CASE Absent \in {TipTree(head)[f], TipTree(b)[f]}
  BY <1>1, <1>2, <1>3 DEF BothSides
<1>4. CASE Absent \notin {TipTree(head)[f], TipTree(b)[f]}
  BY <1>1, <1>4 DEF BothSides, Content
<1> QED
  BY <1>3, <1>4

LEMMA MergeStopsType ==
    ASSUME RepoTypeOK, NEW b \in Branches, Exists(b), MergeStopsOnConflict(b)
    PROVE  RepoTypeOK'
<1>1. MergedTree(head, b) \in Tree
  BY MergedTreeType
<1>2. \A f \in MergeConflicts(head, b) : f \in Files /\ BothSides(f, b) \in Content
  BY BothSidesType DEF MergeConflicts
<1>3. staged' \in Tree /\ disk' \in Tree
  BY <1>1, <1>2 DEF MergeStopsOnConflict, RepoTypeOK, Tree
<1> QED
  BY <1>2, <1>3 DEF MergeStopsOnConflict, RepoTypeOK

LEMMA DeleteBranchType ==
    ASSUME RepoTypeOK, NEW b \in Branches, DeleteBranchOk(b), DeleteBranch(b)
    PROVE  RepoTypeOK'
BY DEF DeleteBranchOk, DeleteBranch, RepoTypeOK

---------------------------------------------------------------------------
(* Then the handlers.                                                      *)

CallTypeOK ==
    /\ pc \in [Calls -> Pc]
    /\ req \in [Calls -> Request]
    /\ seen \in [Calls -> SUBSET Calls]
    /\ original \in [Calls -> Branches]
    /\ branch \in [Calls -> Branches]
    /\ res \in [Calls -> Result]

RestTypeOK ==
    idx \in Tree /\ faults \in 0 .. MaxFaults /\ crashes \in 0 .. MaxCrashes

LEMMA TypeParts ==
    /\ TypeOK <=> RepoTypeOK /\ CallTypeOK /\ RestTypeOK
    /\ TypeOK' <=> RepoTypeOK' /\ CallTypeOK' /\ RestTypeOK'
BY DEF TypeOK, CallTypeOK, RestTypeOK

LEMMA RequestLemma ==
    ASSUME CallTypeOK, NEW c \in Calls
    PROVE  /\ req[c] \in Request
           /\ req[c].file \in Files
           /\ req[c].dest \in Files
           /\ req[c].caller \in Callers
           /\ Paths(c) \in SUBSET Files
           /\ branch[c] \in Branches
           /\ original[c] \in Branches
<1>1. req[c] \in Request /\ branch[c] \in Branches /\ original[c] \in Branches
  BY DEF CallTypeOK
<1> QED
  BY <1>1 DEF Request, Paths

LEMMA GoesType ==
    ASSUME CallTypeOK, NEW c \in Calls, NEW to \in Pc, Goes(c, to)
    PROVE  CallTypeOK'
BY DEF CallTypeOK, Goes

LEMMA AnswersType ==
    ASSUME CallTypeOK, NEW c \in Calls, NEW answer \in Result, Answers(c, answer)
    PROVE  CallTypeOK'
BY DEF CallTypeOK, Answers, Pc

LEMMA LeavesType ==
    ASSUME CallTypeOK, NEW c \in Calls, NEW answer \in Result, Leaves(c, answer)
    PROVE  CallTypeOK'
BY DEF CallTypeOK, Leaves, Pc

LEMMA MutatedType ==
    ASSUME TypeOK, NEW c \in Calls
    PROVE  /\ NewContent(c) \in SUBSET Calls
           /\ Mutated(c) \in Tree
           /\ Indexed(c) \in Tree
<1>1. req[c].file \in Files /\ req[c].dest \in Files
  BY TypeParts, RequestLemma
<1>2. seen[c] \in SUBSET Calls /\ disk \in Tree /\ idx \in Tree
  BY DEF TypeOK, RepoTypeOK
<1>3. NewContent(c) \in SUBSET Calls
  BY <1>2 DEF NewContent
<1>4. Mutated(c) \in Tree
  BY <1>1, <1>2, <1>3 DEF Mutated, Tree, Content
<1>5. Indexed(c) \in Tree
  BY <1>1, <1>2, <1>3 DEF Indexed, Tree, Content
<1> QED
  BY <1>3, <1>4, <1>5

LEMMA InitType == Init => TypeOK
<1> SUFFICES ASSUME Init PROVE TypeOK
  OBVIOUS
<1>1. PICK present \in SUBSET Files :
          RepoInit([f \in Files |-> IF f \in present THEN {} ELSE Absent])
  BY DEF Init
<1> DEFINE tree == [f \in Files |-> IF f \in present THEN {} ELSE Absent]
<1>2. tree \in Tree
  BY DEF Tree, Content
<1>3. disk = tree /\ staged = tree /\ idx = tree
  BY <1>1 DEF RepoInit, Init
<1>4. commits \in Seq(Commit) /\ Len(commits) = 1
  <2>1. [tree |-> tree, anc |-> {1}] \in Commit
    BY <1>2 DEF Commit
  <2> QED
    BY <1>1, <2>1 DEF RepoInit
<1>5. ref \in [Branches -> 0 .. Len(commits)] /\ ref[head] # 0 /\ head \in Branches
  BY <1>1, <1>4, DefaultAssumption DEF RepoInit
<1>6. RepoTypeOK
  BY <1>1, <1>2, <1>3, <1>4, <1>5 DEF RepoTypeOK, RepoInit
<1>7. \A c \in Calls : (CHOOSE r \in Menu[c] : TRUE) \in Request
  BY MenuAssumption
<1>8. CallTypeOK
  BY <1>7, DefaultAssumption DEF Init, CallTypeOK, Pc, Result
<1>9. faults \in 0 .. MaxFaults /\ crashes \in 0 .. MaxCrashes
  BY BoundAssumption DEF Init
<1> QED
  BY <1>2, <1>3, <1>6, <1>8, <1>9, TypeParts DEF RestTypeOK

(* What a client can have seen is text, not the absence of a file.         *)
LEMMA KnownVersionsType ==
    ASSUME TypeOK, NEW x \in Callers, NEW f \in Files
    PROVE  KnownVersions(x, f) \in SUBSET (SUBSET Calls)
<1>1. {disk[f]} \ {Absent} \in SUBSET (SUBSET Calls)
  BY TreeLemma DEF TypeOK, RepoTypeOK, Content
<1>2. \A d \in Calls : AnsweredText(d) \in SUBSET Calls
  BY MutatedType DEF AnsweredText, TypeOK
<1> QED
  BY <1>1, <1>2 DEF KnownVersions

LEMMA PrepareType ==
    ASSUME TypeOK, NEW c \in Calls, Prepare(c)
    PROVE  TypeOK'
<1>1. PICK r \in Menu[c] :
          /\ req' = [req EXCEPT ![c] = r]
          /\ IF r.kind \in ReviewKinds
             THEN /\ \E b \in Branches : Exists(b) /\ branch' = [branch EXCEPT ![c] = b]
                  /\ UNCHANGED seen
             ELSE /\ IF r.kind \in CreateKinds
                     THEN UNCHANGED seen
                     ELSE \E v \in KnownVersions(r.caller, r.file) :
                             seen' = [seen EXCEPT ![c] = v]
                  /\ UNCHANGED branch
  BY DEF Prepare
<1>2. r \in Request /\ r.caller \in Callers /\ r.file \in Files
  BY MenuAssumption DEF Request
<1>3. KnownVersions(r.caller, r.file) \in SUBSET (SUBSET Calls)
  BY <1>2, KnownVersionsType
<1>4. seen' \in [Calls -> SUBSET Calls]
  BY <1>1, <1>3 DEF TypeOK
<1>5. branch' \in [Calls -> Branches]
  BY <1>1 DEF TypeOK
<1>6. req' \in [Calls -> Request]
  BY <1>1, <1>2 DEF TypeOK
<1>7. pc' \in [Calls -> Pc]
  BY DEF TypeOK, Prepare, Pc
<1> QED
  BY <1>4, <1>5, <1>6, <1>7 DEF TypeOK, Prepare, RepoTypeOK, RestTypeOK, repoVars

LEMMA SubmitType ==
    ASSUME TypeOK, NEW c \in Calls, Submit(c)
    PROVE  TypeOK'
<1> USE TypeParts
<1>1. CASE Refuse(c)
  <2>1. CallTypeOK'
    BY <1>1, AnswersType DEF Refuse, Result
  <2> QED
    BY <1>1, <2>1 DEF Refuse, RepoTypeOK, RestTypeOK, repoVars
<1>2. CASE SubmitReview(c)
  <2>1. CallTypeOK'
    BY <1>2, GoesType DEF SubmitReview, Pc
  <2> QED
    BY <1>2, <2>1 DEF SubmitReview, RepoTypeOK, RestTypeOK, repoVars
<1>3. (req[c].kind \in RenameKinds /\ AcceptsWrite(c)) => disk[req[c].file] \in SUBSET Calls
  <2>1. disk[req[c].file] \in Content
    BY RequestLemma, TreeLemma DEF RepoTypeOK
  <2> QED
    BY <2>1 DEF AcceptsWrite, TargetsFit, RenameKinds, CreateKinds, Content
<1>4. CASE SubmitWrite(c)
  <2>1. CallTypeOK'
    BY <1>3, <1>4 DEF SubmitWrite, CallTypeOK, Pc
  <2> QED
    BY <1>4, <2>1 DEF SubmitWrite, RepoTypeOK, RestTypeOK, repoVars
<1>5. CASE WriteWithoutGit(c)
  <2>1. /\ pc' \in [Calls -> Pc]
        /\ seen' \in [Calls -> SUBSET Calls]
        /\ res' \in [Calls -> Result]
    BY <1>3, <1>5 DEF WriteWithoutGit, CallTypeOK, Pc, Result
  <2>2. CallTypeOK'
    BY <1>5, <2>1 DEF WriteWithoutGit, CallTypeOK
  <2>3. Mutated(c) \in Tree /\ Indexed(c) \in Tree /\ disk[req[c].file] \in Content
    BY MutatedType, RequestLemma, TreeLemma DEF RepoTypeOK
  <2>4. disk' \in Tree /\ idx' \in Tree
    BY <1>5, <2>3 DEF WriteWithoutGit, RepoTypeOK, RestTypeOK, Tree
  <2> QED
    BY <1>5, <2>2, <2>4 DEF WriteWithoutGit, RepoTypeOK, RestTypeOK
<1> QED
  BY <1>1, <1>2, <1>4, <1>5 DEF Submit

LEMMA WriteStepType ==
    ASSUME TypeOK, NEW c \in Calls,
           \/ GetCurrentBranch(c) \/ CreateProposalBranch(c) \/ WriteFile(c)
           \/ GitAdd(c) \/ GitCommit(c) \/ UpdateIndex(c) \/ RestoreBranch(c)
    PROVE  TypeOK'
<1> USE TypeParts
<1> DEFINE Same == UNCHANGED <<idx, faults, crashes>>
<1>1. Same => RestTypeOK'
  BY DEF RestTypeOK
<1>2. UNCHANGED repoVars => RepoTypeOK'
  BY DEF RepoTypeOK, repoVars
<1>3. CASE GetCurrentBranch(c)
  <2>1. CallTypeOK'
    BY <1>3, HeadLemma DEF GetCurrentBranch, CallTypeOK, Pc, Result
  <2> QED
    BY <1>1, <1>2, <1>3, <2>1 DEF GetCurrentBranch
<1>4. CASE CreateProposalBranch(c)
  <2>1. PICK s \in Stamps :
          LET b == <<req[c].caller, req[c].file, s>>
          IN  /\ branch' = [branch EXCEPT ![c] = b]
              /\ \/ /\ CreateBranchOk(b) /\ CreateBranch(b)
                    /\ pc' = [pc EXCEPT ![c] = "write"]
                    /\ UNCHANGED res
                 \/ /\ ~CreateBranchOk(b) /\ UNCHANGED repoVars
                    /\ pc' = [pc EXCEPT ![c] = "restore"]
                    /\ res' = [res EXCEPT ![c] = "failed"]
    BY <1>4 DEF CreateProposalBranch
  <2> DEFINE b == <<req[c].caller, req[c].file, s>>
  <2>2. b \in Branches
    BY RequestLemma, BranchesAssumption DEF Proposals
  <2>3. RepoTypeOK'
    BY <1>2, <2>1, <2>2, CreateBranchType
  <2>4. CallTypeOK'
    <3>1. /\ branch' \in [Calls -> Branches]
          /\ pc' \in [Calls -> Pc]
          /\ res' \in [Calls -> Result]
      BY <2>1, <2>2 DEF CallTypeOK, Pc, Result
    <3> QED
      BY <3>1, <1>4 DEF CreateProposalBranch, CallTypeOK
  <2> QED
    BY <1>1, <1>4, <2>3, <2>4 DEF CreateProposalBranch
<1>5. CASE WriteFile(c)
  <2>1. CallTypeOK'
    BY <1>5, GoesType, LeavesType DEF WriteFile, Pc, Result
  <2>2. RepoTypeOK'
    BY <1>5, MutatedType DEF WriteFile, RepoTypeOK
  <2> QED
    BY <1>1, <1>5, <2>1, <2>2 DEF WriteFile
<1>6. CASE GitAdd(c)
  <2>1. CallTypeOK'
    BY <1>6, GoesType, LeavesType DEF GitAdd, Pc, Result
  <2>2. RepoTypeOK'
    BY <1>2, <1>6, RequestLemma, AddType DEF GitAdd
  <2> QED
    BY <1>1, <1>6, <2>1, <2>2 DEF GitAdd
<1>7. CASE GitCommit(c)
  <2>1. CallTypeOK'
    BY <1>7, GoesType, LeavesType DEF GitCommit, Pc, Result
  <2>2. RepoTypeOK'
    BY <1>2, <1>7, RequestLemma, CommitType DEF GitCommit
  <2> QED
    BY <1>1, <1>7, <2>1, <2>2 DEF GitCommit
<1>8. CASE UpdateIndex(c)
  <2>1. CallTypeOK'
    BY <1>8 DEF UpdateIndex, CallTypeOK, Pc, Result
  <2>2. RestTypeOK'
    BY <1>8, MutatedType DEF UpdateIndex, RestTypeOK
  <2> QED
    BY <1>2, <1>8, <2>1, <2>2 DEF UpdateIndex
<1>9. CASE RestoreBranch(c)
  <2>1. CallTypeOK'
    BY <1>9, GoesType, AnswersType DEF RestoreBranch, Pc, Result
  <2>2. RepoTypeOK'
    BY <1>2, <1>9, RequestLemma, CheckoutType DEF RestoreBranch
  <2> QED
    BY <1>1, <1>9, <2>1, <2>2 DEF RestoreBranch
<1> QED
  BY <1>3, <1>4, <1>5, <1>6, <1>7, <1>8, <1>9

LEMMA ReviewStepType ==
    ASSUME TypeOK, NEW c \in Calls,
           \/ CheckMergeable(c) \/ CheckoutDefault(c) \/ MergeProposal(c)
           \/ RevParse(c) \/ DeleteProposal(c)
    PROVE  TypeOK'
<1> USE TypeParts
<1> DEFINE Same == UNCHANGED <<idx, faults, crashes>>
<1>1. Same => RestTypeOK'
  BY DEF RestTypeOK
<1>2. UNCHANGED repoVars => RepoTypeOK'
  BY DEF RepoTypeOK, repoVars
<1>3. CASE CheckMergeable(c)
  <2>1. CallTypeOK'
    BY <1>3, GoesType, AnswersType DEF CheckMergeable, Pc, Result
  <2> QED
    BY <1>1, <1>2, <1>3, <2>1 DEF CheckMergeable
<1>4. CASE CheckoutDefault(c)
  <2>1. CallTypeOK'
    BY <1>4, GoesType, LeavesType DEF CheckoutDefault, Pc, Result
  <2>2. RepoTypeOK'
    BY <1>2, <1>4, DefaultAssumption, CheckoutType DEF CheckoutDefault
  <2> QED
    BY <1>1, <1>4, <2>1, <2>2 DEF CheckoutDefault
<1>5. CASE MergeProposal(c)
  <2>1. CallTypeOK'
    BY <1>5, GoesType, LeavesType DEF MergeProposal, Pc, Result
  <2>2. RepoTypeOK'
    <3>1. MergeStarts(branch[c]) => Exists(branch[c])
      BY DEF MergeStarts
    <3> QED
      BY <1>2, <1>5, <3>1, RequestLemma, MergeType, MergeStopsType DEF MergeProposal
  <2> QED
    BY <1>1, <1>5, <2>1, <2>2 DEF MergeProposal
<1>6. CASE RevParse(c)
  <2>1. CallTypeOK'
    BY <1>6, GoesType DEF RevParse, Pc
  <2> QED
    BY <1>1, <1>2, <1>6, <2>1 DEF RevParse
<1>7. CASE DeleteProposal(c)
  <2>1. CallTypeOK'
    BY <1>7, LeavesType DEF DeleteProposal, Result
  <2>2. RepoTypeOK'
    BY <1>2, <1>7, RequestLemma, DeleteBranchType DEF DeleteProposal
  <2> QED
    BY <1>1, <1>7, <2>1, <2>2 DEF DeleteProposal
<1> QED
  BY <1>3, <1>4, <1>5, <1>6, <1>7

LEMMA GitFailsType ==
    ASSUME TypeOK, NEW c \in Calls, GitFails(c)
    PROVE  TypeOK'
<1> USE TypeParts
<1>1. CallTypeOK'
  BY GoesType, LeavesType DEF GitFails, Pc, Result
<1>2. RestTypeOK'
  BY BoundAssumption DEF GitFails, RestTypeOK
<1> QED
  BY <1>1, <1>2 DEF GitFails, RepoTypeOK, repoVars

LEMMA CrashType ==
    ASSUME TypeOK, Crash
    PROVE  TypeOK'
<1> USE TypeParts
<1>1. CallTypeOK'
  BY DEF Crash, CallTypeOK, Pc, Result
<1>2. PICK stale \in SUBSET Files :
          idx' = [f \in Files |-> IF f \in stale THEN idx[f] ELSE disk[f]]
  BY DEF Crash
<1>3. idx' \in Tree
  BY <1>2 DEF RestTypeOK, RepoTypeOK, Tree
<1>4. faults' \in 0 .. MaxFaults /\ crashes' \in 0 .. MaxCrashes
  BY BoundAssumption DEF Crash, RestTypeOK
<1> QED
  BY <1>1, <1>3, <1>4 DEF Crash, RepoTypeOK, RestTypeOK, repoVars

LEMMA NextType == TypeOK /\ [Next]_vars => TypeOK'
<1> SUFFICES ASSUME TypeOK, [Next]_vars PROVE TypeOK'
  OBVIOUS
<1>1. CASE UNCHANGED vars
  BY <1>1 DEF vars, callVars, repoVars, TypeOK, RepoTypeOK
<1>2. ASSUME NEW c \in Calls, Prepare(c) \/ Submit(c) \/ Step(c) \/ GitFails(c)
      PROVE  TypeOK'
  BY <1>2, PrepareType, SubmitType, WriteStepType, ReviewStepType, GitFailsType DEF Step
<1> QED
  BY <1>1, <1>2, CrashType DEF Next, Rest

(* Whatever handlers overlap, fail or die, every variable keeps its type;  *)
(* in particular HEAD is on a branch that exists and every branch points   *)
(* at a commit.                                                            *)
THEOREM TypeCorrect == Spec => []TypeOK
<1>1. Init => TypeOK
  BY InitType
<1>2. TypeOK /\ [Next]_vars => TypeOK'
  BY NextType
<1> QED
  BY <1>1, <1>2, PTL DEF Spec

---------------------------------------------------------------------------
(* BRANCHES AND COMMITS.  What holds of them whatever overlaps, fails or   *)
(* dies: no review deletes the default branch, and every commit is among   *)
(* its own ancestors.  The argument needs to know which handler is at      *)
(* which step.                                                             *)

(* A commit counts itself among its ancestors.                             *)
SelfAnc == \A i \in 1 .. Len(commits) : i \in commits[i].anc

RefsOK == SelfAnc /\ Exists(Default)

(* The steps of a handler belong to requests of its kind, and a review in  *)
(* flight names a proposal.                                                *)
Placed(c) ==
    /\ pc[c] \in {"mergecheck", "checkout", "merge", "revparse"} => req[c].kind = "approve"
    /\ pc[c] = "delete" => req[c].kind \in ReviewKinds
    /\ pc[c] \in {"branch", "write", "add", "commit", "index"} => req[c].kind \in WriteKinds
    /\ pc[c] = "status" => req[c].kind \in WriteKinds \union {"approve"}
    /\ Active(c) /\ req[c].kind \in ReviewKinds => branch[c] # Default

LedgerInv == TypeOK /\ RefsOK /\ \A c \in Calls : Placed(c)

---------------------------------------------------------------------------
(* What the git commands do to branches and commits.                       *)

LEMMA AppendRefs ==
    ASSUME RepoTypeOK, RefsOK, NEW tree, NEW anc, Len(commits) + 1 \in anc,
           [tree |-> tree, anc |-> anc] \in Commit,
           commits' = Append(commits, [tree |-> tree, anc |-> anc]),
           ref' = [ref EXCEPT ![head] = Len(commits) + 1]
    PROVE  /\ SelfAnc' /\ Exists(Default)'
           /\ \A i \in 1 .. Len(commits) : commits'[i] = commits[i]
           /\ commits'[Len(commits) + 1].anc = anc
           /\ ref'[head] = Len(commits) + 1
<1>1. commits \in Seq(Commit) /\ ref \in [Branches -> 0 .. Len(commits)] /\ head \in Branches
  BY DEF RepoTypeOK
<1>2. /\ Len(commits') = Len(commits) + 1 /\ Len(commits) \in Nat
      /\ \A i \in 1 .. Len(commits) : commits'[i] = commits[i]
      /\ commits'[Len(commits) + 1] = [tree |-> tree, anc |-> anc]
  BY <1>1
<1>3. SelfAnc'
  <2>1. ASSUME NEW i \in 1 .. Len(commits')
        PROVE  i \in commits'[i].anc
    <3>1. CASE i \in 1 .. Len(commits)
      BY <1>2, <3>1 DEF RefsOK, SelfAnc
    <3>2. CASE i = Len(commits) + 1
      BY <1>2, <3>2
    <3> QED
      BY <1>2, <2>1, <3>1, <3>2
  <2> QED
    BY <2>1 DEF SelfAnc
<1>4. Exists(Default)'
  <2>1. ref'[head] = Len(commits) + 1 /\ Len(commits) + 1 # 0
    BY <1>1, <1>2
  <2>2. Default # head => ref'[Default] = ref[Default]
    BY <1>1, DefaultAssumption
  <2> QED
    BY <2>1, <2>2 DEF RefsOK, Exists
<1> QED
  BY <1>1, <1>2, <1>3, <1>4

LEMMA SameRefs ==
    ASSUME RefsOK, ref' = ref, commits' = commits
    PROVE  RefsOK'
BY DEF RefsOK, SelfAnc, Exists

LEMMA CreateBranchRefs ==
    ASSUME RepoTypeOK, RefsOK, NEW b \in Branches, CreateBranchOk(b), CreateBranch(b)
    PROVE  RefsOK'
<1>1. ref'[Default] # 0
  BY DefaultAssumption DEF RepoTypeOK, RefsOK, Exists, CreateBranchOk, CreateBranch
<1> QED
  BY <1>1 DEF CreateBranch, RefsOK, SelfAnc, Exists

LEMMA CommitRefs ==
    ASSUME RepoTypeOK, RefsOK, NEW paths \in SUBSET Files, CommitPaths(paths)
    PROVE  RefsOK'
<1> DEFINE tree == [f \in Files |-> IF f \in paths THEN disk[f] ELSE TipTree(head)[f]]
           anc  == Tip(head).anc \union {Len(commits) + 1}
<1>1. CASE tree = TipTree(head)
  BY <1>1, SameRefs DEF CommitPaths, repoVars
<1>2. CASE tree # TipTree(head)
  <2>1. tree \in Tree /\ anc \in SUBSET Nat
    BY HeadLemma, TipLemma DEF RepoTypeOK, Tree
  <2>2. [tree |-> tree, anc |-> anc] \in Commit
    BY <2>1 DEF Commit
  <2>3. /\ commits' = Append(commits, [tree |-> tree, anc |-> anc])
        /\ ref' = [ref EXCEPT ![head] = Len(commits) + 1]
    BY <1>2 DEF CommitPaths
  <2> QED
    BY <2>2, <2>3, AppendRefs DEF RefsOK
<1> QED
  BY <1>1, <1>2

(* What a merge that succeeds does to the branches: HEAD's branch contains *)
(* the merged one, and both still exist.                                   *)
LEMMA MergeRefs ==
    ASSUME RepoTypeOK, RefsOK, NEW b \in Branches, MergeOk(b), Merge(b)
    PROVE  RefsOK' /\ Contains(head, b)' /\ head' = head
<1> DEFINE tree == MergedTree(head, b)
           anc  == Tip(head).anc \union Tip(b).anc \union {Len(commits) + 1}
<1>1. Exists(b)
  BY DEF MergeOk, MergeUpToDate, MergeStarts
<1>2. CASE Contains(head, b)
  BY <1>2, SameRefs DEF Merge, repoVars, Contains, Tip
<1>3. CASE ~Contains(head, b)
  <2>1. tree \in Tree /\ anc \in SUBSET Nat
    BY <1>1, MergedTreeType, HeadLemma, TipLemma DEF RepoTypeOK
  <2>2. [tree |-> tree, anc |-> anc] \in Commit
    BY <2>1 DEF Commit
  <2>3. /\ commits' = Append(commits, [tree |-> tree, anc |-> anc])
        /\ ref' = [ref EXCEPT ![head] = Len(commits) + 1]
        /\ head' = head
    BY <1>3 DEF Merge
  <2>4. /\ RefsOK'
        /\ commits'[Len(commits) + 1].anc = anc
        /\ ref'[head] = Len(commits) + 1
    BY <2>2, <2>3, AppendRefs DEF RefsOK
  <2>5. ref[b] \in Tip(b).anc
    BY <1>1, TipLemma DEF RefsOK, SelfAnc, Tip
  <2>6. ref'[b] \in {ref[b], Len(commits) + 1}
    BY <2>3 DEF RepoTypeOK
  <2> QED
    BY <2>3, <2>4, <2>5, <2>6 DEF Contains, Tip
<1> QED
  BY <1>2, <1>3

LEMMA DeleteBranchRefs ==
    ASSUME RepoTypeOK, RefsOK, NEW b \in Branches, b # Default, DeleteBranch(b)
    PROVE  RefsOK'
<1>1. ref'[Default] = ref[Default]
  BY DefaultAssumption DEF DeleteBranch, RepoTypeOK
<1> QED
  BY <1>1 DEF DeleteBranch, RefsOK, SelfAnc, Exists

---------------------------------------------------------------------------
(* What the handlers do to them.                                           *)

(* A step of one call moves no other, and changes no request.              *)
LEMMA OnlyOneMoves ==
    ASSUME TypeOK, NEW c \in Calls, Step(c) \/ GitFails(c)
    PROVE  /\ Active(c)
           /\ req' = req /\ seen' = seen
           /\ \A d \in Calls \ {c} : pc'[d] = pc[d] /\ branch'[d] = branch[d]
<1>1. pc \in [Calls -> Pc] /\ branch \in [Calls -> Branches]
  BY DEF TypeOK
<1>2. Active(c)
  BY DEF Step, GitFails, Active, GetCurrentBranch, CreateProposalBranch, WriteFile, GitAdd,
     GitCommit, UpdateIndex, RestoreBranch, CheckMergeable, CheckoutDefault,
     MergeProposal, RevParse, DeleteProposal
<1>3. CASE GetCurrentBranch(c) \/ CreateProposalBranch(c) \/ UpdateIndex(c)
  BY <1>1, <1>2, <1>3 DEF GetCurrentBranch, CreateProposalBranch, UpdateIndex
<1>4. CASE WriteFile(c) \/ GitAdd(c) \/ GitCommit(c) \/ RestoreBranch(c) \/ GitFails(c)
  BY <1>1, <1>2, <1>4 DEF WriteFile, GitAdd, GitCommit, RestoreBranch, GitFails, Goes,
     Leaves, Answers
<1>5. CASE CheckMergeable(c) \/ CheckoutDefault(c) \/ MergeProposal(c) \/ RevParse(c)
           \/ DeleteProposal(c)
  BY <1>1, <1>2, <1>5 DEF CheckMergeable, CheckoutDefault, MergeProposal, RevParse,
     DeleteProposal, Goes, Leaves, Answers
<1> QED
  BY <1>3, <1>4, <1>5 DEF Step

LEMMA OtherPlaced ==
    ASSUME NEW d \in Calls, Placed(d), pc'[d] = pc[d], req'[d] = req[d],
           branch'[d] = branch[d]
    PROVE  Placed(d)'
BY DEF Placed, Active

(* After its step a call is at a step of its own kind.                     *)
LEMMA StepPlaced ==
    ASSUME LedgerInv, NEW c \in Calls, Step(c) \/ GitFails(c)
    PROVE  Placed(c)'
<1>1. /\ pc \in [Calls -> Pc] /\ req \in [Calls -> Request]
      /\ branch \in [Calls -> Branches] /\ Placed(c)
  BY DEF LedgerInv, TypeOK
<1>2. req'[c] = req[c] /\ req[c].kind \in WriteKinds \union ReviewKinds
  BY <1>1, OnlyOneMoves DEF LedgerInv, Request
<1>3. WriteKinds \intersect ReviewKinds = {}
  BY DEF WriteKinds, ReviewKinds, EditKinds, CreateKinds, RenameKinds
<1>4. "approve" \in ReviewKinds
  BY DEF ReviewKinds
<1>5. CASE GetCurrentBranch(c)
  <2>1. pc[c] = "status" /\ branch' = branch
        /\ \/ pc'[c] = "done"
           \/ pc'[c] = "branch" /\ Proposing(c)
           \/ pc'[c] = "write" /\ req[c].kind # "approve"
           \/ pc'[c] \in {"checkout", "merge"} /\ req[c].kind = "approve"
    BY <1>1, <1>5 DEF GetCurrentBranch
  <2> QED
    BY <1>1, <1>2, <1>3, <1>4, <2>1 DEF Placed, Active, Proposing
<1>6. CASE CreateProposalBranch(c)
  <2>1. pc[c] = "branch" /\ pc'[c] \in {"write", "restore"}
    BY <1>1, <1>6 DEF CreateProposalBranch
  <2> QED
    BY <1>1, <1>2, <1>3, <2>1 DEF Placed
<1>7. CASE WriteFile(c) \/ GitAdd(c) \/ GitCommit(c) \/ UpdateIndex(c)
  <2>1. /\ pc[c] \in {"write", "add", "commit", "index"}
        /\ pc'[c] \in {"add", "commit", "index", "restore", "done"}
    <3>1. CASE WriteFile(c) \/ UpdateIndex(c)
      BY <1>1, <3>1 DEF WriteFile, UpdateIndex, Goes, Leaves
    <3>2. CASE GitAdd(c)
      BY <1>1, <3>2 DEF GitAdd, Goes, Leaves
    <3>3. CASE GitCommit(c)
      BY <1>1, <3>3 DEF GitCommit, Goes, Leaves
    <3> QED
      BY <1>7, <3>1, <3>2, <3>3
  <2> QED
    BY <1>1, <1>2, <1>3, <2>1 DEF Placed
<1>8. CASE RestoreBranch(c) \/ GitFails(c)
  <2>1. pc[c] # "idle" /\ pc'[c] \in {"restore", "done"} /\ branch' = branch /\ Active(c)
    BY <1>1, <1>8, OnlyOneMoves DEF RestoreBranch, GitFails, Goes, Leaves, Answers, LedgerInv,
       Active
  <2> QED
    BY <1>1, <1>2, <2>1 DEF Placed, Active
<1>9. CASE CheckMergeable(c) \/ CheckoutDefault(c) \/ MergeProposal(c) \/ RevParse(c)
           \/ DeleteProposal(c)
  <2>1. /\ branch' = branch
        /\ \/ /\ pc[c] \in {"mergecheck", "checkout", "merge", "revparse"}
              /\ pc'[c] \in {"status", "merge", "revparse", "delete", "restore", "done"}
           \/ pc[c] = "delete" /\ pc'[c] \in {"restore", "done"}
    BY <1>1, <1>9 DEF CheckMergeable, CheckoutDefault, MergeProposal, RevParse,
       DeleteProposal, Goes, Leaves, Answers
  <2> QED
    BY <1>1, <1>2, <1>4, <2>1 DEF Placed, Active
<1> QED
  BY <1>5, <1>6, <1>7, <1>8, <1>9 DEF Step

LEMMA StepRefs ==
    ASSUME LedgerInv, NEW c \in Calls, Step(c) \/ GitFails(c)
    PROVE  RefsOK'
<1>1. RepoTypeOK /\ RefsOK /\ Paths(c) \in SUBSET Files /\ branch[c] \in Branches
  BY TypeParts, RequestLemma DEF LedgerInv
<1>2. CASE CreateProposalBranch(c)
  <2>1. PICK s \in Stamps :
          LET b == <<req[c].caller, req[c].file, s>>
          IN  (CreateBranchOk(b) /\ CreateBranch(b)) \/ UNCHANGED repoVars
    BY <1>2 DEF CreateProposalBranch
  <2> DEFINE b == <<req[c].caller, req[c].file, s>>
  <2>2. b \in Branches
    BY BranchesAssumption, TypeParts, RequestLemma DEF LedgerInv, Proposals
  <2> QED
    BY <1>1, <2>1, <2>2, CreateBranchRefs, SameRefs DEF repoVars
<1>3. CASE GitCommit(c)
  BY <1>1, <1>3, CommitRefs, SameRefs DEF GitCommit, repoVars
<1>4. CASE MergeProposal(c)
  BY <1>1, <1>4, MergeRefs, SameRefs DEF MergeProposal, MergeStopsOnConflict, repoVars
<1>5. CASE DeleteProposal(c)
  <2>1. branch[c] # Default
    BY <1>5 DEF DeleteProposal, LedgerInv, Placed, Active
  <2> QED
    BY <1>1, <1>5, <2>1, DeleteBranchRefs, SameRefs DEF DeleteProposal, repoVars
<1>6. CASE \/ GetCurrentBranch(c) \/ WriteFile(c) \/ UpdateIndex(c) \/ CheckMergeable(c)
           \/ RevParse(c) \/ GitFails(c)
  <2>1. ref' = ref /\ commits' = commits
    BY <1>6 DEF GetCurrentBranch, WriteFile, UpdateIndex, CheckMergeable, RevParse,
       GitFails, repoVars
  <2> QED
    BY <1>1, <2>1, SameRefs
<1>7. CASE GitAdd(c) \/ RestoreBranch(c) \/ CheckoutDefault(c)
  <2>1. ref' = ref /\ commits' = commits
    BY <1>7 DEF GitAdd, Add, RestoreBranch, CheckoutDefault, Checkout, repoVars
  <2> QED
    BY <1>1, <2>1, SameRefs
<1> QED
  BY <1>2, <1>3, <1>4, <1>5, <1>6, <1>7 DEF Step

(* A request that is made up or submitted touches no branch.               *)
LEMMA RequestLedger ==
    ASSUME LedgerInv, NEW c \in Calls, Prepare(c) \/ Submit(c)
    PROVE  /\ ref' = ref /\ commits' = commits
           /\ \A d \in Calls : Placed(d)'
           /\ \A d \in Calls \ {c} : pc'[d] = pc[d]
           /\ ~Active(c)
<1>1. /\ pc \in [Calls -> Pc] /\ req \in [Calls -> Request]
      /\ branch \in [Calls -> Branches] /\ \A d \in Calls : Placed(d)
  BY DEF LedgerInv, TypeOK
<1>2. ref' = ref /\ commits' = commits
  BY DEF Prepare, Submit, Refuse, SubmitReview, SubmitWrite, WriteWithoutGit, repoVars
<1>3. pc[c] \in {"idle", "ready"}
  BY DEF Prepare, Submit, Refuse, SubmitReview, SubmitWrite, WriteWithoutGit
<1>4. /\ \A d \in Calls \ {c} : pc'[d] = pc[d] /\ req'[d] = req[d] /\ branch'[d] = branch[d]
      /\ Placed(c)'
  <2>1. CASE Prepare(c)
    <3>1. pc'[c] = "ready"
      BY <1>1, <2>1 DEF Prepare
    <3>2. \A d \in Calls \ {c} : pc'[d] = pc[d] /\ req'[d] = req[d] /\ branch'[d] = branch[d]
      BY <1>1, <2>1 DEF Prepare
    <3> QED
      BY <3>1, <3>2 DEF Placed, Active
  <2>2. CASE Refuse(c) \/ WriteWithoutGit(c)
    <3>1. pc'[c] = "done" /\ req' = req /\ branch' = branch
          /\ \A d \in Calls \ {c} : pc'[d] = pc[d]
      BY <1>1, <2>2 DEF Refuse, WriteWithoutGit, Answers
    <3> QED
      BY <3>1 DEF Placed, Active
  <2>3. CASE SubmitReview(c)
    <3>1. /\ req' = req /\ branch' = branch
          /\ req[c].kind \in ReviewKinds /\ branch[c] # Default
          /\ pc'[c] = IF req[c].kind = "approve" THEN "mergecheck" ELSE "delete"
          /\ \A d \in Calls \ {c} : pc'[d] = pc[d]
      BY <1>1, <2>3 DEF SubmitReview, AcceptsReview, Goes
    <3> QED
      BY <3>1 DEF Placed
  <2>4. CASE SubmitWrite(c)
    <3>1. /\ req' = req /\ branch' = branch
          /\ req[c].kind \in WriteKinds /\ pc'[c] = "status"
          /\ \A d \in Calls \ {c} : pc'[d] = pc[d]
      BY <1>1, <2>4 DEF SubmitWrite
    <3>2. req[c].kind \notin ReviewKinds
      BY <3>1 DEF WriteKinds, ReviewKinds, EditKinds, CreateKinds, RenameKinds
    <3> QED
      BY <3>1, <3>2 DEF Placed
  <2> QED
    BY <2>1, <2>2, <2>3, <2>4 DEF Submit
<1>5. \A d \in Calls \ {c} : Placed(d)'
  BY <1>1, <1>4, OtherPlaced
<1> QED
  BY <1>2, <1>3, <1>4, <1>5 DEF Active

LEMMA LedgerNext == LedgerInv /\ [Next]_vars => LedgerInv'
<1> SUFFICES ASSUME LedgerInv, [Next]_vars PROVE LedgerInv'
  OBVIOUS
<1>1. TypeOK'
  BY NextType DEF LedgerInv
<1>2. CASE UNCHANGED vars
  BY <1>1, <1>2, SameRefs, OtherPlaced DEF vars, callVars, repoVars, LedgerInv
<1>3. ASSUME NEW c \in Calls, Prepare(c) \/ Submit(c)
      PROVE  LedgerInv'
  BY <1>1, <1>3, RequestLedger, SameRefs DEF LedgerInv
<1>4. ASSUME NEW c \in Calls, Step(c) \/ GitFails(c)
      PROVE  LedgerInv'
  <2>1. \A d \in Calls \ {c} : Placed(d)'
    BY <1>4, OnlyOneMoves, OtherPlaced DEF LedgerInv
  <2> QED
    BY <1>1, <1>4, <2>1, StepRefs, StepPlaced DEF LedgerInv
<1>5. CASE Crash
  <2>1. RefsOK'
    BY <1>5, SameRefs DEF Crash, repoVars, LedgerInv
  <2>2. ASSUME NEW d \in Calls
        PROVE  Placed(d)'
    <3>1. req'[d] = req[d] /\ branch'[d] = branch[d]
          /\ (pc'[d] = pc[d] \/ pc'[d] = "done")
      BY <1>5 DEF Crash
    <3>2. CASE pc'[d] = "done"
      BY <3>2 DEF Placed, Active
    <3> QED
      BY <3>1, <3>2, OtherPlaced DEF LedgerInv
  <2> QED
    BY <1>1, <2>1, <2>2 DEF LedgerInv
<1> QED
  BY <1>2, <1>3, <1>4, <1>5 DEF Next, Rest

LEMMA LedgerInit == Init => LedgerInv
<1> SUFFICES ASSUME Init PROVE LedgerInv
  OBVIOUS
<1>1. PICK present \in SUBSET Files :
          RepoInit([f \in Files |-> IF f \in present THEN {} ELSE Absent])
  BY DEF Init
<1>2. Len(commits) = 1 /\ commits[1].anc = {1} /\ ref[Default] = 1
  BY <1>1, DefaultAssumption DEF RepoInit
<1>3. \A c \in Calls : Placed(c)
  BY DEF Init, Placed, Active
<1> QED
  BY <1>2, <1>3, InitType DEF LedgerInv, RefsOK, SelfAnc, Exists

LEMMA LedgerInvariant == Spec => []LedgerInv
BY LedgerInit, LedgerNext, PTL DEF Spec

(* No review deletes the default branch: a reject and the last step of an  *)
(* approve only ever delete a proposal (proposals.ts:223-227).             *)
THEOREM DefaultNeverDeleted == Spec => []DefaultSurvives
<1>1. LedgerInv => DefaultSurvives
  BY DEF LedgerInv, RefsOK, DefaultSurvives
<1> QED
  BY <1>1, LedgerInvariant, PTL

---------------------------------------------------------------------------
(* WITHOUT GIT.  A write handler of a root without git has no await: it    *)
(* checks, writes and indexes in one step, so nobody is ever half way.     *)

DirectInv == TypeOK /\ \A c \in Calls : ~Active(c)

LEMMA DirectInit == Init => DirectInv
<1>1. Init => TypeOK
  BY InitType
<1> QED
  BY <1>1 DEF Init, DirectInv, Active

LEMMA NobodySteps ==
    ASSUME DirectInv, [Next]_vars
    PROVE  (\E c \in Calls : Prepare(c) \/ Submit(c)) \/ UNCHANGED vars
<1>1. ASSUME NEW c \in Calls, Step(c) \/ GitFails(c)
      PROVE  FALSE
  BY <1>1, OnlyOneMoves DEF DirectInv
<1>2. ~Crash
  BY DEF DirectInv, Crash, Quiet
<1> QED
  BY <1>1, <1>2 DEF Next, Rest

LEMMA DirectNext ==
    ASSUME ~GitEnabled, DirectInv, [Next]_vars
    PROVE  DirectInv'
<1>1. TypeOK'
  BY NextType DEF DirectInv
<1>2. ASSUME NEW c \in Calls, Prepare(c) \/ Submit(c)
      PROVE  \A d \in Calls : ~Active(d)'
  <2>1. pc \in [Calls -> Pc]
    BY DEF DirectInv, TypeOK
  <2>2. ~SubmitReview(c) /\ ~SubmitWrite(c)
    BY DEF SubmitReview, SubmitWrite, AcceptsReview
  <2>3. \A d \in Calls : pc'[d] = pc[d] \/ pc'[d] \in {"ready", "done"}
    BY <1>2, <2>1, <2>2 DEF Prepare, Submit, Refuse, WriteWithoutGit, Answers
  <2> QED
    BY <2>3 DEF DirectInv, Active
<1>3. CASE UNCHANGED vars
  BY <1>1, <1>3 DEF vars, callVars, DirectInv, Active
<1> QED
  BY <1>1, <1>2, <1>3, NobodySteps DEF DirectInv

(* A write whose checks hold when it writes touches only what was seen.     *)
LEMMA MutatesSeen ==
    ASSUME RequireRead, disk \in Tree, NEW c \in Calls,
           req[c].file \in Files, req[c].dest \in Files, req[c].kind \in WriteKinds,
           TargetsFit(c), req[c].kind \notin CreateKinds => EtagMatches(c),
           disk' = Mutated(c), NEW f \in Files, disk[f] # Absent, disk'[f] # disk[f]
    PROVE  disk[f] = seen[c]
<1>1. req[c].kind \notin CreateKinds => disk[req[c].file] = seen[c]
  BY DEF EtagMatches
<1>2. CASE req[c].kind \in EditKinds \union CreateKinds
  <2>1. f = req[c].file
    BY <1>2 DEF Mutated, Tree
  <2>2. CASE req[c].kind \in CreateKinds
    BY <2>1, <2>2 DEF TargetsFit, CreateKinds, RenameKinds
  <2> QED
    BY <1>1, <2>1, <2>2
<1>3. CASE req[c].kind \in RenameKinds
  <2>1. req[c].kind \notin EditKinds \union CreateKinds \union {"delete"}
    BY <1>3 DEF EditKinds, CreateKinds, RenameKinds
  <2>2. disk[req[c].dest] = Absent
    BY <1>3, <2>1 DEF TargetsFit
  <2>3. f \in {req[c].file, req[c].dest}
    BY <2>1 DEF Mutated
  <2> QED
    BY <1>1, <2>1, <2>2, <2>3
<1>4. CASE req[c].kind = "delete"
  <2>1. req[c].kind \notin EditKinds \union CreateKinds \union RenameKinds
    BY <1>4 DEF EditKinds, CreateKinds, RenameKinds
  <2>2. f = req[c].file
    BY <1>4, <2>1 DEF Mutated, Tree
  <2> QED
    BY <1>1, <2>1, <2>2
<1> QED
  BY <1>2, <1>3, <1>4 DEF WriteKinds

LEMMA DirectSees ==
    ASSUME ~GitEnabled, RequireRead, DirectInv, [Next]_vars,
           NEW c \in Calls, NEW f \in Files, disk[f] # Absent, disk'[f] # disk[f],
           pc'[c] # pc[c]
    PROVE  disk[f] = seen[c]
<1>1. /\ pc \in [Calls -> Pc] /\ disk \in Tree
      /\ req[c].file \in Files /\ req[c].dest \in Files
  BY TypeParts, RequestLemma DEF DirectInv, CallTypeOK, RepoTypeOK
<1>2. disk' # disk
  OBVIOUS
<1>3. PICK d \in Calls : Prepare(d) \/ Submit(d)
  BY <1>2, NobodySteps DEF vars, repoVars
<1>4. WriteWithoutGit(d)
  BY <1>2, <1>3 DEF Prepare, Submit, Refuse, SubmitReview, SubmitWrite, repoVars
<1>5. d = c
  BY <1>1, <1>4 DEF WriteWithoutGit
<1>6. disk' = Mutated(c) /\ req[c].kind \in WriteKinds /\ AcceptsWrite(c)
  BY <1>2, <1>4, <1>5 DEF WriteWithoutGit
<1> QED
  BY <1>1, <1>6, MutatesSeen DEF AcceptsWrite

(* Without git no session overwrites a version its client has not seen,    *)
(* however many sessions overlap (write-helpers.ts validateEtag, with no   *)
(* await between the check and the write).                                 *)
THEOREM DirectOverwritesOnlySeen ==
    ASSUME ~GitEnabled, RequireRead
    PROVE  Spec => NoUnseenOverwrite
<1>1. DirectInv /\ [Next]_vars => DirectInv'
  BY DirectNext
<1>2. DirectInv /\ [Next]_vars =>
        [\A c \in Calls, f \in Files :
            /\ pc[c] \in {"ready", "write"} /\ pc'[c] # pc[c]
            /\ disk[f] # Absent /\ disk'[f] # disk[f]
            => disk[f] = seen[c]]_vars
  BY DirectSees
<1> QED
  BY <1>1, <1>2, DirectInit, PTL DEF Spec, NoUnseenOverwrite

(* The index holds what is on disk, and each request is one of its menu.   *)
IndexInv == DirectInv /\ idx = disk /\ \A c \in Calls : req[c] \in Menu[c]

LEMMA IndexInit == Init => IndexInv
<1> SUFFICES ASSUME Init PROVE IndexInv
  OBVIOUS
<1>1. \A c \in Calls : req[c] \in Menu[c]
  BY MenuAssumption DEF Init
<1> QED
  BY <1>1, DirectInit DEF Init, IndexInv

(* What a write without git leaves on disk and in the index.               *)
LEMMA IndexedAsWritten ==
    ASSUME TypeOK, idx = disk, NEW c \in Calls, req[c].kind # "text_rename",
           WriteWithoutGit(c)
    PROVE  idx' = disk'
<1>1. /\ disk \in Tree /\ req[c].file \in Files /\ req[c].dest \in Files
  BY TypeParts, RequestLemma DEF RepoTypeOK
<1>2. CASE disk' = disk /\ idx' = idx
  BY <1>2
<1>3. CASE /\ disk' = Mutated(c)
           /\ idx' = IF req[c].kind = "rename"
                     THEN [Indexed(c) EXCEPT ![req[c].dest] = disk[req[c].file]]
                     ELSE Indexed(c)
  <2>1. CASE req[c].kind \in EditKinds \union CreateKinds \union {"delete"}
    BY <1>3, <2>1 DEF Mutated, Indexed, EditKinds, CreateKinds
  <2>2. CASE req[c].kind = "rename"
    <3>1. req[c].kind \notin EditKinds \union CreateKinds \union {"delete", "text_rename"}
      BY <2>2 DEF EditKinds, CreateKinds
    <3>2. disk' = [f \in Files |-> IF f = req[c].dest THEN disk[req[c].file]
                                   ELSE IF f = req[c].file THEN Absent ELSE disk[f]]
      BY <1>3, <3>1 DEF Mutated
    <3>3. Indexed(c) = [f \in Files |-> IF f = req[c].dest THEN seen[c]
                                        ELSE IF f = req[c].file THEN Absent ELSE idx[f]]
      BY <3>1 DEF Indexed
    <3> QED
      BY <1>1, <1>3, <2>2, <3>2, <3>3
  <2> QED
    BY <2>1, <2>2 DEF WriteWithoutGit, WriteKinds, RenameKinds
<1> QED
  BY <1>2, <1>3 DEF WriteWithoutGit

LEMMA IndexNext ==
    ASSUME ~GitEnabled, \A c \in Calls : \A r \in Menu[c] : r.kind # "text_rename",
           IndexInv, [Next]_vars
    PROVE  IndexInv'
<1>1. DirectInv'
  BY DirectNext DEF IndexInv
<1>2. ASSUME NEW c \in Calls, Prepare(c)
      PROVE  IndexInv'
  <2>1. PICK r \in Menu[c] : req' = [req EXCEPT ![c] = r]
    BY <1>2 DEF Prepare
  <2>2. \A d \in Calls : req'[d] \in Menu[d]
    BY <2>1, TypeParts DEF IndexInv, DirectInv, CallTypeOK
  <2> QED
    BY <1>1, <1>2, <2>2 DEF Prepare, repoVars, IndexInv
<1>3. ASSUME NEW c \in Calls, Submit(c)
      PROVE  IndexInv'
  <2>1. req' = req
    BY <1>3 DEF Submit, Refuse, SubmitReview, SubmitWrite, WriteWithoutGit, Goes, Answers
  <2>2. CASE WriteWithoutGit(c)
    BY <1>1, <2>1, <2>2, IndexedAsWritten DEF IndexInv, DirectInv
  <2>3. CASE Refuse(c) \/ SubmitReview(c) \/ SubmitWrite(c)
    BY <1>1, <2>1, <2>3 DEF Refuse, SubmitReview, SubmitWrite, repoVars, IndexInv
  <2> QED
    BY <1>3, <2>2, <2>3 DEF Submit
<1>4. CASE UNCHANGED vars
  BY <1>1, <1>4 DEF vars, callVars, repoVars, IndexInv
<1> QED
  BY <1>2, <1>3, <1>4, NobodySteps DEF IndexInv

(* Without git the search index is never behind the documents, whichever   *)
(* sessions write and whichever writes are refused (index-updater.ts, run  *)
(* by the handler itself); text_rename is the exception: it does not index *)
(* the new path.                                                           *)
THEOREM DirectWritesAreIndexed ==
    ASSUME \A c \in Calls : \A r \in Menu[c] : r.kind # "text_rename"
    PROVE  Spec => []IndexFollowsDisk
<1>1. CASE GitEnabled
  <2>1. IndexFollowsDisk
    BY <1>1 DEF IndexFollowsDisk
  <2> QED
    BY <2>1, PTL
<1>2. CASE ~GitEnabled
  <2>1. IndexInv /\ [Next]_vars => IndexInv'
    BY <1>2, IndexNext
  <2>2. IndexInv => IndexFollowsDisk
    BY DEF IndexInv, IndexFollowsDisk
  <2> QED
    BY <2>1, <2>2, IndexInit, PTL DEF Spec
<1> QED
  BY <1>1, <1>2

---------------------------------------------------------------------------
(***************************************************************************)
(* A refused call leaves no trace, whatever overlaps, fails or dies.       *)
(*                                                                         *)
(* git only moves texts around: every text it puts on disk, in its index   *)
(* or in a commit is one that was in the repository before, or the union   *)
(* of two such texts.  New text comes from the handlers alone, and they    *)
(* write it after their checks.  The invariant therefore follows the calls *)
(* that wrote (Writers), which only ever grow, and what clients have seen. *)
(***************************************************************************)

(* Every file of tree t is made of edits of calls in A.                    *)
Carries(A, t) == \A f \in Files : Authors(t[f]) \subseteq A

RepoCarries(A) ==
    /\ Carries(A, disk)
    /\ Carries(A, staged)
    /\ \A i \in 1 .. Len(commits) : Carries(A, commits[i].tree)

LEMMA TipCarries ==
    ASSUME NEW A, RepoTypeOK, RepoCarries(A), NEW b \in Branches, Exists(b)
    PROVE  Carries(A, TipTree(b))
BY TipLemma DEF RepoCarries, TipTree, Tip

(* A tree made file by file of texts of two trees.                         *)
LEMMA MixCarries ==
    ASSUME NEW A, NEW s, NEW t, NEW u \in Tree, Carries(A, s), Carries(A, t),
           \A f \in Files : u[f] \in {s[f], t[f]}
    PROVE  Carries(A, u)
BY DEF Carries

LEMMA AppendCarries ==
    ASSUME NEW A, RepoTypeOK, RepoCarries(A),
           NEW tree \in Tree, NEW anc \in SUBSET Nat, Carries(A, tree),
           commits' = Append(commits, [tree |-> tree, anc |-> anc])
    PROVE  \A i \in 1 .. Len(commits') : Carries(A, commits'[i].tree)
<1>1. commits \in Seq(Commit) /\ [tree |-> tree, anc |-> anc] \in Commit
  BY DEF RepoTypeOK, Commit
<1>2. Len(commits') = Len(commits) + 1
  BY <1>1
<1>3. ASSUME NEW i \in 1 .. Len(commits')
      PROVE  Carries(A, commits'[i].tree)
  <2>1. CASE i \in 1 .. Len(commits)
    <3>1. commits'[i] = commits[i]
      BY <1>1, <2>1
    <3> QED
      BY <2>1, <3>1 DEF RepoCarries
  <2>2. CASE i = Len(commits) + 1
    <3>1. commits'[i] = [tree |-> tree, anc |-> anc]
      BY <1>1, <2>2
    <3> QED
      BY <3>1
  <2> QED
    BY <1>1, <1>2, <2>1, <2>2
<1> QED
  BY <1>3

LEMMA CheckoutCarries ==
    ASSUME NEW A, RepoTypeOK, RepoCarries(A), NEW b \in Branches,
           CheckoutOk(b), Checkout(b)
    PROVE  RepoCarries(A)'
<1>1. Carries(A, TipTree(b))
  BY TipCarries DEF CheckoutOk
<1>2. Carries(A, disk') /\ Carries(A, staged')
  BY <1>1 DEF Checkout, Carries, RepoCarries
<1> QED
  BY <1>2 DEF Checkout, RepoCarries, Carries

LEMMA AddCarries ==
    ASSUME NEW A, RepoTypeOK, RepoCarries(A), NEW paths \in SUBSET Files, Add(paths)
    PROVE  RepoCarries(A)'
BY DEF Add, RepoCarries, Carries

LEMMA CommitCarries ==
    ASSUME NEW A, RepoTypeOK, RepoCarries(A), NEW paths \in SUBSET Files,
           CommitPaths(paths)
    PROVE  RepoCarries(A)'
<1> DEFINE tree == [f \in Files |-> IF f \in paths THEN disk[f] ELSE TipTree(head)[f]]
           anc  == Tip(head).anc \union {Len(commits) + 1}
<1>1. tree \in Tree /\ anc \in SUBSET Nat
  BY HeadLemma, TipLemma DEF RepoTypeOK, Tree
<1>2. Carries(A, tree)
  BY HeadLemma, TipCarries DEF Carries, RepoCarries
<1>3. CASE tree = TipTree(head)
  BY <1>3 DEF CommitPaths, repoVars, RepoCarries, Carries
<1>4. CASE tree # TipTree(head)
  <2>1. /\ commits' = Append(commits, [tree |-> tree, anc |-> anc])
        /\ staged' = [f \in Files |-> IF f \in paths THEN disk[f] ELSE staged[f]]
        /\ UNCHANGED disk
    BY <1>4 DEF CommitPaths
  <2>2. Carries(A, staged') /\ Carries(A, disk')
    BY <2>1 DEF Carries, RepoCarries
  <2>3. \A i \in 1 .. Len(commits') : Carries(A, commits'[i].tree)
    BY <1>1, <1>2, <2>1, AppendCarries
  <2> QED
    BY <2>2, <2>3 DEF RepoCarries, Carries
<1> QED
  BY <1>3, <1>4

LEMMA MergeCarries ==
    ASSUME NEW A, RepoTypeOK, RepoCarries(A), NEW b \in Branches, MergeOk(b), Merge(b)
    PROVE  RepoCarries(A)'
<1> DEFINE tree == MergedTree(head, b)
           anc  == Tip(head).anc \union Tip(b).anc \union {Len(commits) + 1}
<1>1. Exists(b)
  BY DEF MergeOk, MergeUpToDate, MergeStarts
<1>2. tree \in Tree /\ anc \in SUBSET Nat
  BY <1>1, MergedTreeType, HeadLemma, TipLemma DEF RepoTypeOK
<1>3. Carries(A, tree)
  BY <1>1, HeadLemma, TipCarries DEF Carries, MergedTree
<1>4. CASE Contains(head, b)
  BY <1>4 DEF Merge, repoVars, RepoCarries, Carries
<1>5. CASE ~Contains(head, b)
  <2>1. /\ commits' = Append(commits, [tree |-> tree, anc |-> anc])
        /\ staged' = tree
        /\ disk' = [f \in Files |-> IF tree[f] = TipTree(head)[f]
                                    THEN disk[f] ELSE tree[f]]
    BY <1>5 DEF Merge
  <2>2. Carries(A, staged') /\ Carries(A, disk')
    BY <1>3, <2>1 DEF Carries, RepoCarries
  <2>3. \A i \in 1 .. Len(commits') : Carries(A, commits'[i].tree)
    BY <1>2, <1>3, <2>1, AppendCarries
  <2> QED
    BY <2>2, <2>3 DEF RepoCarries, Carries
<1> QED
  BY <1>4, <1>5

LEMMA MergeStopsCarries ==
    ASSUME NEW A, RepoTypeOK, RepoCarries(A), NEW b \in Branches, Exists(b),
           MergeStopsOnConflict(b)
    PROVE  RepoCarries(A)'
<1>1. Carries(A, TipTree(head)) /\ Carries(A, TipTree(b))
  BY HeadLemma, TipCarries
<1>2. Carries(A, MergedTree(head, b))
  BY <1>1 DEF Carries, MergedTree
<1>3. ASSUME NEW f \in MergeConflicts(head, b)
      PROVE  Authors(BothSides(f, b)) \subseteq A
  <2>1. f \in Files /\ TipTree(head)[f] # TipTree(b)[f]
    BY DEF MergeConflicts
  <2>2. Authors(TipTree(head)[f]) \subseteq A /\ Authors(TipTree(b)[f]) \subseteq A
    BY <1>1, <2>1 DEF Carries
  <2>3. CASE Absent \in {TipTree(head)[f], TipTree(b)[f]}
    BY <2>1, <2>2, <2>3 DEF BothSides
  <2>4. CASE Absent \notin {TipTree(head)[f], TipTree(b)[f]}
    BY <2>2, <2>4 DEF BothSides, Authors
  <2> QED
    BY <2>3, <2>4
<1>4. Carries(A, staged') /\ Carries(A, disk')
  BY <1>2, <1>3 DEF MergeStopsOnConflict, Carries, RepoCarries
<1> QED
  BY <1>4 DEF MergeStopsOnConflict, RepoCarries, Carries

---------------------------------------------------------------------------
(* The calls that wrote, and why their number only grows.                  *)

Writers == {c \in Calls : WroteSomething(c)}

(* No answer before the end, and no call in flight whose write mode was    *)
(* denied.                                                                 *)
ResInv  == \A c \in Calls : pc[c] \notin {"restore", "done"} => res[c] = "none"
ModeInv == \A c \in Calls :
              /\ req[c].kind \in EditKinds \union CreateKinds
              /\ Active(c) \/ (pc[c] = "done" /\ res[c] # "rejected")
              => Mode(c) # "denied"

(* Only an approval looks for conflicts.                                   *)
PlaceInv == \A c \in Calls : pc[c] = "mergecheck" => req[c].kind \in ReviewKinds

TextInv ==
    /\ TypeOK
    /\ ResInv /\ ModeInv /\ PlaceInv
    /\ RepoCarries(Writers) /\ Carries(Writers, idx)
    /\ \A c \in Calls : seen[c] \subseteq Writers

LEMMA CarriesMono ==
    ASSUME NEW A, NEW B, A \subseteq B
    PROVE  /\ \A t : Carries(A, t) => Carries(B, t)
           /\ RepoCarries(A) => RepoCarries(B)
           /\ RepoCarries(A)' => RepoCarries(B)'
BY DEF Carries, RepoCarries

Early == {"status", "branch", "write"}

(* A step of call c that gives it the place x and the answer y.            *)
LEMMA MoveLemma ==
    ASSUME TypeOK, ResInv, ModeInv, PlaceInv,
           NEW c \in Calls, NEW x \in Pc, NEW y \in Result,
           pc' = [pc EXCEPT ![c] = x], res' = [res EXCEPT ![c] = y], UNCHANGED req,
           pc[c] \notin {"idle", "done"}, x \notin {"idle", "ready"},
           x \notin {"restore", "done"} => y = "none",
           y = "rejected" /\ res[c] # "rejected" =>
               \/ pc[c] \in Early \union {"ready"}
               \/ req[c].kind \in ReviewKinds,
           x \in Early => pc[c] \in Early \union {"ready"} \/ req[c].kind \in ReviewKinds,
           pc[c] = "ready" => \/ x = "done" /\ y = "rejected"
                              \/ MayWrite(c) \/ req[c].kind \in ReviewKinds,
           x = "mergecheck" => req[c].kind \in ReviewKinds
    PROVE  Writers \subseteq Writers' /\ ResInv' /\ ModeInv' /\ PlaceInv'
<1>1. \A d \in Calls : Mode(d)' = Mode(d)
  BY DEF Mode, Granted
<1>2. \A d \in Calls \ {c} : pc'[d] = pc[d] /\ res'[d] = res[d] /\ req'[d] = req[d]
  BY DEF TypeOK
<1>3. pc'[c] = x /\ res'[c] = y /\ req'[c] = req[c]
  BY DEF TypeOK
<1>4. ResInv'
  BY <1>2, <1>3 DEF ResInv
<1>5. MayWrite(c) /\ req[c].kind \in EditKinds \union CreateKinds => Mode(c) # "denied"
  BY DEF MayWrite, EditKinds, CreateKinds, RenameKinds, ReviewKinds
<1>6. ModeInv'
  <2>1. Active(c)' => x \notin {"done"}
    BY <1>3 DEF Active
  <2>2. ASSUME NEW d \in Calls \ {c} PROVE Active(d)' = Active(d)
    BY <1>2 DEF Active
  <2>3. pc[c] # "ready" => Active(c)
    BY DEF Active
  <2>4. ASSUME req[c].kind \in EditKinds \union CreateKinds,
               Active(c)' \/ (pc'[c] = "done" /\ res'[c] # "rejected")
        PROVE  Mode(c) # "denied"
    BY <1>3, <1>5, <2>1, <2>3, <2>4 DEF ModeInv, EditKinds, CreateKinds, ReviewKinds
  <2> QED
    BY <1>1, <1>2, <1>3, <2>2, <2>4 DEF ModeInv
<1>7. ASSUME NEW d \in Calls, WroteSomething(d)
      PROVE  WroteSomething(d)'
  <2>1. CASE d = c
    <3>1. req[c].kind \in EditKinds \union CreateKinds /\ res[c] # "rejected"
          /\ pc[c] \notin Early \union {"ready"} /\ Mode(c) # "denied"
      BY <1>7, <2>1 DEF WroteSomething, Early
    <3>2. req[c].kind \notin ReviewKinds
      BY <3>1 DEF EditKinds, CreateKinds, ReviewKinds
    <3>3. y # "rejected" /\ x \notin Early
      BY <3>1, <3>2
    <3> QED
      BY <1>1, <1>3, <2>1, <3>1, <3>3 DEF WroteSomething, Early
  <2>2. CASE d # c
    BY <1>1, <1>2, <1>7, <2>2 DEF WroteSomething
  <2> QED
    BY <2>1, <2>2
<1>8. PlaceInv'
  BY <1>2, <1>3 DEF PlaceInv
<1> QED
  BY <1>4, <1>6, <1>7, <1>8 DEF Writers

(* A step that writes no text of its own keeps the invariant if it gives   *)
(* the call a place and an answer as above and moves texts only.           *)
LEMMA KeepLemma ==
    ASSUME TextInv, TypeOK', Writers \subseteq Writers', ResInv', ModeInv', PlaceInv',
           \A A : RepoCarries(A) => RepoCarries(A)',
           UNCHANGED <<idx, seen>>
    PROVE  TextInv'
<1>1. PICK A : A = Writers
  OBVIOUS
<1>2. PICK B : B = Writers'
  OBVIOUS
<1>3. A \subseteq B
  BY <1>1, <1>2
<1>4. RepoCarries(A)' /\ Carries(A, idx)
  BY <1>1 DEF TextInv
<1>5. RepoCarries(B)' /\ Carries(B, idx)
  BY <1>3, <1>4, CarriesMono
<1>6. RepoCarries(Writers)'
  BY <1>2, <1>5 DEF RepoCarries, Carries
<1>7. Carries(Writers, idx)'
  BY <1>2, <1>5 DEF Carries
<1>8. \A c \in Calls : seen'[c] \subseteq Writers'
  BY DEF TextInv
<1> QED
  BY <1>6, <1>7, <1>8 DEF TextInv

Moved == Writers \subseteq Writers' /\ ResInv' /\ ModeInv' /\ PlaceInv'

LEMMA GoesMove ==
    ASSUME TextInv, NEW c \in Calls, NEW to \in Pc, Goes(c, to),
           pc[c] \notin {"idle", "restore", "done"},
           to \notin {"idle", "ready", "restore", "done"},
           to \in Early => pc[c] \in Early \/ req[c].kind \in ReviewKinds,
           pc[c] = "ready" => req[c].kind \in ReviewKinds,
           to = "mergecheck" => req[c].kind \in ReviewKinds
    PROVE  Moved
<1>1. res[c] = "none"
  BY DEF TextInv, ResInv
<1>2. pc' = [pc EXCEPT ![c] = to] /\ res' = [res EXCEPT ![c] = "none"] /\ UNCHANGED req
  BY <1>1 DEF Goes, TextInv, TypeOK
<1> QED
  BY <1>2, MoveLemma DEF TextInv, Moved, Result

LEMMA LeavesMove ==
    ASSUME TextInv, NEW c \in Calls, NEW answer \in Result,
           Leaves(c, answer) \/ Answers(c, answer),
           pc[c] \notin {"idle", "ready", "done"},
           answer = "rejected" => pc[c] \in Early \/ req[c].kind \in ReviewKinds
    PROVE  Moved
<1>1. PICK x \in {"restore", "done"} : pc' = [pc EXCEPT ![c] = x]
  BY DEF Leaves, Answers
<1>2. res' = [res EXCEPT ![c] = answer] /\ UNCHANGED req
  BY DEF Leaves, Answers
<1>3. x \in Pc /\ x \notin Early
  BY DEF Pc, Early
<1> QED
  BY <1>1, <1>2, <1>3, MoveLemma DEF TextInv, Moved

LEMMA StayCarries ==
    ASSUME UNCHANGED repoVars, NEW A, RepoCarries(A)
    PROVE  RepoCarries(A)'
BY DEF repoVars, RepoCarries, Carries

(* The checks before the first await, and what they let through.           *)
LEMMA RefuseText ==
    ASSUME TextInv, TypeOK', NEW c \in Calls, Refuse(c) \/ SubmitReview(c)
    PROVE  TextInv'
<1>1. CASE Refuse(c)
  <2>1. Moved
    BY <1>1, MoveLemma DEF Refuse, Answers, TextInv, Moved, Pc, Result, Early
  <2> QED
    BY <1>1, <2>1, StayCarries, KeepLemma DEF Refuse, Answers, Moved
<1>2. CASE SubmitReview(c)
  <2>1. Moved
    BY <1>2, GoesMove DEF SubmitReview, Pc, Early
  <2> QED
    BY <1>2, <2>1, StayCarries, KeepLemma DEF SubmitReview, Goes, Moved
<1> QED
  BY <1>1, <1>2

LEMMA BeforeWriteText ==
    ASSUME TextInv, TypeOK', NEW c \in Calls,
           GetCurrentBranch(c) \/ CreateProposalBranch(c)
    PROVE  TextInv'
<1> USE DEF TextInv
<1>1. res[c] = "none" \/ pc[c] \in {"restore", "done"}
  BY DEF ResInv
<1>2. CASE GetCurrentBranch(c)
  <2>1. PICK x \in Pc, y \in Result :
          /\ pc' = [pc EXCEPT ![c] = x] /\ res' = [res EXCEPT ![c] = y]
          /\ UNCHANGED req /\ pc[c] = "status"
          /\ \/ x = "done" /\ y = "rejected"
             \/ x \in {"branch", "write", "checkout", "merge"} /\ y = "none"
    <3>1. pc[c] = "status" /\ res[c] = "none"
      BY <1>1, <1>2 DEF GetCurrentBranch
    <3>2. CASE req[c].kind = "edit" /\ ~req[c].valid
      BY <1>2, <3>1, <3>2 DEF GetCurrentBranch, Pc, Result
    <3>3. CASE req[c].kind # "edit" \/ req[c].valid
      <4>1. res' = [res EXCEPT ![c] = "none"]
        BY <1>2, <3>1, <3>3 DEF GetCurrentBranch, TypeOK
      <4> QED
        BY <1>2, <3>1, <3>3, <4>1 DEF GetCurrentBranch, Pc, Result
    <3> QED
      BY <3>2, <3>3, RequestLemma, TypeParts DEF Request
  <2>2. Moved
    BY <2>1, MoveLemma DEF Moved, Early
  <2> QED
    BY <1>2, <2>2, StayCarries, KeepLemma DEF GetCurrentBranch, Moved
<1>3. CASE CreateProposalBranch(c)
  <2>1. PICK x \in {"write", "restore"}, y \in {"none", "failed"} :
          /\ pc' = [pc EXCEPT ![c] = x] /\ res' = [res EXCEPT ![c] = y]
          /\ UNCHANGED req /\ pc[c] = "branch"
          /\ x = "write" => y = "none"
    BY <1>1, <1>3 DEF CreateProposalBranch, TypeOK
  <2>2. x \in Pc /\ y \in Result
    BY DEF Pc, Result
  <2>3. Moved
    BY <2>1, <2>2, MoveLemma DEF Moved, Early
  <2>4. \A A : RepoCarries(A) => RepoCarries(A)'
    BY <1>3, StayCarries DEF CreateProposalBranch, CreateBranch, RepoCarries, Carries
  <2> QED
    BY <1>3, <2>3, <2>4, KeepLemma DEF CreateProposalBranch, Moved
<1> QED
  BY <1>2, <1>3

(* The git commands of a write, and its way out.                           *)
LEMMA CommitText ==
    ASSUME TextInv, TypeOK', NEW c \in Calls,
           GitAdd(c) \/ GitCommit(c) \/ RestoreBranch(c)
    PROVE  TextInv'
<1> USE TypeParts
<1>0. RepoTypeOK /\ CallTypeOK
  BY DEF TextInv
<1>1. CASE GitAdd(c)
  <2>1. Moved
    BY <1>1, GoesMove, LeavesMove DEF GitAdd, Pc, Result, Early
  <2>2. \A A : RepoCarries(A) => RepoCarries(A)'
    BY <1>0, <1>1, RequestLemma, StayCarries, AddCarries DEF GitAdd
  <2> QED
    BY <1>1, <2>1, <2>2, KeepLemma DEF GitAdd, Goes, Leaves, Moved
<1>2. CASE GitCommit(c)
  <2>1. Moved
    BY <1>2, GoesMove, LeavesMove DEF GitCommit, Pc, Result, Early
  <2>2. \A A : RepoCarries(A) => RepoCarries(A)'
    BY <1>0, <1>2, RequestLemma, StayCarries, CommitCarries DEF GitCommit
  <2> QED
    BY <1>2, <2>1, <2>2, KeepLemma DEF GitCommit, Goes, Leaves, Moved
<1>3. CASE RestoreBranch(c)
  <2>1. Moved
    <3>1. PICK y \in {res[c], "failed"} :
              /\ pc' = [pc EXCEPT ![c] = "done"] /\ res' = [res EXCEPT ![c] = y]
              /\ UNCHANGED req /\ pc[c] = "restore"
      BY <1>0, <1>3 DEF RestoreBranch, Goes, Answers, CallTypeOK
    <3>2. y \in Result
      BY <1>0 DEF CallTypeOK, Result
    <3> QED
      BY <3>1, <3>2, MoveLemma DEF TextInv, Moved, Pc, Early
  <2>2. \A A : RepoCarries(A) => RepoCarries(A)'
    BY <1>0, <1>3, RequestLemma, StayCarries, CheckoutCarries DEF RestoreBranch
  <2> QED
    BY <1>3, <2>1, <2>2, KeepLemma DEF RestoreBranch, Goes, Answers, Moved
<1> QED
  BY <1>1, <1>2, <1>3

(* The text of a call that has passed its checks.                          *)
LEMMA NewTextLemma ==
    ASSUME TextInv, NEW c \in Calls, NEW A, Writers \subseteq A, c \in A
    PROVE  /\ Authors(NewContent(c)) \subseteq A
           /\ Authors(seen[c]) \subseteq A
BY DEF TextInv, NewContent, Authors

LEMMA MutatedText ==
    ASSUME TextInv, NEW c \in Calls, NEW A, Writers \subseteq A,
           req[c].kind \in EditKinds \union CreateKinds => c \in A
    PROVE  Carries(A, Mutated(c)) /\ Carries(A, Indexed(c))
<1>1. Carries(A, disk) /\ Carries(A, idx)
  BY CarriesMono DEF TextInv, RepoCarries
<1>2. Authors(Absent) = {}
  BY DEF Authors
<1>3. Authors(seen[c]) \subseteq A
  BY DEF TextInv, Authors
<1>4. req[c].file \in Files /\ req[c].dest \in Files
  BY RequestLemma, TypeParts DEF TextInv
<1>5. disk \in [Files -> Content] /\ idx \in [Files -> Content]
  BY DEF TextInv, TypeOK, RepoTypeOK, Tree
<1>6. CASE req[c].kind \in EditKinds \union CreateKinds
  <2>1. Authors(NewContent(c)) \subseteq A
    BY <1>6, NewTextLemma
  <2>2. /\ Mutated(c) = [disk EXCEPT ![req[c].file] = NewContent(c)]
        /\ Indexed(c) = [idx EXCEPT ![req[c].file] = NewContent(c)]
    BY <1>6 DEF Mutated, Indexed, EditKinds, CreateKinds
  <2> QED
    BY <1>1, <1>4, <1>5, <2>1, <2>2 DEF Carries
<1>7. CASE req[c].kind \notin EditKinds \union CreateKinds
  <2>1. Carries(A, Mutated(c))
    BY <1>1, <1>2, <1>4, <1>5, <1>7 DEF Mutated, Carries
  <2>2. Carries(A, Indexed(c))
    BY <1>1, <1>2, <1>3, <1>4, <1>5, <1>7 DEF Indexed, Carries
  <2> QED
    BY <2>1, <2>2
<1> QED
  BY <1>6, <1>7

LEMMA WriteFileText ==
    ASSUME TextInv, TypeOK', NEW c \in Calls, WriteFile(c)
    PROVE  TextInv'
<1>1. Moved
  BY GoesMove, LeavesMove DEF WriteFile, Pc, Result, Early
<1>2. PICK B : B = Writers'
  OBVIOUS
<1>3. Writers \subseteq B
  BY <1>1, <1>2 DEF Moved
<1>4. Carries(B, disk')
  <2>1. CASE ~MutateOk(c)
    BY <1>3, <2>1, CarriesMono DEF WriteFile, TextInv, RepoCarries, Carries
  <2>2. CASE MutateOk(c)
    <3>1. disk' = Mutated(c) /\ Goes(c, "add")
      BY <2>2 DEF WriteFile
    <3>2. req[c].kind \in EditKinds \union CreateKinds => c \in Writers'
      <4>1. pc[c] = "write" /\ res[c] = "none"
        BY DEF WriteFile, TextInv, ResInv
      <4>2. pc'[c] = "add" /\ res'[c] = "none" /\ req'[c] = req[c]
        BY <3>1, <4>1 DEF Goes, TextInv, TypeOK
      <4>3. req[c].kind \in EditKinds \union CreateKinds => Mode(c) # "denied"
        BY <4>1 DEF TextInv, ModeInv, Active
      <4>4. Mode(c)' = Mode(c)
        BY <4>2 DEF Mode, Granted
      <4> QED
        BY <4>2, <4>3, <4>4 DEF Writers, WroteSomething
    <3> QED
      BY <1>2, <1>3, <3>1, <3>2, MutatedText
  <2> QED
    BY <2>1, <2>2
<1>5. RepoCarries(B)'
  <2>1. RepoCarries(B)
    BY <1>3, CarriesMono DEF TextInv
  <2> QED
    BY <1>4, <2>1 DEF WriteFile, RepoCarries, Carries
<1>6. Carries(B, idx')
  BY <1>3, CarriesMono DEF TextInv, WriteFile
<1>7. seen' = seen
  BY DEF WriteFile, Goes, Leaves
<1>8. RepoCarries(Writers)' /\ Carries(Writers, idx)'
  BY <1>2, <1>5, <1>6 DEF RepoCarries, Carries
<1>9. \A d \in Calls : seen'[d] \subseteq Writers'
  BY <1>2, <1>3, <1>7 DEF TextInv
<1> QED
  BY <1>1, <1>8, <1>9 DEF TextInv, Moved

LEMMA UpdateIndexText ==
    ASSUME TextInv, TypeOK', NEW c \in Calls, UpdateIndex(c)
    PROVE  TextInv'
<1>1. Moved
  <2>1. PICK x \in {"restore", "done"} :
            pc' = [pc EXCEPT ![c] = x] /\ res' = [res EXCEPT ![c] = "ok"]
    BY DEF UpdateIndex
  <2>2. x \in Pc /\ UNCHANGED req /\ pc[c] = "index"
    BY DEF Pc, UpdateIndex
  <2> QED
    BY <2>1, <2>2, MoveLemma DEF TextInv, Moved, Result, Early
<1>2. PICK B : B = Writers'
  OBVIOUS
<1>3. Writers \subseteq B
  BY <1>1, <1>2 DEF Moved
<1>4. req[c].kind \in EditKinds \union CreateKinds => c \in Writers
  <2>1. pc[c] = "index" /\ res[c] = "none"
    BY DEF UpdateIndex, TextInv, ResInv
  <2> QED
    BY <2>1 DEF TextInv, ModeInv, Active, Writers, WroteSomething
<1>5. Carries(B, idx')
  BY <1>3, <1>4, MutatedText DEF UpdateIndex
<1>6. RepoCarries(B)
  BY <1>3, CarriesMono DEF TextInv
<1>7. RepoCarries(Writers)' /\ Carries(Writers, idx)'
  BY <1>2, <1>5, <1>6 DEF RepoCarries, Carries, UpdateIndex, repoVars
<1>8. \A d \in Calls : seen'[d] \subseteq Writers'
  BY <1>2, <1>3 DEF TextInv, UpdateIndex
<1> QED
  BY <1>1, <1>7, <1>8 DEF TextInv, Moved

LEMMA SubmitWriteText ==
    ASSUME TextInv, TypeOK', NEW c \in Calls, SubmitWrite(c)
    PROVE  TextInv'
<1>1. Moved
  <2>1. res[c] = "none" /\ pc[c] = "ready" /\ MayWrite(c)
    BY DEF SubmitWrite, AcceptsWrite, TextInv, ResInv
  <2>2. pc' = [pc EXCEPT ![c] = "status"] /\ res' = [res EXCEPT ![c] = "none"] /\ req' = req
    BY <2>1 DEF SubmitWrite, TextInv, TypeOK
  <2> QED
    BY <2>1, <2>2, MoveLemma DEF TextInv, Moved, Pc, Result, Early
<1>2. Writers \subseteq Writers'
  BY <1>1 DEF Moved
<1>3. disk[req[c].file] \in Content /\ Authors(disk[req[c].file]) \subseteq Writers
  BY RequestLemma, TypeParts, TreeLemma DEF TextInv, RepoTypeOK, RepoCarries, Carries
<1>4. req[c].kind \in RenameKinds => disk[req[c].file] \subseteq Writers
  <2>1. req[c].kind \in RenameKinds => disk[req[c].file] # Absent
    BY DEF SubmitWrite, AcceptsWrite, TargetsFit, RenameKinds, CreateKinds
  <2> QED
    BY <1>3, <2>1 DEF Authors
<1>5. \A d \in Calls : seen'[d] \subseteq Writers
  BY <1>4 DEF SubmitWrite, TextInv, TypeOK
<1>6. RepoCarries(Writers)' /\ Carries(Writers, idx)'
  <2>1. PICK B : B = Writers'
    OBVIOUS
  <2>2. RepoCarries(B) /\ Carries(B, idx)
    BY <1>2, <2>1, CarriesMono DEF TextInv
  <2> QED
    BY <2>1, <2>2 DEF SubmitWrite, repoVars, RepoCarries, Carries
<1> QED
  BY <1>1, <1>2, <1>5, <1>6 DEF TextInv, Moved

LEMMA WriteWithoutGitText ==
    ASSUME TextInv, TypeOK', NEW c \in Calls, WriteWithoutGit(c)
    PROVE  TextInv'
<1> DEFINE Good == MutateOk(c) /\ (req[c].kind = "edit" => req[c].valid)
           y    == IF Good THEN "ok" ELSE "rejected"
<1>0. pc[c] = "ready" /\ MayWrite(c)
  BY DEF WriteWithoutGit, AcceptsWrite
<1>1. pc' = [pc EXCEPT ![c] = "done"] /\ res' = [res EXCEPT ![c] = y] /\ req' = req
  BY DEF WriteWithoutGit
<1>2. Moved
  BY <1>0, <1>1, MoveLemma DEF TextInv, Moved, Pc, Result, Early
<1>3. PICK B : B = Writers'
  OBVIOUS
<1>4. Writers \subseteq B
  BY <1>2, <1>3 DEF Moved
<1>5. Good /\ req[c].kind \in EditKinds \union CreateKinds => c \in B
  <2>1. req[c].kind \in EditKinds \union CreateKinds => Mode(c) # "denied"
    BY <1>0 DEF MayWrite, EditKinds, CreateKinds, RenameKinds
  <2>2. Mode(c)' = Mode(c)
    BY <1>1 DEF Mode, Granted
  <2>3. pc'[c] = "done" /\ (Good => res'[c] = "ok") /\ req'[c] = req[c]
    BY <1>1 DEF TextInv, TypeOK
  <2> QED
    BY <1>3, <2>1, <2>2, <2>3 DEF Writers, WroteSomething
<1>6. /\ Authors(disk[req[c].file]) \subseteq B
      /\ req[c].kind \in RenameKinds => disk[req[c].file] \subseteq B
  <2>1. Authors(disk[req[c].file]) \subseteq Writers
    BY RequestLemma, TypeParts DEF TextInv, RepoCarries, Carries
  <2>2. req[c].kind \in RenameKinds => disk[req[c].file] # Absent
    BY DEF WriteWithoutGit, AcceptsWrite, TargetsFit, RenameKinds, CreateKinds
  <2> QED
    BY <1>4, <2>1, <2>2 DEF Authors
<1>7. Carries(B, disk) /\ Carries(B, idx) /\ RepoCarries(B)
  BY <1>4, CarriesMono DEF TextInv, RepoCarries
<1>8. Carries(B, disk') /\ Carries(B, idx')
  <2>1. CASE Good
    <3>1. Carries(B, Mutated(c)) /\ Carries(B, Indexed(c))
      BY <1>4, <1>5, <2>1, MutatedText
    <3>2. Indexed(c) \in [Files -> Content]
      BY MutatedType DEF TextInv, Tree
    <3>3. disk' = Mutated(c) /\ idx' \in {Indexed(c),
                [Indexed(c) EXCEPT ![req[c].dest] = disk[req[c].file]]}
      BY <2>1 DEF WriteWithoutGit
    <3> QED
      BY <1>6, <3>1, <3>2, <3>3 DEF Carries
  <2>2. CASE ~Good
    BY <1>7, <2>2 DEF WriteWithoutGit
  <2> QED
    BY <2>1, <2>2
<1>9. RepoCarries(Writers)' /\ Carries(Writers, idx)'
  BY <1>3, <1>7, <1>8 DEF WriteWithoutGit, RepoCarries, Carries
<1>10. \A d \in Calls : seen'[d] \subseteq Writers'
  BY <1>3, <1>4, <1>6 DEF WriteWithoutGit, TextInv, TypeOK
<1> QED
  BY <1>2, <1>9, <1>10 DEF TextInv, Moved

LEMMA ReviewText ==
    ASSUME TextInv, TypeOK', NEW c \in Calls,
           \/ CheckMergeable(c) \/ CheckoutDefault(c) \/ MergeProposal(c)
           \/ RevParse(c) \/ DeleteProposal(c)
    PROVE  TextInv'
<1> USE TypeParts
<1>0. RepoTypeOK /\ CallTypeOK
  BY DEF TextInv
<1>1. CASE CheckMergeable(c)
  <2>1. Moved
    <3>1. req[c].kind \in ReviewKinds
      BY <1>1 DEF CheckMergeable, TextInv, PlaceInv
    <3> QED
      BY <1>1, <3>1, GoesMove, LeavesMove DEF CheckMergeable, Pc, Result, Early
  <2> QED
    BY <1>1, <2>1, StayCarries, KeepLemma DEF CheckMergeable, Goes, Answers, Moved
<1>2. CASE CheckoutDefault(c)
  <2>1. Moved
    BY <1>2, GoesMove, LeavesMove DEF CheckoutDefault, Pc, Result, Early
  <2>2. \A A : RepoCarries(A) => RepoCarries(A)'
    BY <1>0, <1>2, DefaultAssumption, StayCarries, CheckoutCarries DEF CheckoutDefault
  <2> QED
    BY <1>2, <2>1, <2>2, KeepLemma DEF CheckoutDefault, Goes, Leaves, Moved
<1>3. CASE MergeProposal(c)
  <2>1. Moved
    BY <1>3, GoesMove, LeavesMove DEF MergeProposal, Pc, Result, Early
  <2>2. \A A : RepoCarries(A) => RepoCarries(A)'
    <3>1. MergeStarts(branch[c]) => Exists(branch[c])
      BY DEF MergeStarts
    <3> QED
      BY <1>0, <1>3, <3>1, RequestLemma, StayCarries, MergeCarries, MergeStopsCarries
      DEF MergeProposal
  <2> QED
    BY <1>3, <2>1, <2>2, KeepLemma DEF MergeProposal, Goes, Leaves, Moved
<1>4. CASE RevParse(c)
  <2>1. Moved
    BY <1>4, GoesMove DEF RevParse, Pc, Early
  <2> QED
    BY <1>4, <2>1, StayCarries, KeepLemma DEF RevParse, Goes, Moved
<1>5. CASE DeleteProposal(c)
  <2>1. Moved
    BY <1>5, LeavesMove DEF DeleteProposal, Result, Early
  <2>2. \A A : RepoCarries(A) => RepoCarries(A)'
    BY <1>5, StayCarries DEF DeleteProposal, DeleteBranch, RepoCarries, Carries
  <2> QED
    BY <1>5, <2>1, <2>2, KeepLemma DEF DeleteProposal, Leaves, Moved
<1> QED
  BY <1>1, <1>2, <1>3, <1>4, <1>5

LEMMA GitFailsText ==
    ASSUME TextInv, TypeOK', NEW c \in Calls, GitFails(c)
    PROVE  TextInv'
<1>1. Moved
  <2>1. CASE pc[c] = "restore" /\ req[c].kind = "approve"
    <3>1. /\ pc' = [pc EXCEPT ![c] = "done"] /\ UNCHANGED req
          /\ res' = [res EXCEPT ![c] = res[c]] /\ res[c] \in Result
      BY <2>1 DEF GitFails, Goes, TextInv, TypeOK
    <3> QED
      BY <2>1, <3>1, MoveLemma DEF TextInv, Moved, Pc, Early
  <2>2. CASE ~(pc[c] = "restore" /\ req[c].kind = "approve")
    BY <2>2, LeavesMove DEF GitFails, Result
  <2> QED
    BY <2>1, <2>2
<1> QED
  BY <1>1, StayCarries, KeepLemma DEF GitFails, Goes, Leaves, Moved

(* What a client may have seen was written by calls that had the right to. *)
LEMMA PrepareText ==
    ASSUME TextInv, TypeOK', NEW c \in Calls, Prepare(c)
    PROVE  TextInv'
<1>1. PICK r \in Menu[c] :
          /\ req' = [req EXCEPT ![c] = r]
          /\ \/ UNCHANGED seen
             \/ \E v \in KnownVersions(r.caller, r.file) : seen' = [seen EXCEPT ![c] = v]
  BY DEF Prepare
<1>2. r.file \in Files /\ r.caller \in Callers
  BY MenuAssumption DEF Request
<1>3. ASSUME NEW v \in KnownVersions(r.caller, r.file)
      PROVE  v \subseteq Writers
  <2>1. CASE v \in {disk[r.file]} \ {Absent}
    BY <1>2, <2>1 DEF TextInv, RepoCarries, Carries, Authors
  <2>2. CASE v \notin {disk[r.file]} \ {Absent}
    <3>1. PICK d \in Calls : /\ res[d] = "ok" /\ pc[d] = "done" /\ v = AnsweredText(d)
                             /\ req[d].kind \in EditKinds \union CreateKinds \union RenameKinds
      BY <2>2 DEF KnownVersions
    <3>2. seen[d] \subseteq Writers
      BY DEF TextInv
    <3>3. CASE req[d].kind \in RenameKinds
      BY <3>1, <3>2, <3>3 DEF AnsweredText
    <3>4. CASE req[d].kind \notin RenameKinds
      <4>1. req[d].kind \in EditKinds \union CreateKinds /\ Mode(d) # "denied"
        BY <3>1, <3>4 DEF TextInv, ModeInv
      <4>2. d \in Writers
        BY <3>1, <4>1 DEF Writers, WroteSomething
      <4> QED
        BY <3>1, <3>2, <3>4, <4>2 DEF AnsweredText, NewContent
    <3> QED
      BY <3>3, <3>4
  <2> QED
    BY <2>1, <2>2
<1>4. pc[c] = "idle" /\ pc' = [pc EXCEPT ![c] = "ready"] /\ res' = res
  BY DEF Prepare
<1>5. \A d \in Calls \ {c} : pc'[d] = pc[d] /\ req'[d] = req[d]
  BY <1>1, <1>4 DEF TextInv, TypeOK
<1>6. pc'[c] = "ready"
  BY <1>4 DEF TextInv, TypeOK
<1>7. \A d \in Calls \ {c} : Mode(d)' = Mode(d) /\ Active(d)' = Active(d)
  BY <1>5 DEF Mode, Granted, Active
<1>8. ResInv'
  BY <1>4, <1>5, <1>6 DEF TextInv, ResInv
<1>9. ModeInv'
  BY <1>4, <1>5, <1>6, <1>7 DEF TextInv, ModeInv, Active
<1>10. PlaceInv'
  BY <1>5, <1>6 DEF TextInv, PlaceInv
<1>11. Writers \subseteq Writers'
  BY <1>4, <1>5, <1>7 DEF Writers, WroteSomething
<1>12. PICK B : B = Writers'
  OBVIOUS
<1>13. RepoCarries(B) /\ Carries(B, idx)
  BY <1>11, <1>12, CarriesMono DEF TextInv
<1>14. RepoCarries(Writers)' /\ Carries(Writers, idx)'
  BY <1>12, <1>13 DEF Prepare, repoVars, RepoCarries, Carries
<1>15. \A d \in Calls : seen'[d] \subseteq Writers
  BY <1>1, <1>3 DEF TextInv, TypeOK
<1> QED
  BY <1>8, <1>9, <1>10, <1>11, <1>14, <1>15 DEF TextInv

LEMMA CrashText ==
    ASSUME TextInv, TypeOK', Crash
    PROVE  TextInv'
<1>1. \A c \in Calls : /\ Active(c) => pc'[c] = "done" /\ res'[c] = "crashed"
                       /\ ~Active(c) => pc'[c] = pc[c] /\ res'[c] = res[c]
  BY DEF Crash
<1>2. req' = req /\ seen' = seen
  BY DEF Crash
<1>3. \A c \in Calls : Mode(c)' = Mode(c)
  BY <1>2 DEF Mode, Granted
<1>4. ASSUME NEW c \in Calls
      PROVE  \/ Active(c) /\ pc'[c] = "done" /\ res'[c] = "crashed"
             \/ ~Active(c) /\ pc'[c] = pc[c] /\ res'[c] = res[c]
  BY <1>1
<1>5. ResInv' /\ ModeInv' /\ PlaceInv'
  <2>1. ASSUME NEW c \in Calls, pc'[c] \notin {"restore", "done"}
        PROVE  res'[c] = "none"
    BY <1>4, <2>1 DEF TextInv, ResInv
  <2>2. ASSUME NEW c \in Calls, req'[c].kind \in EditKinds \union CreateKinds,
               Active(c)' \/ (pc'[c] = "done" /\ res'[c] # "rejected")
        PROVE  Mode(c)' # "denied"
    <3>1. Active(c) \/ (pc[c] = "done" /\ res[c] # "rejected")
      BY <1>4, <2>2 DEF Active
    <3> QED
      BY <1>2, <1>3, <2>2, <3>1 DEF TextInv, ModeInv
  <2>3. ASSUME NEW c \in Calls, pc'[c] = "mergecheck"
        PROVE  req'[c].kind \in ReviewKinds
    BY <1>2, <1>4, <2>3 DEF TextInv, PlaceInv
  <2> QED
    BY <2>1, <2>2, <2>3 DEF ResInv, ModeInv, PlaceInv
<1>6. Writers \subseteq Writers'
  <2>1. ASSUME NEW c \in Calls, WroteSomething(c)
        PROVE  WroteSomething(c)'
    <3>1. pc'[c] \notin {"idle", "ready", "status", "branch", "write"} /\ res'[c] # "rejected"
      BY <1>4, <2>1 DEF WroteSomething
    <3> QED
      BY <1>2, <1>3, <2>1, <3>1 DEF WroteSomething
  <2> QED
    BY <2>1 DEF Writers
<1>7. PICK B : B = Writers'
  OBVIOUS
<1>8. RepoCarries(B) /\ Carries(B, idx) /\ Carries(B, disk)
  BY <1>6, <1>7, CarriesMono DEF TextInv, RepoCarries
<1>9. Carries(B, idx')
  BY <1>8 DEF Crash, Carries
<1>10. RepoCarries(Writers)' /\ Carries(Writers, idx)'
  BY <1>7, <1>8, <1>9 DEF Crash, repoVars, RepoCarries, Carries
<1> QED
  BY <1>2, <1>4, <1>5, <1>6, <1>10 DEF TextInv

LEMMA TextInit == Init => TextInv
<1> SUFFICES ASSUME Init PROVE TextInv
  OBVIOUS
<1>1. TypeOK
  BY InitType
<1>2. ResInv /\ ModeInv /\ PlaceInv
  BY DEF Init, ResInv, ModeInv, PlaceInv, Active
<1>3. PICK present \in SUBSET Files :
          RepoInit([f \in Files |-> IF f \in present THEN {} ELSE Absent])
  BY DEF Init
<1> DEFINE tree == [f \in Files |-> IF f \in present THEN {} ELSE Absent]
<1>4. Carries(Writers, tree)
  BY DEF Carries, Authors
<1>5. disk = tree /\ staged = tree /\ idx = tree
  BY <1>3 DEF RepoInit, Init
<1>6. Len(commits) = 1 /\ commits[1].tree = tree
  BY <1>3 DEF RepoInit
<1>7. RepoCarries(Writers) /\ Carries(Writers, idx)
  BY <1>4, <1>5, <1>6 DEF RepoCarries
<1> QED
  BY <1>1, <1>2, <1>7 DEF TextInv, Init

LEMMA TextNext == TextInv /\ [Next]_vars => TextInv'
<1> SUFFICES ASSUME TextInv, [Next]_vars PROVE TextInv'
  OBVIOUS
<1>0. TypeOK'
  BY NextType DEF TextInv
<1>1. CASE UNCHANGED vars
  BY <1>0, <1>1 DEF vars, callVars, repoVars, TextInv, ResInv, ModeInv, PlaceInv, Active,
     Mode, Granted, Writers, WroteSomething, RepoCarries, Carries
<1>2. ASSUME NEW c \in Calls, Prepare(c) \/ Submit(c) \/ Step(c) \/ GitFails(c)
      PROVE  TextInv'
  <2>1. CASE Prepare(c)
    BY <1>0, <2>1, PrepareText
  <2>2. CASE Submit(c)
    BY <1>0, <2>2, RefuseText, SubmitWriteText, WriteWithoutGitText DEF Submit
  <2>3. CASE Step(c)
    BY <1>0, <2>3, BeforeWriteText, WriteFileText, CommitText, UpdateIndexText, ReviewText
    DEF Step
  <2>4. CASE GitFails(c)
    BY <1>0, <2>4, GitFailsText
  <2> QED
    BY <1>2, <2>1, <2>2, <2>3, <2>4
<1> QED
  BY <1>0, <1>1, <1>2, CrashText DEF Next, Rest

LEMMA TextInvariant == Spec => []TextInv
<1>1. Init => TextInv
  BY TextInit
<1>2. TextInv /\ [Next]_vars => TextInv'
  BY TextNext
<1> QED
  BY <1>1, <1>2, PTL DEF Spec

(* A refused call leaves no trace in any document, commit or index entry,  *)
(* and nobody's text gets in without the right to write or propose it.     *)
THEOREM RefusedLeaveNoTrace == Spec => []TextIsAuthorised
<1>1. TextInv => TextIsAuthorised
  BY DEF TextInv, RepoCarries, Carries, Writers, TextIsAuthorised
<1> QED
  BY <1>1, TextInvariant, PTL

---------------------------------------------------------------------------
(***************************************************************************)
(* What a single client that awaits each answer can rely on, although git  *)
(* processes fail and the server dies: merges land on the default branch   *)
(* and never stop half way, no proposal is lost, no unseen version is      *)
(* overwritten and the default branch moves by right.  All of it needs a   *)
(* client that waits, so each proof turns on OneActive: what a handler has *)
(* checked stays true up to the step that relies on it, because nobody     *)
(* else moves.                                                             *)
(***************************************************************************)

OneActive == \A c, d \in Calls : Active(c) /\ Active(d) => c = d

(* What an approval knows at each of its steps.                            *)
ReviewKnows(c) ==
    req[c].kind = "approve" =>
        /\ pc[c] \in {"status", "checkout", "merge"} =>
              MergeConflicts(Default, branch[c]) = {}
        /\ pc[c] = "merge" => head = Default
        /\ pc[c] \in {"revparse", "delete"} => Contains(Default, branch[c])

(* What a write knows until it writes.                                     *)
WriteKnows(c) ==
    req[c].kind \in WriteKinds /\ pc[c] \in {"status", "branch", "write"} =>
        TargetsFit(c) /\ (req[c].kind \notin CreateKinds => EtagMatches(c))

(* A proposal is written and committed off the default branch.             *)
ProposalKnows(c) ==
    Proposing(c) /\ pc[c] \in {"write", "add", "commit"} => head # Default

Knows(c) == ReviewKnows(c) /\ WriteKnows(c) /\ ProposalKnows(c)

SerialInv ==
    /\ LedgerInv
    /\ OneActive
    /\ NoHalfMerge
    /\ \A c \in Calls : Knows(c)

LEMMA IdleKnowsNothing ==
    ASSUME NEW c \in Calls
    PROVE  ~Active(c)' => Knows(c)'
BY DEF Active, Knows, ReviewKnows, WriteKnows, ProposalKnows

(* While c takes a step nobody else is active, before or after it.         *)
LEMMA OthersKnow ==
    ASSUME SerialInv, NEW c \in Calls, Step(c) \/ GitFails(c)
    PROVE  /\ OneActive'
           /\ \A d \in Calls \ {c} : ~Active(d) /\ Knows(d)'
<1>1. /\ Active(c)
      /\ \A d \in Calls \ {c} : pc'[d] = pc[d]
  BY OnlyOneMoves DEF SerialInv, LedgerInv
<1>2. \A d \in Calls \ {c} : ~Active(d) /\ ~Active(d)'
  BY <1>1 DEF SerialInv, OneActive, Active
<1> QED
  BY <1>2, IdleKnowsNothing DEF OneActive

(* Steps that leave branches and commits alone leave conflicts alone.      *)
LEMMA SameHistory ==
    ASSUME ref' = ref, commits' = commits, NEW b
    PROVE  /\ MergeConflicts(Default, b)' = MergeConflicts(Default, b')
           /\ Contains(Default, b)' = Contains(Default, b')
BY DEF MergeConflicts, MergeBase, TipTree, Tip, Contains

---------------------------------------------------------------------------
(* WHAT THE ACTIVE CALL KNOWS AFTER ITS STEP                               *)

LEMMA ReviewStepKnows ==
    ASSUME SerialInv, NEW c \in Calls, Step(c) \/ GitFails(c)
    PROVE  ReviewKnows(c)'
<1>1. /\ RepoTypeOK /\ RefsOK /\ branch[c] \in Branches
      /\ pc \in [Calls -> Pc] /\ Placed(c) /\ ReviewKnows(c) /\ req' = req
  BY TypeParts, RequestLemma, OnlyOneMoves DEF SerialInv, LedgerInv, CallTypeOK, Knows
<1>2. SUFFICES ASSUME req[c].kind = "approve", pc'[c] \in {"status", "checkout", "merge",
                                                           "revparse", "delete"}
               PROVE  ReviewKnows(c)'
  BY <1>1 DEF ReviewKnows
<1>3. req[c].kind \notin WriteKinds
  BY <1>2 DEF WriteKinds, EditKinds, CreateKinds, RenameKinds
<1>4. pc[c] \notin {"branch", "write", "add", "commit", "index"}
  BY <1>1, <1>3 DEF Placed
<1>5. CASE GetCurrentBranch(c)
  <2>1. /\ pc[c] = "status" /\ branch' = branch /\ head' = head
        /\ ref' = ref /\ commits' = commits
        /\ pc'[c] \in {"checkout", "merge"} /\ (pc'[c] = "merge" => head = Default)
    BY <1>1, <1>2, <1>3, <1>5 DEF GetCurrentBranch, Proposing, repoVars
  <2> QED
    BY <1>1, <1>2, <2>1, SameHistory DEF ReviewKnows
<1>6. CASE CheckMergeable(c)
  <2>1. /\ branch' = branch /\ ref' = ref /\ commits' = commits
        /\ pc'[c] = "status" /\ MergeConflicts(Default, branch[c]) = {}
    BY <1>1, <1>2, <1>6 DEF CheckMergeable, Goes, Answers, repoVars
  <2> QED
    BY <2>1, SameHistory DEF ReviewKnows
<1>7. CASE CheckoutDefault(c)
  <2>1. /\ branch' = branch /\ pc[c] = "checkout" /\ pc'[c] = "merge"
        /\ Checkout(Default)
    BY <1>1, <1>2, <1>7 DEF CheckoutDefault, Goes, Leaves
  <2>2. ref' = ref /\ commits' = commits /\ head' = Default
    BY <2>1 DEF Checkout
  <2> QED
    BY <1>1, <1>2, <2>1, <2>2, SameHistory DEF ReviewKnows
<1>8. CASE MergeProposal(c)
  <2>1. /\ branch' = branch /\ pc[c] = "merge" /\ pc'[c] = "revparse"
        /\ MergeOk(branch[c]) /\ Merge(branch[c])
    BY <1>1, <1>2, <1>8 DEF MergeProposal, Goes, Leaves
  <2>2. Contains(head, branch[c])' /\ head' = Default
    BY <1>1, <1>2, <2>1, MergeRefs DEF ReviewKnows
  <2>3. Contains(Default, branch[c])'
    BY <2>2 DEF Contains, Tip
  <2> QED
    BY <2>1, <2>3 DEF ReviewKnows
<1>9. CASE RevParse(c)
  <2>1. /\ branch' = branch /\ pc[c] = "revparse" /\ pc'[c] = "delete"
        /\ ref' = ref /\ commits' = commits
    BY <1>1, <1>9 DEF RevParse, Goes, repoVars
  <2> QED
    BY <1>1, <1>2, <2>1, SameHistory DEF ReviewKnows
<1>10. CASE RestoreBranch(c) \/ DeleteProposal(c) \/ GitFails(c)
  <2>1. pc'[c] \in {"restore", "done"}
    BY <1>1, <1>10 DEF RestoreBranch, DeleteProposal, GitFails, Goes, Leaves, Answers
  <2> QED
    BY <1>2, <2>1
<1>11. CASE CreateProposalBranch(c) \/ WriteFile(c) \/ GitAdd(c) \/ GitCommit(c)
            \/ UpdateIndex(c)
  BY <1>4, <1>11 DEF CreateProposalBranch, WriteFile, GitAdd, GitCommit, UpdateIndex
<1> QED
  BY <1>5, <1>6, <1>7, <1>8, <1>9, <1>10, <1>11 DEF Step

LEMMA WriteStepKnows ==
    ASSUME SerialInv, NEW c \in Calls, Step(c) \/ GitFails(c)
    PROVE  WriteKnows(c)' /\ ProposalKnows(c)'
<1>1. /\ pc \in [Calls -> Pc] /\ branch \in [Calls -> Branches]
      /\ Placed(c) /\ WriteKnows(c) /\ ProposalKnows(c)
      /\ req' = req /\ seen' = seen
  BY TypeParts, OnlyOneMoves DEF SerialInv, LedgerInv, CallTypeOK, Knows
<1>2. /\ Proposing(c)' = Proposing(c)
      /\ disk' = disk => TargetsFit(c)' = TargetsFit(c) /\ EtagMatches(c)' = EtagMatches(c)
  BY <1>1 DEF Proposing, Mode, Granted, TargetsFit, EtagMatches
<1>3. CASE GetCurrentBranch(c)
  <2>1. /\ pc[c] = "status" /\ disk' = disk
        /\ Proposing(c) => pc'[c] \in {"branch", "done"}
    BY <1>1, <1>3 DEF GetCurrentBranch, repoVars
  <2> QED
    BY <1>1, <1>2, <2>1 DEF WriteKnows, ProposalKnows
<1>4. CASE CreateProposalBranch(c)
  <2>1. PICK s \in Stamps :
          LET b == <<req[c].caller, req[c].file, s>>
          IN  \/ CreateBranch(b) /\ pc'[c] = "write"
              \/ UNCHANGED repoVars /\ pc'[c] = "restore"
    BY <1>1, <1>4 DEF CreateProposalBranch
  <2> DEFINE b == <<req[c].caller, req[c].file, s>>
  <2>2. b # Default
    BY ProposalAssumption, TypeParts, RequestLemma DEF SerialInv, LedgerInv, Proposals
  <2>3. /\ pc[c] = "branch" /\ disk' = disk
        /\ pc'[c] = "write" => head' # Default
        /\ pc'[c] \in {"write", "restore"}
    BY <1>4, <2>1, <2>2 DEF CreateBranch, repoVars, CreateProposalBranch
  <2> QED
    BY <1>1, <1>2, <2>3 DEF WriteKnows, ProposalKnows
<1>5. CASE WriteFile(c) \/ GitAdd(c)
  <2>1. /\ pc[c] \in {"write", "add"} /\ head' = head
        /\ pc'[c] \in {"add", "commit", "restore", "done"}
    <3>1. CASE WriteFile(c)
      BY <1>1, <3>1 DEF WriteFile, Goes, Leaves
    <3>2. CASE GitAdd(c)
      BY <1>1, <3>2 DEF GitAdd, Add, repoVars, Goes, Leaves
    <3> QED
      BY <1>5, <3>1, <3>2
  <2> QED
    BY <1>1, <1>2, <2>1 DEF WriteKnows, ProposalKnows
<1>6. CASE GitCommit(c) \/ UpdateIndex(c) \/ RestoreBranch(c) \/ GitFails(c)
  <2>1. pc'[c] \in {"index", "restore", "done"}
    BY <1>1, <1>6 DEF GitCommit, UpdateIndex, RestoreBranch, GitFails, Goes, Leaves, Answers
  <2> QED
    BY <2>1 DEF WriteKnows, ProposalKnows
<1>7. CASE CheckMergeable(c) \/ CheckoutDefault(c) \/ MergeProposal(c) \/ RevParse(c)
           \/ DeleteProposal(c)
  <2>1. pc[c] \in {"mergecheck", "checkout", "merge", "revparse", "delete"}
    BY <1>7 DEF CheckMergeable, CheckoutDefault, MergeProposal, RevParse, DeleteProposal
  <2>2. req[c].kind \in {"approve", "reject"}
    BY <1>1, <2>1 DEF Placed, ReviewKinds
  <2>3. req'[c].kind \notin WriteKinds
    BY <1>1, <2>2 DEF WriteKinds, EditKinds, CreateKinds, RenameKinds
  <2> QED
    BY <2>3 DEF WriteKnows, ProposalKnows, Proposing
<1> QED
  BY <1>3, <1>4, <1>5, <1>6, <1>7 DEF Step

(* git commits and merges begin and end with nothing half merged; the one  *)
(* that could stop half way was checked for conflicts.                     *)
LEMMA StepNoHalfMerge ==
    ASSUME SerialInv, NEW c \in Calls, Step(c) \/ GitFails(c)
    PROVE  NoHalfMerge'
<1>1. NoHalfMerge /\ Placed(c) /\ ReviewKnows(c)
  BY DEF SerialInv, LedgerInv, Knows
<1>2. CASE MergeProposal(c)
  <2>1. pc[c] = "merge" /\ req[c].kind = "approve"
    BY <1>1, <1>2 DEF MergeProposal, Placed
  <2>2. MergeConflicts(head, branch[c]) = {}
    BY <1>1, <2>1 DEF ReviewKnows
  <2>3. ~(MergeStarts(branch[c]) /\ ~MergeOk(branch[c]))
    BY <2>2 DEF MergeOk
  <2>4. Merge(branch[c]) \/ UNCHANGED repoVars
    BY <1>2, <2>3 DEF MergeProposal
  <2> QED
    BY <1>1, <2>4 DEF Merge, repoVars, NoHalfMerge
<1>3. CASE GitCommit(c)
  BY <1>1, <1>3 DEF GitCommit, CommitPaths, repoVars, NoHalfMerge
<1>4. CASE GitAdd(c)
  BY <1>1, <1>4 DEF GitAdd, Add, repoVars, NoHalfMerge
<1>5. CASE RestoreBranch(c) \/ CheckoutDefault(c)
  BY <1>1, <1>5 DEF RestoreBranch, CheckoutDefault, Checkout, repoVars, NoHalfMerge
<1>6. CASE CreateProposalBranch(c)
  BY <1>1, <1>6 DEF CreateProposalBranch, CreateBranch, repoVars, NoHalfMerge
<1>7. CASE DeleteProposal(c)
  BY <1>1, <1>7 DEF DeleteProposal, DeleteBranch, repoVars, NoHalfMerge
<1>8. CASE \/ GetCurrentBranch(c) \/ WriteFile(c) \/ UpdateIndex(c) \/ CheckMergeable(c)
           \/ RevParse(c) \/ GitFails(c)
  BY <1>1, <1>8 DEF GetCurrentBranch, WriteFile, UpdateIndex, CheckMergeable, RevParse,
     GitFails, repoVars, NoHalfMerge
<1> QED
  BY <1>2, <1>3, <1>4, <1>5, <1>6, <1>7, <1>8 DEF Step

---------------------------------------------------------------------------
(* A request enters an idle server, and knows what it has just checked.    *)
LEMMA RequestSerial ==
    ASSUME SerialInv, LedgerInv', Exclusive, NEW c \in Calls, Prepare(c) \/ Submit(c)
    PROVE  SerialInv'
<1>1. /\ \A d \in Calls : ~Active(d)
      /\ \A d \in Calls \ {c} : pc'[d] = pc[d]
  BY RequestLedger DEF SerialInv, Prepare, Submit, Refuse, SubmitReview, SubmitWrite,
     WriteWithoutGit, MayStart, Quiet
<1>2. \A d \in Calls \ {c} : ~Active(d)'
  BY <1>1 DEF Active
<1>3. OneActive'
  BY <1>2 DEF OneActive
<1>4. NoHalfMerge'
  BY DEF SerialInv, Prepare, Submit, Refuse, SubmitReview, SubmitWrite, WriteWithoutGit,
     repoVars, NoHalfMerge
<1>5. Knows(c)'
  <2>1. /\ pc \in [Calls -> Pc] /\ req \in [Calls -> Request]
        /\ seen \in [Calls -> SUBSET Calls]
    BY TypeParts DEF SerialInv, LedgerInv, CallTypeOK
  <2>2. CASE Prepare(c) \/ Refuse(c) \/ WriteWithoutGit(c)
    <3>1. pc'[c] \in {"ready", "done"}
      BY <2>1, <2>2 DEF Prepare, Refuse, WriteWithoutGit, Answers
    <3> QED
      BY <3>1, IdleKnowsNothing DEF Active
  <2>3. CASE SubmitReview(c)
    <3>1. /\ pc'[c] \in {"mergecheck", "delete"} /\ req' = req
          /\ pc'[c] = "delete" => req[c].kind # "approve"
      BY <2>1, <2>3 DEF SubmitReview, Goes
    <3> QED
      BY <3>1 DEF Knows, ReviewKnows, WriteKnows, ProposalKnows
  <2>4. CASE SubmitWrite(c)
    <3>1. /\ pc'[c] = "status" /\ req' = req /\ disk' = disk
          /\ req[c].kind \in WriteKinds /\ AcceptsWrite(c)
          /\ seen'[c] = IF req[c].kind \in RenameKinds THEN disk[req[c].file] ELSE seen[c]
      BY <2>1, <2>4 DEF SubmitWrite, repoVars
    <3>2. req[c].kind # "approve"
      BY <3>1 DEF WriteKinds, EditKinds, CreateKinds, RenameKinds
    <3>3. TargetsFit(c)'
      BY <3>1 DEF AcceptsWrite, TargetsFit
    <3>4. req[c].kind \notin CreateKinds => EtagMatches(c)'
      BY <3>1 DEF AcceptsWrite, EtagMatches
    <3> QED
      BY <3>1, <3>2, <3>3, <3>4 DEF Knows, ReviewKnows, WriteKnows, ProposalKnows
  <2> QED
    BY <2>2, <2>3, <2>4 DEF Submit
<1> QED
  BY <1>2, <1>3, <1>4, <1>5, IdleKnowsNothing DEF SerialInv

LEMMA SerialNext ==
    ASSUME Exclusive, SerialInv, [Next]_vars
    PROVE  SerialInv'
<1>1. LedgerInv'
  BY LedgerNext DEF SerialInv
<1>2. CASE UNCHANGED vars
  <2>1. /\ disk' = disk /\ head' = head /\ ref' = ref /\ commits' = commits
        /\ merging' = merging /\ unmerged' = unmerged
        /\ pc' = pc /\ req' = req /\ branch' = branch /\ seen' = seen
    BY <1>2 DEF vars, callVars, repoVars
  <2>2. ASSUME NEW c \in Calls
        PROVE  Knows(c)'
    <3>1. Knows(c) /\ (Proposing(c)' = Proposing(c))
      BY <2>1 DEF SerialInv, Proposing, Mode, Granted
    <3>2. TargetsFit(c)' = TargetsFit(c) /\ EtagMatches(c)' = EtagMatches(c)
      BY <2>1 DEF TargetsFit, EtagMatches
    <3>3. /\ MergeConflicts(Default, branch[c])' = MergeConflicts(Default, branch[c])
          /\ Contains(Default, branch[c])' = Contains(Default, branch[c])
      BY <2>1 DEF MergeConflicts, MergeBase, TipTree, Tip, Contains
    <3>4. ReviewKnows(c)'
      BY <2>1, <3>1, <3>3 DEF Knows, ReviewKnows
    <3>5. WriteKnows(c)' /\ ProposalKnows(c)'
      BY <2>1, <3>1, <3>2 DEF Knows, WriteKnows, ProposalKnows
    <3> QED
      BY <3>4, <3>5 DEF Knows
  <2>3. OneActive' /\ NoHalfMerge'
    BY <2>1 DEF SerialInv, OneActive, Active, NoHalfMerge
  <2> QED
    BY <1>1, <2>2, <2>3 DEF SerialInv
<1>3. ASSUME NEW c \in Calls, Prepare(c) \/ Submit(c)
      PROVE  SerialInv'
  BY <1>1, <1>3, RequestSerial
<1>4. ASSUME NEW c \in Calls, Step(c) \/ GitFails(c)
      PROVE  SerialInv'
  BY <1>1, <1>4, OthersKnow, ReviewStepKnows, WriteStepKnows, StepNoHalfMerge
  DEF SerialInv, Knows
<1>5. CASE Crash
  <2>1. \A c \in Calls : ~Active(c)'
    BY <1>5 DEF Crash, Active
  <2>2. NoHalfMerge'
    BY <1>5 DEF Crash, repoVars, SerialInv, NoHalfMerge
  <2> QED
    BY <1>1, <2>1, <2>2, IdleKnowsNothing DEF SerialInv, OneActive
<1> QED
  BY <1>2, <1>3, <1>4, <1>5 DEF Next, Rest

LEMMA SerialInit == Init => SerialInv
<1> SUFFICES ASSUME Init PROVE SerialInv
  OBVIOUS
<1>1. \A c \in Calls : ~Active(c) /\ Knows(c)
  BY DEF Init, Active, Knows, ReviewKnows, WriteKnows, ProposalKnows
<1>2. NoHalfMerge
  BY DEF Init, RepoInit, NoHalfMerge
<1> QED
  BY <1>1, <1>2, LedgerInit DEF SerialInv, OneActive

LEMMA SerialInvariant ==
    ASSUME Exclusive
    PROVE  Spec => []SerialInv
<1>1. SerialInv /\ [Next]_vars => SerialInv'
  BY SerialNext
<1> QED
  BY <1>1, SerialInit, PTL DEF Spec

---------------------------------------------------------------------------
(* No call ever leaves a merge half done: the conflicts that checkMergeable *)
(* looked for are the ones git finds (proposals.ts:191-194).               *)
THEOREM SerialMergesWhole ==
    ASSUME Exclusive
    PROVE  Spec => []NoHalfMerge
<1>1. SerialInv => NoHalfMerge
  BY DEF SerialInv
<1> QED
  BY <1>1, SerialInvariant, PTL

(* Only approvals merge, and they know where.                              *)
LEMMA MergeStep ==
    ASSUME SerialInv, SerialInv', [Next]_vars, NEW c \in Calls,
           pc[c] = "merge", pc'[c] = "revparse"
    PROVE  head = Default /\ Contains(Default, branch[c])'
<1>1. /\ Placed(c) /\ Placed(c)' /\ ReviewKnows(c) /\ ReviewKnows(c)'
  BY DEF SerialInv, LedgerInv, Knows
<1>2. req[c].kind = "approve" /\ req'[c].kind = "approve"
  BY <1>1 DEF Placed
<1> QED
  BY <1>1, <1>2 DEF ReviewKnows

(* An approval merges into the default branch, whatever was checked out    *)
(* when it started (operations.ts:306-308).                                *)
THEOREM SerialMergesLandOnDefault ==
    ASSUME Exclusive
    PROVE  Spec => MergesLandOnDefault
<1>1. SerialInv /\ SerialInv' /\ [Next]_vars =>
        [\A c \in Calls : pc[c] = "merge" /\ pc'[c] = "revparse"
                          => head = Default /\ Contains(Default, branch[c])']_vars
  BY MergeStep
<1> QED
  BY <1>1, SerialInvariant, PTL DEF Spec, MergesLandOnDefault

---------------------------------------------------------------------------
(* Every branch survives a step, save the one that a review deletes.       *)
LEMMA BranchesStay ==
    ASSUME SerialInv, [Next]_vars, NEW b \in Branches, Exists(b), ~Exists(b)'
    PROVE  \E c \in Calls : DeleteProposal(c) /\ branch[c] = b
<1>1. /\ RepoTypeOK /\ commits \in Seq(Commit) /\ Len(commits) \in Nat
      /\ ref \in [Branches -> 0 .. Len(commits)]
  BY TypeParts DEF SerialInv, LedgerInv, RepoTypeOK
<1>2. ref' # ref
  BY DEF Exists
<1>3. PICK c \in Calls : Step(c) \/ GitFails(c)
  BY <1>2 DEF Next, Rest, Crash, vars, repoVars, Prepare, Submit, Refuse, SubmitReview,
     SubmitWrite, WriteWithoutGit
<1> DEFINE Advance == ref' = [ref EXCEPT ![head] = Len(commits) + 1]
<1>3a. ~Advance
  BY <1>1 DEF Exists
<1> HIDE DEF Advance
<1>4. ASSUME NEW paths, CommitPaths(paths)
      PROVE  FALSE
  BY <1>2, <1>4, <1>3a DEF CommitPaths, repoVars, Advance
<1>5. ASSUME NEW x, Merge(x)
      PROVE  FALSE
  BY <1>2, <1>5, <1>3a DEF Merge, repoVars, Advance
<1>6. ~(\E x \in Branches : CreateBranch(x))
  BY <1>1, HeadLemma DEF CreateBranch, Exists
<1>7. Paths(c) \in SUBSET Files /\ branch[c] \in Branches
  BY TypeParts, RequestLemma DEF SerialInv, LedgerInv
<1>8. ~CreateProposalBranch(c)
  <2>1. ASSUME NEW s \in Stamps
        PROVE  <<req[c].caller, req[c].file, s>> \in Branches
    BY BranchesAssumption, TypeParts, RequestLemma DEF SerialInv, LedgerInv, Proposals
  <2> QED
    BY <1>2, <1>6, <2>1 DEF CreateProposalBranch, repoVars
<1>9. ~GitCommit(c) /\ ~MergeProposal(c)
  BY <1>2, <1>4, <1>5, <1>7 DEF GitCommit, MergeProposal, MergeStopsOnConflict, repoVars
<1>10. ~(GetCurrentBranch(c) \/ WriteFile(c) \/ UpdateIndex(c) \/ CheckMergeable(c)
         \/ RevParse(c) \/ GitFails(c))
  BY <1>2 DEF GetCurrentBranch, WriteFile, UpdateIndex, CheckMergeable, RevParse, GitFails,
     repoVars
<1>11. ~(GitAdd(c) \/ RestoreBranch(c) \/ CheckoutDefault(c))
  BY <1>2 DEF GitAdd, Add, RestoreBranch, CheckoutDefault, Checkout, repoVars
<1>12. DeleteProposal(c)
  BY <1>3, <1>8, <1>9, <1>10, <1>11 DEF Step
<1>13. ref' = [ref EXCEPT ![branch[c]] = 0]
  BY <1>2, <1>12 DEF DeleteProposal, DeleteBranch, repoVars
<1> QED
  BY <1>1, <1>12, <1>13 DEF Exists

LEMMA DeletedWasMerged ==
    ASSUME SerialInv, [Next]_vars, NEW b \in Proposals, Exists(b), ~Exists(b)'
    PROVE  \/ Contains(Default, b)
           \/ \E c \in Calls : req[c].kind = "reject" /\ branch[c] = b /\ Active(c)
<1>1. PICK c \in Calls : DeleteProposal(c) /\ branch[c] = b
  BY BranchesAssumption, BranchesStay
<1>2. pc[c] = "delete" /\ Active(c)
  BY <1>1 DEF DeleteProposal, Active
<1>3. req[c].kind \in {"approve", "reject"} /\ ReviewKnows(c)
  BY <1>2 DEF SerialInv, LedgerInv, Placed, ReviewKinds, Knows
<1> QED
  BY <1>1, <1>2, <1>3 DEF ReviewKnows

(* A proposal branch goes away only by a reject, or when all its commits   *)
(* are on the default branch, although it is deleted with -D               *)
(* (operations.ts:354).                                                    *)
THEOREM SerialLosesNoProposal ==
    ASSUME Exclusive
    PROVE  Spec => NoProposalLost
<1>1. SerialInv /\ [Next]_vars =>
        [\A b \in Proposals : Exists(b) /\ ~Exists(b)' =>
            \/ Contains(Default, b)
            \/ \E c \in Calls : req[c].kind = "reject" /\ branch[c] = b /\ Active(c)]_vars
  BY DeletedWasMerged
<1> QED
  BY <1>1, SerialInvariant, PTL DEF Spec, NoProposalLost

---------------------------------------------------------------------------
(* The one step in which a handler changes documents of its own accord.    *)
LEMMA SeenBeforeWrite ==
    ASSUME RequireRead, SerialInv, [Next]_vars, NEW c \in Calls, NEW f \in Files,
           pc[c] \in {"ready", "write"}, pc'[c] # pc[c],
           disk[f] # Absent, disk'[f] # disk[f]
    PROVE  disk[f] = seen[c]
<1>1. /\ pc \in [Calls -> Pc] /\ req[c] \in Request /\ WriteKnows(c) /\ Placed(c)
      /\ disk \in Tree /\ req[c].file \in Files /\ req[c].dest \in Files
  BY TypeParts, RequestLemma DEF SerialInv, LedgerInv, CallTypeOK, RepoTypeOK, Knows
<1>2. WriteFile(c) \/ WriteWithoutGit(c)
  <2>1. disk' # disk
    OBVIOUS
  <2>2. PICK d \in Calls : Submit(d) \/ Step(d)
    BY <2>1 DEF Next, Rest, Crash, GitFails, Prepare, vars, repoVars
  <2>3. d = c
    BY <2>2, RequestLedger, OnlyOneMoves DEF SerialInv, LedgerInv
  <2>4. CASE Submit(d)
    BY <2>1, <2>3, <2>4 DEF Submit, Refuse, SubmitReview, SubmitWrite, repoVars
  <2>5. CASE Step(d)
    BY <2>3, <2>5 DEF Step, GetCurrentBranch, CreateProposalBranch, GitAdd,
       GitCommit, UpdateIndex, RestoreBranch, CheckMergeable, CheckoutDefault,
       MergeProposal, RevParse, DeleteProposal
  <2> QED
    BY <2>2, <2>4, <2>5
<1>3. /\ disk' = Mutated(c) /\ req[c].kind \in WriteKinds
      /\ TargetsFit(c) /\ (req[c].kind \notin CreateKinds => EtagMatches(c))
  <2>1. CASE WriteFile(c)
    <3>1. pc[c] = "write" /\ disk' = Mutated(c)
      BY <2>1 DEF WriteFile
    <3> QED
      BY <1>1, <3>1 DEF Placed, WriteKnows
  <2>2. CASE WriteWithoutGit(c)
    BY <2>2 DEF WriteWithoutGit, AcceptsWrite
  <2> QED
    BY <1>2, <2>1, <2>2
<1> QED
  BY <1>1, <1>3, MutatesSeen

(* A handler replaces, moves or deletes only a version of a document that  *)
(* its client has seen (SKILL.md:109).                                     *)
THEOREM SerialOverwritesOnlySeen ==
    ASSUME Exclusive, RequireRead
    PROVE  Spec => NoUnseenOverwrite
<1>1. SerialInv /\ [Next]_vars =>
        [\A c \in Calls, f \in Files :
            /\ pc[c] \in {"ready", "write"} /\ pc'[c] # pc[c]
            /\ disk[f] # Absent /\ disk'[f] # disk[f]
            => disk[f] = seen[c]]_vars
  BY SeenBeforeWrite
<1> QED
  BY <1>1, SerialInvariant, PTL DEF Spec, NoUnseenOverwrite

---------------------------------------------------------------------------
LEMMA DefaultMoves ==
    ASSUME SerialInv, SerialInv', [Next]_vars, ref'[Default] # ref[Default]
    PROVE  \E c \in Calls :
              \/ pc[c] = "commit" /\ pc'[c] = "index" /\ ~Proposing(c)
              \/ pc[c] = "merge" /\ pc'[c] = "revparse" /\ Contains(Default, branch[c])'
<1>1. /\ ref \in [Branches -> 0 .. Len(commits)] /\ head \in Branches
      /\ pc \in [Calls -> Pc] /\ Default \in Branches
  BY DefaultAssumption, TypeParts DEF SerialInv, LedgerInv, CallTypeOK, RepoTypeOK
<1>2. PICK c \in Calls : Step(c) \/ GitFails(c)
  BY DEF Next, Rest, Crash, vars, repoVars, Prepare, Submit, Refuse, SubmitReview,
     SubmitWrite, WriteWithoutGit
<1>3. CASE GitCommit(c)
  <2>1. pc[c] = "commit" /\ pc'[c] = "index" /\ CommitPaths(Paths(c))
    BY <1>1, <1>3 DEF GitCommit, Goes, repoVars
  <2>2. head = Default
    <3>1. ref' = [ref EXCEPT ![head] = Len(commits) + 1]
      BY <2>1 DEF CommitPaths, repoVars
    <3> QED
      BY <1>1, <3>1
  <2> QED
    BY <2>1, <2>2 DEF SerialInv, Knows, ProposalKnows
<1>4. CASE MergeProposal(c)
  <2>1. pc[c] = "merge" /\ pc'[c] = "revparse"
    BY <1>1, <1>4 DEF MergeProposal, MergeStopsOnConflict, Goes, repoVars
  <2> QED
    BY <2>1, MergeStep
<1>5. CASE CreateProposalBranch(c)
  <2>1. ASSUME NEW s \in Stamps
        PROVE  <<req[c].caller, req[c].file, s>> # Default
    BY ProposalAssumption, TypeParts, RequestLemma DEF SerialInv, LedgerInv, Proposals
  <2> QED
    BY <1>1, <1>5, <2>1 DEF CreateProposalBranch, CreateBranch, repoVars
<1>6. CASE DeleteProposal(c)
  <2>1. branch[c] # Default
    BY <1>6 DEF DeleteProposal, SerialInv, LedgerInv, Placed, Active
  <2> QED
    BY <1>1, <1>6, <2>1 DEF DeleteProposal, DeleteBranch, repoVars
<1>7. ~(GetCurrentBranch(c) \/ WriteFile(c) \/ UpdateIndex(c) \/ CheckMergeable(c)
        \/ RevParse(c) \/ GitFails(c))
  BY DEF GetCurrentBranch, WriteFile, UpdateIndex, CheckMergeable, RevParse, GitFails,
     repoVars
<1>8. ~(GitAdd(c) \/ RestoreBranch(c) \/ CheckoutDefault(c))
  BY DEF GitAdd, Add, RestoreBranch, CheckoutDefault, Checkout, repoVars
<1> QED
  BY <1>2, <1>3, <1>4, <1>5, <1>6, <1>7, <1>8 DEF Step

(* The default branch moves only by the commit of a call in write mode, or *)
(* by the merge of the proposal its approver named; never by the commit of *)
(* a proposal (write-helpers.ts:92-96).                                    *)
THEOREM SerialDefaultMovesByRight ==
    ASSUME Exclusive
    PROVE  Spec => DefaultMovesByRight
<1>1. SerialInv /\ SerialInv' /\ [Next]_vars =>
        [ref'[Default] # ref[Default] =>
           \E c \in Calls :
              \/ pc[c] = "commit" /\ pc'[c] = "index" /\ ~Proposing(c)
              \/ pc[c] = "merge" /\ pc'[c] = "revparse" /\ Contains(Default, branch[c])'
        ]_vars
  BY DefaultMoves
<1> QED
  BY <1>1, SerialInvariant, PTL DEF Spec, DefaultMovesByRight
===========================================================================
