------------------------ MODULE WorkspaceCalmProofs ------------------------
(***************************************************************************)
(* What a single client that awaits each answer can rely on as long as no  *)
(* git process fails and the server stays up: the working tree is clean    *)
(* whenever nothing runs, what was answered "ok" is on the default branch, *)
(* what was only proposed is not until it is approved, and the write path  *)
(* implements the abstract store of proposals.                             *)
(*                                                                         *)
(* The argument follows one call at a time.  A handler starts on a clean   *)
(* default branch; Tidy says how far from it each of its steps may be, and *)
(* that its last step is back there.                                       *)
(***************************************************************************)
EXTENDS WorkspaceProofs, WorkspaceStore

Calm  == faults = 0 /\ crashes = 0
Clean == disk = TipTree(head) /\ staged = TipTree(head)
Home  == head = Default /\ Clean

---------------------------------------------------------------------------
(* What a write makes of a tree, and when it fits one.                     *)
Fits(c, t) ==
    CASE req[c].kind \in CreateKinds -> t[req[c].file] = Absent
      [] req[c].kind \in RenameKinds ->
            t[req[c].file] # Absent /\ t[req[c].dest] = Absent
      [] OTHER -> t[req[c].file] # Absent

Saw(c, t) == req[c].kind \notin CreateKinds => (RequireRead => seen[c] = t[req[c].file])

Changed(c, t) ==
    CASE req[c].kind \in EditKinds \union CreateKinds ->
            [t EXCEPT ![req[c].file] = NewContent(c)]
      [] req[c].kind = "delete" -> [t EXCEPT ![req[c].file] = Absent]
      [] OTHER -> [f \in Files |-> IF f = req[c].dest THEN t[req[c].file]
                                   ELSE IF f = req[c].file THEN Absent
                                   ELSE t[f]]

LEMMA OnDisk ==
    ASSUME NEW c \in Calls
    PROVE  /\ TargetsFit(c) <=> Fits(c, disk)
           /\ Mutated(c) = Changed(c, disk)
           /\ (req[c].kind \notin CreateKinds => EtagMatches(c)) <=> Saw(c, disk)
BY DEF TargetsFit, Fits, Mutated, Changed, EtagMatches, Saw

(* A write changes its own paths only, and each of them is in the tree     *)
(* before or after it.                                                     *)
LEMMA ChangedPaths ==
    ASSUME NEW c \in Calls, NEW t \in Tree, Fits(c, t), CallTypeOK,
           req[c].kind \in WriteKinds
    PROVE  /\ \A f \in Files \ Paths(c) : Changed(c, t)[f] = t[f]
           /\ \A f \in Paths(c) : Changed(c, t)[f] # Absent \/ t[f] # Absent
<1>1. req[c].file \in Files /\ req[c].dest \in Files
  BY RequestLemma
<1>2. NewContent(c) # Absent
  <2>1. seen[c] \in SUBSET Calls
    BY DEF CallTypeOK
  <2>2. NewContent(c) \in SUBSET Calls
    BY <2>1 DEF NewContent
  <2> QED
    BY <2>2, AbsentAssumption
<1>3. CASE req[c].kind \in EditKinds \union CreateKinds
  <2>1. Paths(c) = {req[c].file}
    BY <1>3 DEF Paths, EditKinds, CreateKinds, RenameKinds
  <2> DEFINE new == NewContent(c)
  <2>2. Changed(c, t) = [t EXCEPT ![req[c].file] = new]
    BY <1>3 DEF Changed, EditKinds, CreateKinds
  <2>3. new # Absent
    BY <1>2
  <2> HIDE DEF new
  <2> QED
    BY <1>1, <2>1, <2>2, <2>3 DEF Tree
<1>4. CASE req[c].kind = "delete"
  <2>1. Paths(c) = {req[c].file}
    BY <1>4 DEF Paths, RenameKinds
  <2>2. Changed(c, t) = [t EXCEPT ![req[c].file] = Absent]
    BY <1>4 DEF Changed, EditKinds, CreateKinds
  <2>3. t[req[c].file] # Absent
    BY <1>4 DEF Fits, CreateKinds, RenameKinds
  <2> QED
    BY <1>1, <2>1, <2>2, <2>3 DEF Tree
<1>5. CASE req[c].kind \in RenameKinds
  <2>1. Paths(c) = {req[c].file, req[c].dest}
    BY <1>5 DEF Paths
  <2>2. Changed(c, t) = [f \in Files |-> IF f = req[c].dest THEN t[req[c].file]
                                         ELSE IF f = req[c].file THEN Absent ELSE t[f]]
    BY <1>5 DEF Changed, EditKinds, CreateKinds, RenameKinds
  <2>3. t[req[c].file] # Absent
    BY <1>5 DEF Fits, CreateKinds, RenameKinds
  <2> QED
    BY <1>1, <2>1, <2>2, <2>3
<1> QED
  BY <1>3, <1>4, <1>5 DEF WriteKinds

---------------------------------------------------------------------------
(* THE GIT COMMANDS ON A CLEAN TREE                                        *)

LEMMA SameTips ==
    ASSUME ref' = ref, commits' = commits
    PROVE  \A b : Tip(b)' = Tip(b') /\ TipTree(b)' = TipTree(b')
BY DEF Tip, TipTree

LEMMA CheckoutClean ==
    ASSUME RepoTypeOK, Clean, NoHalfMerge, NEW b \in Branches, Exists(b)
    PROVE  /\ CheckoutOk(b)
           /\ Checkout(b) => head' = b /\ Clean' /\ ref' = ref /\ commits' = commits
<1>1. TipTree(b) \in Tree /\ TipTree(head) \in Tree
  BY TipLemma, HeadLemma
<1>2. CheckoutOk(b)
  BY DEF CheckoutOk, NoHalfMerge, Clean
<1>3. ASSUME Checkout(b)
      PROVE  disk' = TipTree(b) /\ staged' = TipTree(b)
  BY <1>1, <1>3 DEF Checkout, Clean, Tree
<1>4. ASSUME Checkout(b)
      PROVE  head' = b /\ TipTree(head)' = TipTree(b) /\ ref' = ref /\ commits' = commits
  BY <1>4 DEF Checkout, TipTree, Tip
<1> QED
  BY <1>2, <1>3, <1>4 DEF Clean

(* After a commit on top of HEAD.                                          *)
Appended(tree, anc) ==
    /\ commits' = Append(commits, [tree |-> tree, anc |-> anc])
    /\ ref' = [ref EXCEPT ![head] = Len(commits) + 1]
    /\ head' = head

LEMMA AppendedTip ==
    ASSUME RepoTypeOK, NEW tree, NEW anc, [tree |-> tree, anc |-> anc] \in Commit,
           Appended(tree, anc)
    PROVE  /\ TipTree(head)' = tree /\ Tip(head)'.anc = anc
           /\ ref'[head] = Len(commits) + 1
           /\ Len(commits') = Len(commits) + 1
           /\ \A i \in 1 .. Len(commits) : commits'[i] = commits[i]
           /\ \A b \in Branches : b # head => ref'[b] = ref[b]
<1>1. /\ commits \in Seq(Commit) /\ Len(commits) \in Nat
      /\ ref \in [Branches -> 0 .. Len(commits)] /\ head \in Branches
  BY DEF RepoTypeOK
<1>2. /\ ref'[head] = Len(commits) + 1 /\ head' = head
      /\ \A b \in Branches : b # head => ref'[b] = ref[b]
  BY <1>1 DEF Appended
<1>3. /\ commits'[Len(commits) + 1] = [tree |-> tree, anc |-> anc]
      /\ Len(commits') = Len(commits) + 1
      /\ \A i \in 1 .. Len(commits) : commits'[i] = commits[i]
  BY <1>1 DEF Appended
<1> QED
  BY <1>2, <1>3 DEF TipTree, Tip

(* The whole change is committed when the paths cover it.                  *)
LEMMA CommitClean ==
    ASSUME RepoTypeOK, staged = disk, NEW paths \in SUBSET Files,
           \A f \in Files \ paths : disk[f] = TipTree(head)[f],
           CommitPaths(paths)
    PROVE  /\ head' = head /\ disk' = disk /\ Clean'
           /\ \/ ref' = ref /\ commits' = commits /\ disk = TipTree(head)
              \/ Appended(disk, Tip(head).anc \union {Len(commits) + 1})
<1> DEFINE tree == [f \in Files |-> IF f \in paths THEN disk[f] ELSE TipTree(head)[f]]
           anc  == Tip(head).anc \union {Len(commits) + 1}
<1>1. TipTree(head) \in Tree /\ disk \in Tree /\ Tip(head).anc \in SUBSET Nat
      /\ Len(commits) \in Nat
  BY TipLemma, HeadLemma DEF RepoTypeOK
<1>2. tree = disk
  BY <1>1 DEF Tree
<1>3. CASE tree = TipTree(head)
  BY <1>2, <1>3 DEF CommitPaths, repoVars, Clean, TipTree, Tip
<1>4. CASE tree # TipTree(head)
  <2>1. /\ commits' = Append(commits, [tree |-> tree, anc |-> anc])
        /\ ref' = [ref EXCEPT ![head] = Len(commits) + 1]
        /\ staged' = [f \in Files |-> IF f \in paths THEN disk[f] ELSE staged[f]]
        /\ disk' = disk /\ head' = head
    BY <1>4 DEF CommitPaths
  <2>2. staged' = disk
    BY <1>1, <2>1 DEF Tree
  <2>3. anc \in SUBSET Nat
    BY <1>1
  <2>4. [tree |-> disk, anc |-> anc] \in Commit
    BY <1>1, <2>3 DEF Commit
  <2>5. Appended(disk, anc)
    BY <1>2, <2>1 DEF Appended
  <2>6. TipTree(head)' = disk
    BY <2>4, <2>5, AppendedTip
  <2> QED
    BY <2>1, <2>2, <2>5, <2>6 DEF Clean
<1> QED
  BY <1>3, <1>4

LEMMA MergeClean ==
    ASSUME RepoTypeOK, RefsOK, Clean, NEW b \in Branches, MergeOk(b), Merge(b)
    PROVE  /\ head' = head /\ Clean'
           /\ \/ ref' = ref /\ commits' = commits
              \/ /\ ~Contains(head, b) /\ Exists(b) /\ MergeConflicts(head, b) = {}
                 /\ Appended(MergedTree(head, b),
                             Tip(head).anc \union Tip(b).anc \union {Len(commits) + 1})
<1> DEFINE tree == MergedTree(head, b)
           anc  == Tip(head).anc \union Tip(b).anc \union {Len(commits) + 1}
<1>1. Exists(b)
  BY DEF MergeOk, MergeUpToDate, MergeStarts
<1>2. CASE Contains(head, b)
  BY <1>2 DEF Merge, repoVars, Clean, TipTree, Tip
<1>3. CASE ~Contains(head, b)
  <2>1. tree \in Tree /\ TipTree(head) \in Tree /\ anc \in SUBSET Nat
    BY <1>1, MergedTreeType, HeadLemma, TipLemma DEF RepoTypeOK
  <2>2. /\ commits' = Append(commits, [tree |-> tree, anc |-> anc])
        /\ ref' = [ref EXCEPT ![head] = Len(commits) + 1]
        /\ staged' = tree
        /\ disk' = [f \in Files |-> IF tree[f] = TipTree(head)[f] THEN disk[f] ELSE tree[f]]
        /\ head' = head
    BY <1>3 DEF Merge
  <2> HIDE DEF tree, anc
  <2>3. disk' = tree
    BY <2>1, <2>2 DEF Clean, Tree
  <2>4. [tree |-> tree, anc |-> anc] \in Commit /\ Appended(tree, anc)
    BY <2>1, <2>2 DEF Commit, Appended
  <2>5. TipTree(head)' = tree
    BY <2>4, AppendedTip
  <2>6. MergeConflicts(head, b) = {}
    BY <1>3 DEF MergeOk, MergeUpToDate
  <2> QED
    BY <1>1, <1>3, <2>2, <2>3, <2>4, <2>5, <2>6 DEF Clean, tree, anc
<1> QED
  BY <1>2, <1>3

---------------------------------------------------------------------------
(* ONE HANDLER AT A TIME ON A CLEAN TREE                                   *)

(* How far from a clean default branch each step of call c may be.         *)
TidyAt(c) ==
    /\ original[c] = Default /\ pc[c] # "checkout"
    /\ pc[c] \in {"branch", "restore"} => Proposing(c)
    /\ Active(c) /\ (pc[c] \in {"status", "branch"} \/ ~Proposing(c)) => head = Default
    /\ Active(c) /\ pc[c] \notin {"add", "commit"} => Clean
    /\ pc[c] \in {"add", "commit"} =>
          /\ disk = Changed(c, TipTree(head))
          /\ Fits(c, TipTree(head)) /\ Saw(c, TipTree(head))
    /\ pc[c] = "add" => staged = TipTree(head)
    /\ pc[c] = "commit" => staged = disk
    /\ Proposing(c) /\ pc[c] \in {"write", "add", "commit"} =>
          head = branch[c] /\ ref[branch[c]] = ref[Default]

Tidy == (\A c \in Calls : TidyAt(c)) /\ (Quiet => Home)

TidyInv == SerialInv /\ (Calm => Tidy)

LEMMA IdleTidy ==
    ASSUME NEW c \in Calls, original'[c] = Default
    PROVE  ~Active(c)' => TidyAt(c)'
BY DEF Active, TidyAt

LEMMA SameChange ==
    ASSUME req' = req, seen' = seen, NEW c, TipTree(head)' = TipTree(head)
    PROVE  /\ Changed(c, TipTree(head))' = Changed(c, TipTree(head))
           /\ Fits(c, TipTree(head))' = Fits(c, TipTree(head))
           /\ Saw(c, TipTree(head))' = Saw(c, TipTree(head))
BY DEF Changed, NewContent, Fits, Saw

LEMMA SameRepo ==
    ASSUME UNCHANGED repoVars
    PROVE  /\ TipTree(head)' = TipTree(head) /\ Clean' = Clean
           /\ head' = head /\ ref' = ref /\ commits' = commits
           /\ disk' = disk /\ staged' = staged
BY DEF repoVars, TipTree, Tip, Clean

(* The steps of a write up to its commit.                                  *)
LEMMA BeginTidy ==
    ASSUME SerialInv, Tidy, NEW c \in Calls,
           GetCurrentBranch(c) \/ CreateProposalBranch(c)
    PROVE  TidyAt(c)' /\ (pc'[c] = "done" => Home') /\ original' = [original EXCEPT ![c] = Default]
<1>1. /\ TypeOK /\ RepoTypeOK /\ pc \in [Calls -> Pc] /\ branch \in [Calls -> Branches]
      /\ original \in [Calls -> Branches] /\ req[c] \in Request /\ TidyAt(c)
      /\ req' = req /\ seen' = seen
  BY TypeParts, RequestLemma, OnlyOneMoves DEF SerialInv, LedgerInv, CallTypeOK, Tidy, Step
<1>2. Proposing(c)' = Proposing(c)
  BY <1>1 DEF Proposing, Mode, Granted
<1>3. CASE GetCurrentBranch(c)
  <2>1. /\ pc[c] = "status" /\ head = Default /\ Clean /\ UNCHANGED repoVars
        /\ original' = [original EXCEPT ![c] = Default]
        /\ pc'[c] \in {"done", "branch", "write", "merge"}
        /\ Proposing(c) <=> pc'[c] = "branch" \/ (Proposing(c) /\ pc'[c] = "done")
    BY <1>1, <1>3 DEF GetCurrentBranch, TidyAt, Active
  <2> QED
    BY <1>1, <1>2, <2>1, SameRepo DEF TidyAt, Home, Active
<1>4. CASE CreateProposalBranch(c)
  <2>1. pc[c] = "branch" /\ head = Default /\ Clean /\ Proposing(c) /\ original' = original
        /\ original[c] = Default
    BY <1>1, <1>4 DEF CreateProposalBranch, TidyAt, Active
  <2>2. PICK s \in Stamps :
          LET b == <<req[c].caller, req[c].file, s>>
          IN  /\ branch' = [branch EXCEPT ![c] = b]
              /\ \/ /\ CreateBranchOk(b) /\ CreateBranch(b)
                    /\ pc' = [pc EXCEPT ![c] = "write"]
                 \/ /\ ~CreateBranchOk(b) /\ UNCHANGED repoVars
                    /\ pc' = [pc EXCEPT ![c] = "restore"]
    BY <1>4 DEF CreateProposalBranch
  <2> DEFINE b == <<req[c].caller, req[c].file, s>>
  <2>3. b \in Branches /\ b # Default
    BY <1>1, BranchesAssumption, ProposalAssumption DEF Proposals, Request
  <2>4. original' = [original EXCEPT ![c] = Default]
    BY <1>1, <2>1
  <2> HIDE DEF b
  <2>5. CASE CreateBranch(b) /\ pc' = [pc EXCEPT ![c] = "write"]
    <3>1. /\ head' = b /\ branch'[c] = b /\ pc'[c] = "write"
          /\ ref'[b] = ref[Default] /\ ref'[Default] = ref[Default]
          /\ commits' = commits /\ disk' = disk /\ staged' = staged
      BY <1>1, <2>1, <2>2, <2>3, <2>5, DefaultAssumption DEF CreateBranch, RepoTypeOK, b
    <3>2. TipTree(head)' = TipTree(head)
      BY <2>1, <3>1 DEF TipTree, Tip
    <3>3. Clean'
      BY <2>1, <3>1, <3>2 DEF Clean
    <3> QED
      BY <1>1, <1>2, <2>1, <2>4, <3>1, <3>3 DEF TidyAt
  <2>6. CASE UNCHANGED repoVars /\ pc' = [pc EXCEPT ![c] = "restore"]
    BY <1>1, <1>2, <2>1, <2>4, <2>6, SameRepo DEF TidyAt
  <2> QED
    BY <2>2, <2>5, <2>6 DEF b
<1> QED
  BY <1>3, <1>4

LEMMA WriteTidy ==
    ASSUME SerialInv, Tidy, NEW c \in Calls, WriteFile(c) \/ GitAdd(c)
    PROVE  TidyAt(c)' /\ (pc'[c] = "done" => Home') /\ original' = original
<1>1. /\ TypeOK /\ RepoTypeOK /\ CallTypeOK /\ pc \in [Calls -> Pc]
      /\ Paths(c) \in SUBSET Files
      /\ original[c] = Default /\ req[c] \in Request /\ TidyAt(c) /\ Placed(c) /\ WriteKnows(c)
      /\ NoHalfMerge /\ req' = req /\ seen' = seen
  BY TypeParts, RequestLemma, OnlyOneMoves
  DEF SerialInv, LedgerInv, CallTypeOK, Tidy, TidyAt, Knows, Step
<1>2. Proposing(c)' = Proposing(c)
  BY <1>1 DEF Proposing, Mode, Granted
<1>3. TipTree(head) \in Tree /\ disk \in Tree /\ staged \in Tree
  BY <1>1, HeadLemma, TipLemma DEF RepoTypeOK
<1>4. CASE WriteFile(c)
  <2>1. /\ pc[c] = "write" /\ Clean /\ req[c].kind \in WriteKinds
        /\ Fits(c, TipTree(head)) /\ Saw(c, TipTree(head))
        /\ Mutated(c) = Changed(c, TipTree(head))
    <3>1. pc[c] = "write"
      BY <1>4 DEF WriteFile
    <3>2. Clean /\ req[c].kind \in WriteKinds
      BY <1>1, <3>1 DEF TidyAt, Active, Placed
    <3>3. TargetsFit(c) /\ (req[c].kind \notin CreateKinds => EtagMatches(c))
      BY <1>1, <3>1, <3>2 DEF WriteKnows
    <3> QED
      BY <3>1, <3>2, <3>3, OnDisk DEF Clean
  <2>2. /\ head' = head /\ ref' = ref /\ commits' = commits /\ staged' = staged
        /\ branch' = branch /\ original' = original
    BY <1>4 DEF WriteFile, Goes, Leaves
  <2>3. TipTree(head)' = TipTree(head)
    BY <2>2 DEF TipTree, Tip
  <2>4. CASE disk' = Mutated(c) /\ Goes(c, "add")
    <3>1. pc'[c] = "add"
      BY <1>1, <2>4 DEF Goes
    <3>2. disk' = Changed(c, TipTree(head))' /\ staged' = TipTree(head)'
      BY <1>1, <2>1, <2>2, <2>3, <2>4, SameChange DEF Clean
    <3>3. Fits(c, TipTree(head))' /\ Saw(c, TipTree(head))'
      BY <1>1, <2>1, <2>3, SameChange
    <3>4. /\ Active(c)' /\ ~Proposing(c) => head' = Default
          /\ Proposing(c) => head' = branch'[c] /\ ref'[branch'[c]] = ref'[Default]
      BY <1>1, <2>1, <2>2 DEF TidyAt, Active
    <3> QED
      BY <1>1, <1>2, <2>2, <3>1, <3>2, <3>3, <3>4 DEF TidyAt
  <2>5. CASE disk' = disk /\ pc'[c] \in {"restore", "done"}
             /\ (pc'[c] = "restore" <=> Proposing(c))
    <3>1. Clean'
      BY <2>1, <2>2, <2>3, <2>5 DEF Clean
    <3>2. ~Proposing(c) => head' = Default
      BY <1>1, <2>1, <2>2 DEF TidyAt, Active
    <3> QED
      BY <1>1, <1>2, <2>2, <2>5, <3>1, <3>2 DEF TidyAt, Home
  <2>6. ~MutateOk(c) => disk' = disk /\ pc'[c] \in {"restore", "done"}
                        /\ (pc'[c] = "restore" <=> Proposing(c))
    <3>1. req[c].kind # "approve"
      BY <2>1 DEF WriteKinds, EditKinds, CreateKinds, RenameKinds
    <3> QED
      BY <1>1, <1>4, <2>1, <3>1 DEF WriteFile, Leaves, FinallyRestores
  <2> QED
    BY <1>4, <2>4, <2>5, <2>6 DEF WriteFile
<1>5. CASE GitAdd(c)
  <2>1. /\ pc[c] = "add" /\ req[c].kind \in WriteKinds
        /\ disk = Changed(c, TipTree(head)) /\ staged = TipTree(head)
        /\ Fits(c, TipTree(head)) /\ Saw(c, TipTree(head))
    BY <1>1, <1>5 DEF GitAdd, TidyAt, Placed
  <2>2. /\ \A f \in Files \ Paths(c) : disk[f] = staged[f]
        /\ \A f \in Paths(c) : disk[f] # Absent \/ staged[f] # Absent
    BY <1>1, <1>3, <2>1, ChangedPaths
  <2>3. AddOk(Paths(c))
    BY <2>2 DEF AddOk
  <2>4. Add(Paths(c)) /\ Goes(c, "commit")
    BY <1>5, <2>3 DEF GitAdd
  <2>5. staged' = disk
    BY <1>3, <2>2, <2>4 DEF Add, Tree
  <2>6. /\ head' = head /\ ref' = ref /\ commits' = commits /\ disk' = disk
        /\ branch' = branch /\ original' = original /\ pc'[c] = "commit"
    BY <1>1, <2>4 DEF Add, Goes
  <2>7. TipTree(head)' = TipTree(head)
    BY <2>6 DEF TipTree, Tip
  <2>8. /\ disk' = Changed(c, TipTree(head))'
        /\ Fits(c, TipTree(head))' /\ Saw(c, TipTree(head))'
    BY <1>1, <2>1, <2>6, <2>7, SameChange
  <2>9. /\ ~Proposing(c) => head' = Default
        /\ Proposing(c) => head' = branch'[c] /\ ref'[branch'[c]] = ref'[Default]
    BY <1>1, <2>1, <2>6 DEF TidyAt, Active
  <2> QED
    BY <1>1, <1>2, <2>5, <2>6, <2>8, <2>9 DEF TidyAt
<1> QED
  BY <1>4, <1>5

(* A commit finds all it needs; nothing of the change is left behind.      *)
LEMMA CommitTidy ==
    ASSUME SerialInv, Tidy, NEW c \in Calls, GitCommit(c)
    PROVE  /\ TidyAt(c)' /\ pc'[c] = "index" /\ original' = original /\ branch' = branch
           /\ head' = head /\ req[c].kind \in WriteKinds
           /\ disk = Changed(c, TipTree(head))
           /\ Fits(c, TipTree(head)) /\ Saw(c, TipTree(head))
           /\ \/ ref' = ref /\ commits' = commits /\ disk = TipTree(head)
              \/ Appended(disk, Tip(head).anc \union {Len(commits) + 1})
<1>1. /\ TypeOK /\ RepoTypeOK /\ CallTypeOK /\ pc \in [Calls -> Pc]
      /\ Paths(c) \in SUBSET Files
      /\ original[c] = Default /\ TidyAt(c) /\ Placed(c)
      /\ NoHalfMerge /\ req' = req
  BY TypeParts, RequestLemma, OnlyOneMoves
  DEF SerialInv, LedgerInv, CallTypeOK, Tidy, TidyAt, Step
<1>2. Proposing(c)' = Proposing(c)
  BY <1>1 DEF Proposing, Mode, Granted
<1>3. TipTree(head) \in Tree /\ disk \in Tree /\ staged \in Tree
  BY <1>1, HeadLemma, TipLemma DEF RepoTypeOK
<1>4. /\ pc[c] = "commit" /\ req[c].kind \in WriteKinds
      /\ disk = Changed(c, TipTree(head)) /\ staged = disk
      /\ Fits(c, TipTree(head)) /\ Saw(c, TipTree(head))
      /\ ~Proposing(c) => head = Default
  BY <1>1 DEF GitCommit, TidyAt, Placed, Active
<1>5. /\ \A f \in Files \ Paths(c) : disk[f] = TipTree(head)[f]
      /\ \A f \in Paths(c) : disk[f] # Absent \/ TipTree(head)[f] # Absent
  BY <1>1, <1>3, <1>4, ChangedPaths
<1>6. CommitOk(Paths(c))
  BY <1>1, <1>4, <1>5 DEF CommitOk, NoHalfMerge
<1>7. CommitPaths(Paths(c)) /\ Goes(c, "index")
  BY <1>6 DEF GitCommit
<1>8. /\ head' = head /\ Clean'
      /\ \/ ref' = ref /\ commits' = commits /\ disk = TipTree(head)
         \/ Appended(disk, Tip(head).anc \union {Len(commits) + 1})
  BY <1>1, <1>4, <1>5, <1>7, CommitClean
<1>9. pc'[c] = "index" /\ original' = original /\ branch' = branch
  BY <1>1, <1>7 DEF Goes
<1>10. TidyAt(c)'
  BY <1>1, <1>2, <1>4, <1>8, <1>9 DEF TidyAt
<1> QED
  BY <1>4, <1>8, <1>9, <1>10

LEMMA EndTidy ==
    ASSUME SerialInv, Tidy, NEW c \in Calls, UpdateIndex(c) \/ RestoreBranch(c)
    PROVE  TidyAt(c)' /\ (pc'[c] = "done" => Home') /\ original' = original
           /\ ref' = ref /\ commits' = commits
<1>1. /\ TypeOK /\ RepoTypeOK /\ pc \in [Calls -> Pc]
      /\ original[c] = Default /\ TidyAt(c)
      /\ NoHalfMerge /\ req' = req /\ Default \in Branches /\ Exists(Default)
  BY TypeParts, OnlyOneMoves, DefaultAssumption
  DEF SerialInv, LedgerInv, CallTypeOK, Tidy, TidyAt, Step, RefsOK
<1>2. Proposing(c)' = Proposing(c)
  BY <1>1 DEF Proposing, Mode, Granted
<1>3. CASE UpdateIndex(c)
  <2>1. /\ UNCHANGED repoVars /\ original' = original /\ Clean /\ pc[c] = "index"
        /\ pc'[c] = IF Proposing(c) THEN "restore" ELSE "done"
        /\ ~Proposing(c) => head = Default
    BY <1>1, <1>3 DEF UpdateIndex, TidyAt, Active
  <2> QED
    BY <1>1, <1>2, <2>1, SameRepo DEF TidyAt, Home
<1>4. CASE RestoreBranch(c)
  <2>1. pc[c] = "restore" /\ Clean
    BY <1>1, <1>4 DEF RestoreBranch, TidyAt, Active
  <2>2. /\ CheckoutOk(Default)
        /\ Checkout(Default) =>
              head' = Default /\ Clean' /\ ref' = ref /\ commits' = commits
    BY <1>1, <2>1, CheckoutClean
  <2>3. Checkout(Default) /\ Goes(c, "done")
    BY <1>1, <1>4, <2>2 DEF RestoreBranch
  <2>4. pc'[c] = "done" /\ original' = original
    BY <1>1, <2>3 DEF Goes
  <2> QED
    BY <1>1, <2>2, <2>3, <2>4, IdleTidy DEF Home, Active
<1> QED
  BY <1>3, <1>4

LEMMA ReviewTidy ==
    ASSUME SerialInv, Tidy, NEW c \in Calls,
           CheckMergeable(c) \/ MergeProposal(c) \/ RevParse(c) \/ DeleteProposal(c)
    PROVE  TidyAt(c)' /\ (pc'[c] = "done" => Home') /\ original' = original
<1>1. /\ TypeOK /\ RepoTypeOK /\ RefsOK /\ pc \in [Calls -> Pc] /\ branch[c] \in Branches
      /\ original[c] = Default /\ TidyAt(c) /\ Placed(c) /\ ReviewKnows(c)
      /\ NoHalfMerge /\ req' = req
  BY TypeParts, RequestLemma, OnlyOneMoves
  DEF SerialInv, LedgerInv, CallTypeOK, Tidy, TidyAt, Step, Knows
<1>2. /\ pc[c] \in {"mergecheck", "merge", "revparse", "delete"}
      /\ req[c].kind \in ReviewKinds
  BY <1>1 DEF CheckMergeable, MergeProposal, RevParse, DeleteProposal, Placed, ReviewKinds
<1>3. ~Proposing(c) /\ ~Proposing(c)' /\ head = Default /\ Clean
  BY <1>1, <1>2 DEF Proposing, WriteKinds, EditKinds, CreateKinds, RenameKinds, ReviewKinds,
     TidyAt, Active
<1>4. ~FinallyRestores(c)
  BY <1>1, <1>3 DEF FinallyRestores, ShouldRestore
<1>5. /\ original' = original
      /\ pc'[c] \in {"done", "status", "revparse", "delete"}
  BY <1>1, <1>4 DEF CheckMergeable, MergeProposal, RevParse, DeleteProposal, Goes, Leaves, Answers
<1>6. head' = Default /\ Clean'
  <2>1. CASE UNCHANGED repoVars
    BY <1>3, <2>1, SameRepo
  <2>2. CASE MergeProposal(c)
    <3>1. MergeConflicts(head, branch[c]) = {}
      BY <1>1, <1>2, <1>3, <2>2 DEF MergeProposal, ReviewKnows, Placed
    <3>2. ~(MergeStarts(branch[c]) /\ ~MergeOk(branch[c]))
      BY <3>1 DEF MergeOk
    <3>3. CASE MergeOk(branch[c]) /\ Merge(branch[c])
      BY <1>1, <1>3, <3>3, MergeClean
    <3> QED
      BY <2>1, <2>2, <3>2, <3>3 DEF MergeProposal
  <2>3. CASE DeleteProposal(c) /\ ~UNCHANGED repoVars
    <3>1. DeleteBranchOk(branch[c]) /\ DeleteBranch(branch[c])
      BY <2>3 DEF DeleteProposal
    <3>2. /\ head' = head /\ disk' = disk /\ staged' = staged
          /\ commits' = commits /\ ref'[head] = ref[head]
      BY <1>1, <3>1, HeadLemma DEF DeleteBranchOk, DeleteBranch, RepoTypeOK
    <3>3. TipTree(head)' = TipTree(head)
      BY <3>2 DEF TipTree, Tip
    <3> QED
      BY <1>3, <3>2, <3>3 DEF Clean
  <2>4. CASE CheckMergeable(c) \/ RevParse(c)
    BY <2>1, <2>4 DEF CheckMergeable, RevParse
  <2> QED
    BY <2>1, <2>2, <2>3, <2>4
<1> QED
  BY <1>1, <1>3, <1>5, <1>6 DEF TidyAt, Home, Active

LEMMA RequestTidy ==
    ASSUME Exclusive, GitEnabled, SerialInv, Tidy, NEW c \in Calls, Prepare(c) \/ Submit(c)
    PROVE  Tidy' /\ ref' = ref /\ commits' = commits
<1>1. /\ \A d \in Calls : ~Active(d) /\ original[d] = Default
      /\ \A d \in Calls \ {c} : pc'[d] = pc[d]
      /\ Home /\ pc \in [Calls -> Pc] /\ req \in [Calls -> Request]
  BY RequestLedger, TypeParts
  DEF SerialInv, LedgerInv, CallTypeOK, Prepare, Submit, Refuse, SubmitReview, SubmitWrite,
      WriteWithoutGit, MayStart, Quiet, Tidy, TidyAt
<1>2. /\ UNCHANGED repoVars /\ original' = original
      /\ pc'[c] \in {"ready", "done", "mergecheck", "delete", "status"}
  BY <1>1 DEF Prepare, Submit, Refuse, SubmitReview, SubmitWrite, WriteWithoutGit, Goes, Answers
<1>3. Home'
  BY <1>1, <1>2, SameRepo DEF Home
<1>4. TidyAt(c)'
  BY <1>1, <1>2, <1>3 DEF TidyAt, Home
<1>5. \A d \in Calls \ {c} : TidyAt(d)'
  BY <1>1, <1>2, IdleTidy DEF Active
<1> QED
  BY <1>2, <1>3, <1>4, <1>5, SameRepo DEF Tidy

LEMMA StepTidy ==
    ASSUME SerialInv, Tidy, NEW c \in Calls, Step(c)
    PROVE  Tidy'
<1>1. /\ \A d \in Calls \ {c} : pc'[d] = pc[d] /\ ~Active(d)
      /\ Active(c) /\ \A d \in Calls : TidyAt(d)
  BY OnlyOneMoves, OthersKnow DEF SerialInv, LedgerInv, Tidy
<1>2. TidyAt(c)' /\ (pc'[c] = "done" => Home')
      /\ \A d \in Calls : original'[d] = Default
  <2>1. original \in [Calls -> Branches] /\ \A d \in Calls : original[d] = Default
    BY <1>1, TypeParts DEF SerialInv, LedgerInv, CallTypeOK, TidyAt
  <2>2. ~CheckoutDefault(c)
    BY <1>1 DEF CheckoutDefault, TidyAt
  <2>3. CASE GetCurrentBranch(c) \/ CreateProposalBranch(c)
    BY <2>1, <2>3, BeginTidy
  <2>4. CASE WriteFile(c) \/ GitAdd(c)
    BY <2>1, <2>4, WriteTidy
  <2>5. CASE GitCommit(c)
    BY <2>1, <2>5, CommitTidy
  <2>6. CASE UpdateIndex(c) \/ RestoreBranch(c)
    BY <2>1, <2>6, EndTidy
  <2>7. CASE CheckMergeable(c) \/ MergeProposal(c) \/ RevParse(c) \/ DeleteProposal(c)
    BY <2>1, <2>7, ReviewTidy
  <2> QED
    BY <2>2, <2>3, <2>4, <2>5, <2>6, <2>7 DEF Step
<1>3. \A d \in Calls \ {c} : TidyAt(d)'
  BY <1>1, <1>2, IdleTidy DEF Active
<1>4. Quiet' => Home'
  <2>1. pc'[c] \notin {"idle", "ready"}
    <3>1. pc \in [Calls -> Pc]
      BY TypeParts DEF SerialInv, LedgerInv, CallTypeOK
    <3> QED
      BY <3>1 DEF Step, GetCurrentBranch, CreateProposalBranch, WriteFile, GitAdd, GitCommit,
         UpdateIndex, RestoreBranch, CheckMergeable, CheckoutDefault, MergeProposal, RevParse,
         DeleteProposal, Goes, Leaves, Answers
  <2> QED
    BY <1>2, <2>1 DEF Quiet, Active
<1> QED
  BY <1>2, <1>3, <1>4 DEF Tidy

(* A failing git process or a crash ends the calm for good.                *)
LEMMA CalmNext ==
    ASSUME TypeOK, [Next]_vars, Calm'
    PROVE  /\ Calm
           /\ \/ UNCHANGED vars
              \/ \E c \in Calls : Prepare(c) \/ Submit(c) \/ Step(c)
<1>1. faults \in Nat /\ crashes \in Nat
  BY TypeParts, BoundAssumption DEF RestTypeOK
<1>2. ~Crash /\ \A c \in Calls : ~GitFails(c)
  BY <1>1 DEF Calm, Crash, GitFails
<1>3. \/ UNCHANGED vars
      \/ \E c \in Calls : Prepare(c) \/ Submit(c) \/ Step(c)
  BY <1>2 DEF Next, Rest
<1>4. faults' = faults /\ crashes' = crashes
  BY <1>3 DEF vars, Prepare, Submit, Refuse, SubmitReview, SubmitWrite, WriteWithoutGit,
     Step, GetCurrentBranch, CreateProposalBranch, WriteFile, GitAdd, GitCommit, UpdateIndex,
     RestoreBranch, CheckMergeable, CheckoutDefault, MergeProposal, RevParse, DeleteProposal
<1> QED
  BY <1>3, <1>4 DEF Calm

LEMMA TidyInvariant ==
    ASSUME Exclusive, GitEnabled
    PROVE  Spec => []TidyInv
<1>1. Init => TidyInv
  <2> SUFFICES ASSUME Init PROVE Tidy
    BY SerialInit DEF TidyInv
  <2>1. PICK present \in SUBSET Files :
            RepoInit([f \in Files |-> IF f \in present THEN {} ELSE Absent])
    BY DEF Init
  <2>2. Home
    BY <2>1, DefaultAssumption DEF RepoInit, Home, Clean, TipTree, Tip
  <2>3. \A c \in Calls : TidyAt(c)
    BY DEF Init, TidyAt, Active
  <2> QED
    BY <2>2, <2>3 DEF Tidy
<1>2. TidyInv /\ [Next]_vars => TidyInv'
  <2> SUFFICES ASSUME TidyInv, [Next]_vars, Calm' PROVE Tidy'
    BY SerialNext DEF TidyInv
  <2>1. Tidy /\ SerialInv /\ TypeOK
    BY CalmNext DEF TidyInv, SerialInv, LedgerInv
  <2>2. CASE UNCHANGED vars
    <3>1. /\ UNCHANGED repoVars
          /\ pc' = pc /\ req' = req /\ seen' = seen /\ original' = original /\ branch' = branch
      BY <2>2 DEF vars, callVars
    <3>2. \A c \in Calls : Active(c)' = Active(c) /\ Proposing(c)' = Proposing(c)
      BY <3>1 DEF Active, Proposing, Mode, Granted
    <3>3. \A c \in Calls : TidyAt(c)'
      BY <2>1, <3>1, <3>2, SameRepo, SameChange DEF Tidy, TidyAt
    <3> QED
      BY <2>1, <3>1, <3>2, <3>3, SameRepo DEF Tidy, Quiet, Home
  <2> QED
    BY <2>1, <2>2, CalmNext, RequestTidy, StepTidy
<1> QED
  BY <1>1, <1>2, PTL DEF Spec

(* As long as git works and the server stays up, a client that awaits each *)
(* answer finds HEAD on the default branch, and tree, index and commit in  *)
(* agreement, whenever nothing runs (write-helpers.ts:173-177, the finally *)
(* clause that switches back).                                             *)
THEOREM CalmQuietIsClean ==
    ASSUME Exclusive, GitEnabled
    PROVE  Spec => [](Calm => QuietIsClean)
<1>1. TidyInv => (Calm => QuietIsClean)
  BY DEF TidyInv, Tidy, Home, Clean, QuietIsClean, Published
<1> QED
  BY <1>1, TidyInvariant, PTL

---------------------------------------------------------------------------
(* WHAT A STEP DOES TO BRANCHES AND COMMITS                                *)

Forked(c, b) ==
    /\ CreateProposalBranch(c) /\ branch'[c] = b /\ ~Exists(b)
    /\ ref' = [ref EXCEPT ![b] = ref[Default]] /\ commits' = commits

Committed(c) ==
    /\ GitCommit(c) /\ pc'[c] = "index" /\ branch' = branch
    /\ req[c].kind \in WriteKinds
    /\ Fits(c, TipTree(head)) /\ Saw(c, TipTree(head))
    /\ Appended(Changed(c, TipTree(head)), Tip(head).anc \union {Len(commits) + 1})
    /\ ~Proposing(c) => head = Default
    /\ Proposing(c) => head = branch[c] /\ head \in Proposals /\ ref[head] = ref[Default]

MergedIn(c, b) ==
    /\ MergeProposal(c) /\ pc'[c] = "revparse" /\ branch' = branch /\ branch[c] = b
    /\ Exists(b) /\ ~Contains(Default, b) /\ MergeConflicts(Default, b) = {}
    /\ head = Default
    /\ Appended(MergedTree(head, b), Tip(head).anc \union Tip(b).anc \union {Len(commits) + 1})

Dropped(c, b) ==
    /\ DeleteProposal(c) /\ branch[c] = b /\ Exists(b)
    /\ ref' = [ref EXCEPT ![b] = 0] /\ commits' = commits

Unmoved == ref' = ref /\ commits' = commits

(* The cases of a commit and a merge that find nothing to do move nothing. *)
LEMMA Moves ==
    ASSUME SerialInv, Tidy, NEW c \in Calls, Step(c)
    PROVE  \/ Unmoved
           \/ Committed(c)
           \/ \E b \in Proposals : Forked(c, b) \/ MergedIn(c, b) \/ Dropped(c, b)
<1>1. /\ TypeOK /\ RepoTypeOK /\ RefsOK /\ pc \in [Calls -> Pc]
      /\ branch \in [Calls -> Branches] /\ req[c] \in Request
      /\ TidyAt(c) /\ Placed(c) /\ Knows(c) /\ Active(c)
  BY TypeParts, OnlyOneMoves, RequestLemma DEF SerialInv, LedgerInv, CallTypeOK, Tidy
<1>2. CASE CreateProposalBranch(c)
  <2>1. PICK s \in Stamps :
          LET b == <<req[c].caller, req[c].file, s>>
          IN  /\ branch' = [branch EXCEPT ![c] = b]
              /\ (CreateBranchOk(b) /\ CreateBranch(b)) \/ UNCHANGED repoVars
    BY <1>2 DEF CreateProposalBranch
  <2> DEFINE b == <<req[c].caller, req[c].file, s>>
  <2>2. b \in Proposals
    BY <1>1 DEF Proposals, Request
  <2>3. head = Default /\ branch'[c] = b
    BY <1>1, <1>2, <2>1 DEF TidyAt, CreateProposalBranch
  <2> QED
    BY <1>2, <2>1, <2>2, <2>3 DEF CreateBranchOk, CreateBranch, repoVars, Forked, Unmoved
<1>3. CASE GitCommit(c)
  <2>1. /\ pc'[c] = "index" /\ branch' = branch /\ req[c].kind \in WriteKinds
        /\ Fits(c, TipTree(head)) /\ Saw(c, TipTree(head))
        /\ Unmoved \/ Appended(Changed(c, TipTree(head)), Tip(head).anc \union {Len(commits) + 1})
    BY <1>3, CommitTidy DEF Unmoved
  <2>2. /\ ~Proposing(c) => head = Default
        /\ Proposing(c) => head = branch[c] /\ ref[head] = ref[Default] /\ head # Default
    BY <1>1, <1>3 DEF GitCommit, TidyAt, Knows, ProposalKnows
  <2>3. Proposing(c) => head \in Proposals
    BY <1>1, <2>2, BranchesAssumption DEF RepoTypeOK
  <2> QED
    BY <1>3, <2>1, <2>2, <2>3 DEF Committed
<1>4. CASE MergeProposal(c)
  <2>1. /\ pc[c] = "merge" /\ req[c].kind = "approve" /\ branch' = branch
        /\ head = Default /\ MergeConflicts(head, branch[c]) = {}
        /\ branch[c] # Default /\ branch[c] \in Proposals
    BY <1>1, <1>4, BranchesAssumption DEF MergeProposal, Placed, Knows, ReviewKnows, Goes,
       Leaves, ReviewKinds
  <2>2. ~Proposing(c) /\ Clean
    BY <1>1, <2>1 DEF Proposing, WriteKinds, EditKinds, CreateKinds, RenameKinds, TidyAt
  <2>3. \/ MergeOk(branch[c]) /\ Merge(branch[c]) /\ pc'[c] = "revparse"
        \/ UNCHANGED repoVars
    BY <1>1, <1>4, <2>1 DEF MergeProposal, MergeOk, Goes
  <2>4. CASE MergeOk(branch[c]) /\ Merge(branch[c]) /\ pc'[c] = "revparse"
    BY <1>1, <1>4, <2>1, <2>2, <2>4, MergeClean DEF MergedIn, Unmoved
  <2> QED
    BY <2>3, <2>4 DEF repoVars, Unmoved
<1>5. CASE DeleteProposal(c)
  <2>1. branch[c] \in Proposals
    BY <1>1, <1>5, BranchesAssumption DEF DeleteProposal, Placed
  <2> QED
    BY <1>5, <2>1 DEF DeleteProposal, DeleteBranchOk, DeleteBranch, repoVars, Dropped, Unmoved
<1>6. CASE CheckoutDefault(c)
  BY <1>1, <1>6 DEF CheckoutDefault, TidyAt
<1>7. CASE UpdateIndex(c) \/ RestoreBranch(c)
  BY <1>7, EndTidy DEF Unmoved
<1>8. CASE GetCurrentBranch(c) \/ WriteFile(c) \/ GitAdd(c) \/ CheckMergeable(c) \/ RevParse(c)
  BY <1>8 DEF GetCurrentBranch, WriteFile, GitAdd, Add, CheckMergeable, RevParse, repoVars, Unmoved
<1> QED
  BY <1>2, <1>3, <1>4, <1>5, <1>6, <1>7, <1>8 DEF Step

---------------------------------------------------------------------------
(* HISTORY.  Commits only know commits made before them, and no commit is  *)
(* ever taken off the default branch.                                      *)

History == \A i \in 1 .. Len(commits) : commits[i].anc \subseteq 1 .. i

Kept ==
    /\ Len(commits) <= Len(commits')
    /\ \A i \in 1 .. Len(commits) : commits'[i] = commits[i]
    /\ Tip(Default).anc \subseteq Tip(Default)'.anc

LEMMA TipHistory ==
    ASSUME RepoTypeOK, RefsOK, History, NEW b \in Branches, Exists(b)
    PROVE  /\ ref[b] \in 1 .. Len(commits) /\ ref[b] \in Tip(b).anc
           /\ Tip(b).anc \subseteq 1 .. ref[b] /\ Tip(b).anc \subseteq 1 .. Len(commits)
           /\ Len(commits) \in Nat
<1>1. ref[b] \in 1 .. Len(commits) /\ Len(commits) \in Nat
  BY TipLemma DEF RepoTypeOK
<1>2. ref[b] \in Tip(b).anc /\ Tip(b).anc \subseteq 1 .. ref[b]
  BY <1>1 DEF RefsOK, SelfAnc, History, Tip
<1> QED
  BY <1>1, <1>2

LEMMA AppendedHistory ==
    ASSUME RepoTypeOK, RefsOK, History, NEW tree \in Tree, NEW anc \in SUBSET Nat,
           anc \subseteq 1 .. Len(commits) + 1, Tip(head).anc \subseteq anc,
           Appended(tree, anc)
    PROVE  /\ History' /\ Kept
           /\ Tip(head)'.anc = anc /\ TipTree(head)' = tree
           /\ ref'[head] = Len(commits) + 1 /\ Len(commits') = Len(commits) + 1
           /\ \A b \in Branches : b # head => ref'[b] = ref[b]
<1>1. [tree |-> tree, anc |-> anc] \in Commit
  BY DEF Commit
<1>2. /\ Tip(head)'.anc = anc /\ TipTree(head)' = tree
      /\ ref'[head] = Len(commits) + 1 /\ Len(commits') = Len(commits) + 1
      /\ \A i \in 1 .. Len(commits) : commits'[i] = commits[i]
      /\ \A b \in Branches : b # head => ref'[b] = ref[b]
  BY <1>1, AppendedTip
<1>3. Len(commits) \in Nat /\ head \in Branches /\ head' = head
      /\ ref[Default] \in 1 .. Len(commits) /\ Default \in Branches
  BY TipLemma, DefaultAssumption DEF RepoTypeOK, RefsOK, Appended
<1>4. commits'[Len(commits) + 1].anc = anc
  BY <1>2, <1>3 DEF Tip
<1>5. History'
  <2> SUFFICES ASSUME NEW i \in 1 .. Len(commits) + 1
               PROVE  commits'[i].anc \subseteq 1 .. i
    BY <1>2 DEF History
  <2>1. CASE i \in 1 .. Len(commits)
    BY <1>2, <2>1 DEF History
  <2>2. CASE i = Len(commits) + 1
    BY <1>4, <2>2
  <2> QED
    BY <1>3, <2>1, <2>2
<1>6. Tip(Default).anc \subseteq Tip(Default)'.anc
  <2>1. CASE head = Default
    BY <1>2, <1>3, <2>1 DEF Tip
  <2>2. CASE head # Default
    BY <1>2, <1>3, <2>2 DEF Tip
  <2> QED
    BY <2>1, <2>2
<1> QED
  BY <1>2, <1>3, <1>5, <1>6 DEF Kept

(* In particular for a commit and for a merge.                             *)
LEMMA CommittedHistory ==
    ASSUME RepoTypeOK, RefsOK, History, CallTypeOK, NEW c \in Calls, Committed(c)
    PROVE  /\ History' /\ Kept /\ head \in Branches
           /\ Tip(head)'.anc = Tip(head).anc \union {Len(commits) + 1}
           /\ TipTree(head)' = Changed(c, TipTree(head))
           /\ ref'[head] = Len(commits) + 1
           /\ \A b \in Branches : b # head => ref'[b] = ref[b]
<1> DEFINE tree == Changed(c, TipTree(head))
           anc  == Tip(head).anc \union {Len(commits) + 1}
<1>1. Tip(head).anc \subseteq 1 .. Len(commits) /\ Len(commits) \in Nat /\ head \in Branches
  BY HeadLemma, TipHistory
<1>2. anc \subseteq 1 .. Len(commits) + 1 /\ anc \in SUBSET Nat /\ Tip(head).anc \subseteq anc
  BY <1>1
<1>3. tree \in Tree
  <2>1. TipTree(head) \in Tree /\ req[c].file \in Files /\ req[c].dest \in Files
    BY HeadLemma, TipLemma, RequestLemma
  <2>2. NewContent(c) \in Content
    BY DEF NewContent, CallTypeOK, Content
  <2> QED
    BY <2>1, <2>2 DEF Changed, Tree, Content
<1>4. Appended(tree, anc)
  BY DEF Committed
<1> HIDE DEF tree, anc
<1>5. /\ History' /\ Kept
      /\ Tip(head)'.anc = anc /\ TipTree(head)' = tree
      /\ ref'[head] = Len(commits) + 1
      /\ \A b \in Branches : b # head => ref'[b] = ref[b]
  BY <1>2, <1>3, <1>4, AppendedHistory
<1> QED
  BY <1>1, <1>5 DEF tree, anc

LEMMA MergedHistory ==
    ASSUME RepoTypeOK, RefsOK, History, NEW c \in Calls, NEW b \in Proposals, MergedIn(c, b)
    PROVE  /\ History' /\ Kept /\ head = Default
           /\ Tip(Default)'.anc = Tip(Default).anc \union Tip(b).anc \union {Len(commits) + 1}
           /\ Published' = MergedTree(Default, b)
           /\ \A p \in Proposals : ref'[p] = ref[p]
<1> DEFINE tree == MergedTree(head, b)
           anc  == Tip(head).anc \union Tip(b).anc \union {Len(commits) + 1}
<1>0. b \in Branches /\ Exists(b) /\ head = Default /\ head' = Default
  BY BranchesAssumption DEF MergedIn, Appended
<1>1. Tip(head).anc \subseteq 1 .. Len(commits) /\ Len(commits) \in Nat
      /\ Tip(b).anc \subseteq 1 .. Len(commits)
  BY <1>0, HeadLemma, TipHistory
<1>2. anc \subseteq 1 .. Len(commits) + 1 /\ anc \in SUBSET Nat /\ Tip(head).anc \subseteq anc
  BY <1>1
<1>3. tree \in Tree
  BY <1>0, MergedTreeType
<1>4. Appended(tree, anc)
  BY DEF MergedIn
<1> HIDE DEF tree, anc
<1>5. /\ History' /\ Kept
      /\ Tip(head)'.anc = anc /\ TipTree(head)' = tree
      /\ \A p \in Branches : p # head => ref'[p] = ref[p]
  BY <1>2, <1>3, <1>4, AppendedHistory
<1>6. Tip(Default)'.anc = anc /\ Published' = tree
  BY <1>0, <1>5 DEF Published, TipTree, Tip
<1> QED
  BY <1>0, <1>5, <1>6, BranchesAssumption, ProposalAssumption DEF tree, anc

LEMMA StepHistory ==
    ASSUME SerialInv, Tidy, History, NEW c \in Calls, Step(c)
    PROVE  History' /\ Kept
<1>1. RepoTypeOK /\ RefsOK /\ CallTypeOK /\ Len(commits) \in Nat
  BY TypeParts DEF SerialInv, LedgerInv, RepoTypeOK
<1>2. CASE commits' = commits /\ ref'[Default] = ref[Default]
  BY <1>1, <1>2 DEF History, Kept, Tip
<1>3. CASE Committed(c)
  BY <1>1, <1>3, CommittedHistory
<1>4. ASSUME NEW b \in Proposals, MergedIn(c, b)
      PROVE  History' /\ Kept
  BY <1>1, <1>4, MergedHistory
<1>5. ASSUME NEW b \in Proposals, Forked(c, b) \/ Dropped(c, b)
      PROVE  commits' = commits /\ ref'[Default] = ref[Default]
  BY <1>1, <1>5, ProposalAssumption, DefaultAssumption DEF Forked, Dropped, RepoTypeOK
<1> QED
  BY <1>2, <1>3, <1>4, <1>5, Moves DEF Unmoved

---------------------------------------------------------------------------
(* WHAT WAS ANSWERED "OK" STAYS ON THE DEFAULT BRANCH                      *)

Saved(c) == req[c].kind \in EditKinds \union CreateKinds /\ ~Proposing(c)

OnDefault(c) ==
    \E i \in Tip(Default).anc :
        LET text == commits[i].tree[req[c].file] IN text # Absent /\ c \in text

Keeps(c) ==
    Saved(c) /\ (pc[c] = "index" \/ (pc[c] = "done" /\ res[c] = "ok")) => OnDefault(c)

LEMMA OnDefaultStays ==
    ASSUME RepoTypeOK, RefsOK, History, Kept, NEW c, req'[c] = req[c], OnDefault(c)
    PROVE  OnDefault(c)'
<1>1. Tip(Default).anc \subseteq 1 .. Len(commits)
  BY TipHistory, DefaultAssumption DEF RefsOK
<1>2. PICK i \in Tip(Default).anc :
          commits[i].tree[req[c].file] # Absent /\ c \in commits[i].tree[req[c].file]
  BY DEF OnDefault
<1>3. i \in Tip(Default)'.anc /\ commits'[i] = commits[i]
  BY <1>1, <1>2 DEF Kept
<1> QED
  BY <1>2, <1>3 DEF OnDefault

(* A call that is not c keeps its answer while c moves.                    *)
LEMMA OthersKeepAnswers ==
    ASSUME TypeOK, NEW c \in Calls, Prepare(c) \/ Submit(c) \/ Step(c)
    PROVE  \A d \in Calls \ {c} : res'[d] = res[d]
<1>1. res \in [Calls -> Result]
  BY DEF TypeOK
<1> QED
  BY <1>1 DEF Prepare, Submit, Refuse, SubmitReview, SubmitWrite, WriteWithoutGit, Step,
     GetCurrentBranch, CreateProposalBranch, WriteFile, GitAdd, GitCommit, UpdateIndex,
     RestoreBranch, CheckMergeable, CheckoutDefault, MergeProposal, RevParse, DeleteProposal,
     Goes, Leaves, Answers

LEMMA StepKeeps ==
    ASSUME SerialInv, SerialInv', Tidy, History, NEW c \in Calls, Step(c), Keeps(c)
    PROVE  Keeps(c)'
<1>1. /\ TypeOK /\ RepoTypeOK /\ RefsOK /\ RefsOK' /\ CallTypeOK /\ pc \in [Calls -> Pc]
      /\ res \in [Calls -> Result] /\ Placed(c) /\ TidyAt(c)
      /\ req' = req /\ seen' = seen /\ req[c].file \in Files
  BY TypeParts, OnlyOneMoves, RequestLemma DEF SerialInv, LedgerInv, CallTypeOK, Tidy
<1>2. Proposing(c)' = Proposing(c)
  BY <1>1 DEF Proposing, Mode, Granted
<1>3. SUFFICES ASSUME req[c].kind \in EditKinds \union CreateKinds, ~Proposing(c),
                      pc'[c] = "index" \/ (pc'[c] = "done" /\ res'[c] = "ok")
               PROVE  OnDefault(c)'
  BY <1>1, <1>2 DEF Keeps, Saved
<1>4. req[c].kind \in WriteKinds /\ req[c].kind \notin ReviewKinds
  BY <1>3 DEF EditKinds, CreateKinds, WriteKinds, ReviewKinds
<1>5. CASE GitCommit(c)
  <2>1. /\ head' = head /\ head = Default
        /\ disk = Changed(c, TipTree(head))
        /\ \/ ref' = ref /\ commits' = commits /\ disk = TipTree(head)
           \/ Appended(disk, Tip(head).anc \union {Len(commits) + 1})
    BY <1>1, <1>3, <1>5, CommitTidy DEF GitCommit, TidyAt, Active
  <2>2. TipTree(head)' = disk
    <3>1. CASE ref' = ref /\ commits' = commits /\ disk = TipTree(head)
      BY <2>1, <3>1 DEF TipTree, Tip
    <3>2. CASE Appended(disk, Tip(head).anc \union {Len(commits) + 1})
      <4>1. Tip(head).anc \union {Len(commits) + 1} \in SUBSET Nat /\ disk \in Tree
        BY <1>1, HeadLemma, TipLemma DEF RepoTypeOK
      <4>2. [tree |-> disk, anc |-> Tip(head).anc \union {Len(commits) + 1}] \in Commit
        BY <4>1 DEF Commit
      <4> QED
        BY <1>1, <3>2, <4>2, AppendedTip
    <3> QED
      BY <2>1, <3>1, <3>2
  <2>3. commits'[ref'[Default]].tree = disk
    BY <2>1, <2>2 DEF TipTree, Tip
  <2>4. ref'[Default] \in Tip(Default)'.anc
    <3>1. RepoTypeOK' /\ Exists(Default)' /\ SelfAnc'
      BY <1>1, TypeParts DEF SerialInv, LedgerInv, RefsOK
    <3>2. ref'[Default] \in 1 .. Len(commits')
      BY <3>1, DefaultAssumption DEF RepoTypeOK, Exists
    <3> QED
      BY <3>1, <3>2 DEF SelfAnc, Tip
  <2>5. disk[req[c].file] = NewContent(c) /\ NewContent(c) # Absent /\ c \in NewContent(c)
    <3>1. seen[c] \in SUBSET Calls /\ TipTree(head) \in Tree
      BY <1>1, HeadLemma, TipLemma DEF CallTypeOK
    <3>2. NewContent(c) \in SUBSET Calls /\ c \in NewContent(c)
      BY <3>1 DEF NewContent
    <3>3. NewContent(c) # Absent
      BY <3>2, AbsentAssumption
    <3> DEFINE new == NewContent(c)
    <3>4. disk = [TipTree(head) EXCEPT ![req[c].file] = new]
      BY <1>3, <2>1 DEF Changed, EditKinds, CreateKinds
    <3> HIDE DEF new
    <3>5. disk[req[c].file] = new
      BY <1>1, <3>1, <3>4 DEF Tree
    <3> QED
      BY <3>2, <3>3, <3>5 DEF new
  <2> QED
    BY <1>1, <2>3, <2>4, <2>5 DEF OnDefault
<1>6. CASE UpdateIndex(c)
  <2>1. OnDefault(c)
    BY <1>3, <1>6 DEF UpdateIndex, Keeps, Saved
  <2> QED
    BY <1>1, <2>1, StepHistory, OnDefaultStays
<1>7. ~(RestoreBranch(c) \/ CheckMergeable(c) \/ CheckoutDefault(c) \/ MergeProposal(c)
        \/ RevParse(c) \/ DeleteProposal(c) \/ CreateProposalBranch(c))
  BY <1>1, <1>3, <1>4 DEF RestoreBranch, CheckMergeable, CheckoutDefault, MergeProposal,
     RevParse, DeleteProposal, CreateProposalBranch, Placed, TidyAt, ReviewKinds
<1>8. ~(GetCurrentBranch(c) \/ WriteFile(c) \/ GitAdd(c))
  BY <1>1, <1>3 DEF GetCurrentBranch, WriteFile, GitAdd, Goes, Leaves
<1> QED
  BY <1>5, <1>6, <1>7, <1>8 DEF Step

AckInv == TidyInv /\ (Calm => History /\ \A c \in Calls : Keeps(c))

LEMMA InitHistory == Init => History
<1> SUFFICES ASSUME Init PROVE History
  OBVIOUS
<1>1. PICK present \in SUBSET Files :
          RepoInit([f \in Files |-> IF f \in present THEN {} ELSE Absent])
  BY DEF Init
<1>2. Len(commits) = 1 /\ commits[1].anc = {1}
  BY <1>1 DEF RepoInit
<1> QED
  BY <1>2 DEF History

LEMMA AckInvariant ==
    ASSUME Exclusive, GitEnabled
    PROVE  Spec => []AckInv
<1>1. Init => History /\ \A c \in Calls : Keeps(c)
  BY InitHistory DEF Init, Keeps
<1>2. AckInv /\ TidyInv' /\ [Next]_vars => AckInv'
  <2> SUFFICES ASSUME AckInv, TidyInv', [Next]_vars, Calm'
               PROVE  History' /\ \A d \in Calls : Keeps(d)'
    BY DEF AckInv
  <2>1. /\ Calm /\ Tidy /\ SerialInv /\ SerialInv' /\ TypeOK /\ History
        /\ \A d \in Calls : Keeps(d)
        /\ RepoTypeOK /\ RefsOK
    BY CalmNext, TypeParts DEF AckInv, TidyInv, SerialInv, LedgerInv
  <2>2. ASSUME ref' = ref, commits' = commits
        PROVE  History' /\ \A d : OnDefault(d) /\ req'[d] = req[d] => OnDefault(d)'
    <3>1. History' /\ Tip(Default)' = Tip(Default)
      BY <2>1, <2>2 DEF History, Tip
    <3> QED
      BY <2>2, <3>1 DEF OnDefault
  <2>3. CASE UNCHANGED vars
    <3>1. pc' = pc /\ req' = req /\ res' = res /\ ref' = ref /\ commits' = commits
      BY <2>3 DEF vars, callVars, repoVars
    <3>2. \A d \in Calls : Saved(d)' = Saved(d)
      BY <3>1 DEF Saved, Proposing, Mode, Granted
    <3> QED
      BY <2>1, <2>2, <3>1, <3>2 DEF Keeps
  <2>4. ASSUME NEW c \in Calls, Prepare(c) \/ Submit(c)
        PROVE  History' /\ \A d \in Calls : Keeps(d)'
    <3>1. /\ pc \in [Calls -> Pc] /\ res \in [Calls -> Result] /\ req \in [Calls -> Request]
          /\ ref' = ref /\ commits' = commits
          /\ \A d \in Calls \ {c} : pc'[d] = pc[d] /\ res'[d] = res[d]
      BY <2>1, <2>4, RequestLedger, OthersKeepAnswers DEF SerialInv, TypeOK
    <3>2. \A d \in Calls \ {c} : req'[d] = req[d]
      BY <2>4, <3>1 DEF Prepare, Submit, Refuse, SubmitReview, SubmitWrite, WriteWithoutGit,
         Goes, Answers
    <3>3. pc'[c] # "index" /\ ~(pc'[c] = "done" /\ res'[c] = "ok")
      BY <2>4, <3>1 DEF Prepare, Submit, Refuse, SubmitReview, SubmitWrite, WriteWithoutGit,
         Goes, Answers
    <3>4. \A d \in Calls \ {c} : Saved(d)' = Saved(d)
      BY <3>2 DEF Saved, Proposing, Mode, Granted
    <3> QED
      BY <2>1, <2>2, <3>1, <3>2, <3>3, <3>4 DEF Keeps
  <2>5. ASSUME NEW c \in Calls, Step(c)
        PROVE  History' /\ \A d \in Calls : Keeps(d)'
    <3>1. History' /\ Kept /\ Keeps(c)'
      BY <2>1, <2>5, StepHistory, StepKeeps
    <3>2. /\ \A d \in Calls \ {c} : pc'[d] = pc[d] /\ res'[d] = res[d]
          /\ req' = req
      BY <2>1, <2>5, OnlyOneMoves, OthersKeepAnswers
    <3>3. \A d \in Calls : Saved(d)' = Saved(d)
      BY <3>2 DEF Saved, Proposing, Mode, Granted
    <3>4. \A d \in Calls : OnDefault(d) => OnDefault(d)'
      BY <2>1, <3>1, <3>2, OnDefaultStays
    <3> QED
      BY <2>1, <3>1, <3>2, <3>3, <3>4 DEF Keeps
  <2> QED
    BY <2>1, <2>3, <2>4, <2>5, CalmNext
<1>3. AckInv <=> TidyInv /\ (Calm => History /\ \A c \in Calls : Keeps(c))
  BY DEF AckInv
<1> QED
  BY <1>1, <1>2, <1>3, TidyInvariant, PTL DEF Spec

(* An edit or a create in write mode that was answered "ok" is in the      *)
(* history of the default branch, and stays there, as long as git works    *)
(* and the server stays up (write-helpers.ts:99-114).                      *)
THEOREM CalmAckedIsOnDefault ==
    ASSUME Exclusive, GitEnabled
    PROVE  Spec => [](Calm => AckedWritesAreOnDefault)
<1>1. AckInv => (Calm => AckedWritesAreOnDefault)
  BY DEF AckInv, Keeps, Saved, OnDefault, AckedWritesAreOnDefault
<1> QED
  BY <1>1, AckInvariant, PTL

---------------------------------------------------------------------------
(* WHAT WAS ONLY PROPOSED STAYS OFF THE DEFAULT BRANCH                     *)

(* A create is based on nothing.                                           *)
Blind == \A c \in Calls : pc[c] = "idle" \/ req[c].kind \in CreateKinds => seen[c] = {}

LEMMA BlindInvariant == Spec => [](TypeOK /\ Blind)
<1>1. Init => Blind
  BY DEF Init, Blind
<1>2. TypeOK /\ Blind /\ [Next]_vars => Blind'
  <2> SUFFICES ASSUME TypeOK, Blind, [Next]_vars PROVE Blind'
    OBVIOUS
  <2>1. /\ pc \in [Calls -> Pc] /\ req \in [Calls -> Request]
        /\ seen \in [Calls -> SUBSET Calls]
    BY DEF TypeOK
  <2>2. CASE UNCHANGED vars
    BY <2>2 DEF vars, callVars, Blind
  <2>3. CASE Crash
    BY <2>3 DEF Crash, Blind, Active
  <2>4. ASSUME NEW c \in Calls, Step(c) \/ GitFails(c)
        PROVE  Blind'
    <3>1. /\ req' = req /\ seen' = seen /\ pc[c] # "idle"
          /\ \A d \in Calls \ {c} : pc'[d] = pc[d]
      BY <2>4, OnlyOneMoves DEF Active
    <3>2. pc'[c] # "idle"
      BY <2>1, <2>4 DEF Step, GetCurrentBranch, CreateProposalBranch, WriteFile, GitAdd,
         GitCommit, UpdateIndex, RestoreBranch, CheckMergeable, CheckoutDefault, MergeProposal,
         RevParse, DeleteProposal, GitFails, Goes, Leaves, Answers
    <3> QED
      BY <3>1, <3>2 DEF Blind
  <2>5. ASSUME NEW c \in Calls, Prepare(c)
        PROVE  Blind'
    <3>1. /\ pc[c] = "idle" /\ pc' = [pc EXCEPT ![c] = "ready"]
          /\ \E r : req' = [req EXCEPT ![c] = r]
          /\ \/ seen' = seen
             \/ req'[c].kind \notin CreateKinds /\ \E v : seen' = [seen EXCEPT ![c] = v]
      BY <2>1, <2>5 DEF Prepare
    <3> QED
      BY <2>1, <3>1 DEF Blind
  <2>6. ASSUME NEW c \in Calls, Submit(c)
        PROVE  Blind'
    <3>1. /\ req' = req /\ pc[c] = "ready" /\ \E x : x # "idle" /\ pc' = [pc EXCEPT ![c] = x]
          /\ \/ seen' = seen
             \/ \E v : seen' = [seen EXCEPT ![c] = IF req[c].kind \in RenameKinds THEN v ELSE @]
      BY <2>6 DEF Submit, Refuse, SubmitReview, SubmitWrite, WriteWithoutGit, Goes, Answers
    <3> QED
      BY <2>1, <3>1 DEF Blind, RenameKinds, CreateKinds
  <2> QED
    BY <2>2, <2>3, <2>4, <2>5, <2>6 DEF Next, Rest
<1> QED
  BY <1>1, <1>2, InitType, NextType, PTL DEF Spec

(* A write puts together what the tree held and its own edit.              *)
LEMMA ChangedAuthors ==
    ASSUME RequireRead, CallTypeOK, NEW c \in Calls, NEW t \in Tree,
           req[c].kind \in WriteKinds, Saw(c, t), req[c].kind \in CreateKinds => seen[c] = {},
           NEW f \in Files, NEW x \in Authors(Changed(c, t)[f]), x # c
    PROVE  \E g \in Files : x \in Authors(t[g])
<1>1. req[c].file \in Files /\ req[c].dest \in Files
  BY RequestLemma
<1>2. CASE req[c].kind \in EditKinds \union CreateKinds
  <2> DEFINE new == NewContent(c)
  <2>1. Changed(c, t) = [t EXCEPT ![req[c].file] = new]
    BY <1>2 DEF Changed, EditKinds, CreateKinds
  <2>2. x \in Authors(new) => x \in Authors(t[req[c].file])
    <3> SUFFICES ASSUME x \in Authors(new) PROVE x \in Authors(t[req[c].file])
      OBVIOUS
    <3>1. x \in seen[c] /\ seen[c] # Absent
      BY AbsentAssumption DEF NewContent, Authors, CallTypeOK
    <3>2. req[c].kind \notin CreateKinds
      BY <3>1
    <3> QED
      BY <3>1, <3>2 DEF Saw, Authors
  <2> HIDE DEF new
  <2> QED
    BY <1>1, <2>1, <2>2 DEF Tree
<1>3. CASE req[c].kind = "delete"
  <2>1. Changed(c, t) = [t EXCEPT ![req[c].file] = Absent]
    BY <1>3 DEF Changed, EditKinds, CreateKinds
  <2>2. Authors(Absent) = {}
    BY DEF Authors
  <2> QED
    BY <1>1, <2>1, <2>2 DEF Tree
<1>4. CASE req[c].kind \in RenameKinds
  <2>1. Changed(c, t) = [g \in Files |-> IF g = req[c].dest THEN t[req[c].file]
                                         ELSE IF g = req[c].file THEN Absent ELSE t[g]]
    BY <1>4 DEF Changed, EditKinds, CreateKinds, RenameKinds
  <2>2. Authors(Absent) = {}
    BY DEF Authors
  <2> QED
    BY <1>1, <2>1, <2>2
<1> QED
  BY <1>2, <1>3, <1>4 DEF WriteKinds

Merged(b) ==
    \E a \in Calls : /\ req[a].kind = "approve" /\ branch[a] = b
                     /\ pc[a] \in {"revparse", "delete", "restore", "done"}
                     /\ res[a] # "rejected"

(* A proposed edit is on its own branch until that is merged.              *)
MayHold(c, b) == Proposing(c) => Merged(branch[c]) \/ (branch[c] = b /\ b # Default)

Owned == \A b \in Branches : Exists(b) =>
            \A f \in Files : \A c \in Authors(TipTree(b)[f]) : MayHold(c, b)

LEMMA TipWriters ==
    ASSUME TextInv, NEW b \in Branches, Exists(b), NEW f \in Files, NEW x \in Authors(TipTree(b)[f])
    PROVE  x \in Calls /\ WroteSomething(x)
<1>1. Carries(Writers, TipTree(b))
  BY TypeParts, TipCarries DEF TextInv
<1> QED
  BY <1>1 DEF Carries, Writers

(* What a call that has written once did stays, and so does an approval.   *)
LEMMA HoldsOn ==
    ASSUME LedgerInv, NEW c \in Calls, Prepare(c) \/ Submit(c) \/ Step(c)
    PROVE  /\ \A b : Merged(b) => Merged(b)'
           /\ \A x \in Calls : \A b : WroteSomething(x) /\ MayHold(x, b) => MayHold(x, b)'
<1>1. /\ TypeOK /\ pc \in [Calls -> Pc] /\ res \in [Calls -> Result] /\ req \in [Calls -> Request]
      /\ branch \in [Calls -> Branches]
      /\ \A d \in Calls \ {c} : pc'[d] = pc[d] /\ res'[d] = res[d]
      /\ (Prepare(c) \/ Submit(c)) => pc[c] \in {"idle", "ready"}
  BY OnlyOneMoves, RequestLedger, OthersKeepAnswers
  DEF LedgerInv, TypeOK, Prepare, Submit, Refuse, SubmitReview, SubmitWrite, WriteWithoutGit
<1>2. \A d \in Calls \ {c} : req'[d] = req[d] /\ branch'[d] = branch[d]
  <2>1. CASE Step(c)
    BY <1>1, <2>1, OnlyOneMoves
  <2>2. CASE Submit(c)
    BY <2>2 DEF Submit, Refuse, SubmitReview, SubmitWrite, WriteWithoutGit, Goes, Answers
  <2>3. CASE Prepare(c)
    BY <1>1, <2>3 DEF Prepare
  <2> QED
    BY <2>1, <2>2, <2>3
<1>3. ASSUME WroteSomething(c) \/ pc[c] \in {"revparse", "delete", "restore", "done"}
      PROVE  req'[c] = req[c] /\ branch'[c] = branch[c]
  <2>1. ~Prepare(c) /\ ~CreateProposalBranch(c)
    BY <1>3 DEF Prepare, CreateProposalBranch, WroteSomething
  <2> QED
    BY <2>1 DEF Submit, Refuse, SubmitReview, SubmitWrite, WriteWithoutGit, Step,
     GetCurrentBranch, WriteFile, GitAdd, GitCommit, UpdateIndex,
     RestoreBranch, CheckMergeable, CheckoutDefault, MergeProposal, RevParse, DeleteProposal,
     Goes, Leaves, Answers
<1>4. ASSUME pc[c] \in {"revparse", "delete", "restore", "done"}, res[c] # "rejected"
      PROVE  pc'[c] \in {"revparse", "delete", "restore", "done"} /\ res'[c] # "rejected"
  <2>1. RevParse(c) \/ DeleteProposal(c) \/ RestoreBranch(c)
    BY <1>1, <1>4 DEF Step, GetCurrentBranch, CreateProposalBranch, WriteFile, GitAdd, GitCommit,
       UpdateIndex, CheckMergeable, CheckoutDefault, MergeProposal
  <2> QED
    BY <1>1, <1>4, <2>1 DEF RevParse, DeleteProposal, RestoreBranch, Goes, Leaves, Answers
<1>5. \A b : Merged(b) => Merged(b)'
  <2> SUFFICES ASSUME NEW b, Merged(b) PROVE Merged(b)'
    OBVIOUS
  <2>1. PICK a \in Calls : /\ req[a].kind = "approve" /\ branch[a] = b
                           /\ pc[a] \in {"revparse", "delete", "restore", "done"}
                           /\ res[a] # "rejected"
    BY DEF Merged
  <2>2. /\ req'[a] = req[a] /\ branch'[a] = branch[a] /\ res'[a] # "rejected"
        /\ pc'[a] \in {"revparse", "delete", "restore", "done"}
    BY <1>1, <1>2, <1>3, <1>4, <2>1
  <2> QED
    BY <2>1, <2>2 DEF Merged
<1>6. ASSUME NEW x \in Calls, NEW b, WroteSomething(x), MayHold(x, b)
      PROVE  MayHold(x, b)'
  <2>1. req'[x] = req[x] /\ branch'[x] = branch[x]
    BY <1>2, <1>3, <1>6
  <2>2. Proposing(x)' = Proposing(x)
    BY <2>1 DEF Proposing, Mode, Granted
  <2> QED
    BY <1>5, <1>6, <2>1, <2>2 DEF MayHold
<1> QED
  BY <1>5, <1>6

(* A branch whose tip is made of tips that stood on it or the call's own.  *)
LEMMA OwnedStep ==
    ASSUME RequireRead, SerialInv, Tidy, TextInv, Blind, Owned, NEW c \in Calls, Step(c)
    PROVE  Owned'
<1>1. /\ LedgerInv /\ TypeOK /\ RepoTypeOK /\ RefsOK /\ CallTypeOK
      /\ Default \in Branches /\ Exists(Default) /\ head \in Branches /\ Exists(head)
      /\ ref \in [Branches -> 0 .. Len(commits)] /\ commits \in Seq(Commit)
      /\ req' = req
  BY TypeParts, DefaultAssumption, HeadLemma, OnlyOneMoves
  DEF SerialInv, LedgerInv, RefsOK, RepoTypeOK
<1>2. ASSUME NEW b \in Branches, Exists(b), NEW f \in Files, NEW x \in Authors(TipTree(b)[f])
      PROVE  /\ x \in Calls /\ MayHold(x, b) /\ MayHold(x, b)'
             /\ Proposing(x)' = Proposing(x)
             /\ b = Default => \A d : MayHold(x, d)'
  <2>1. x \in Calls /\ WroteSomething(x) /\ MayHold(x, b)
    BY <1>2, TipWriters DEF Owned
  <2>2. MayHold(x, b)'
    BY <1>1, <2>1, HoldsOn
  <2>3. Proposing(x)' = Proposing(x)
    BY <1>1 DEF Proposing, Mode, Granted
  <2> QED
    BY <2>1, <2>2, <2>3 DEF MayHold
<1>3. ASSUME NEW b \in Branches, Exists(b), TipTree(b)' = TipTree(b)
      PROVE  \A f \in Files : \A x \in Authors(TipTree(b)'[f]) : MayHold(x, b)'
  BY <1>2, <1>3
<1>4. CASE Unmoved
  <2>1. \A b \in Branches : Exists(b)' => Exists(b) /\ TipTree(b)' = TipTree(b)
    BY <1>4 DEF Unmoved, Exists, TipTree, Tip
  <2> QED
    BY <1>3, <2>1 DEF Owned
<1>5. CASE Committed(c)
  <2> DEFINE new == Len(commits) + 1
             anc == Tip(head).anc \union {new}
  <2>1. /\ [tree |-> Changed(c, TipTree(head)), anc |-> anc] \in Commit
        /\ TipTree(head) \in Tree /\ req[c].kind \in WriteKinds
    <3>1. TipTree(head) \in Tree /\ req[c].file \in Files /\ req[c].dest \in Files
          /\ Tip(head).anc \in SUBSET Nat /\ Len(commits) \in Nat
      BY <1>1, TipLemma, RequestLemma
    <3>2. NewContent(c) \in Content
      BY <1>1 DEF NewContent, CallTypeOK, Content
    <3>3. Changed(c, TipTree(head)) \in Tree
      BY <3>1, <3>2 DEF Changed, Tree, Content
    <3>4. anc \in SUBSET Nat
      BY <3>1
    <3> QED
      BY <1>5, <3>1, <3>3, <3>4 DEF Commit, Committed
  <2>2. /\ Appended(Changed(c, TipTree(head)), anc) /\ Saw(c, TipTree(head))
        /\ branch' = branch
        /\ Proposing(c) => head = branch[c] /\ head # Default
    BY <1>5, ProposalAssumption DEF Committed
  <2>3. req[c].kind \in CreateKinds => seen[c] = {}
    BY DEF Blind
  <2> HIDE DEF anc
  <2>4. /\ TipTree(head)' = Changed(c, TipTree(head))
        /\ \A i \in 1 .. Len(commits) : commits'[i] = commits[i]
        /\ head' = head /\ \A b \in Branches : b # head => ref'[b] = ref[b]
    <3>1. head' = head
      BY <2>2 DEF Appended
    <3> QED
      BY <1>1, <2>1, <2>2, <3>1, AppendedTip
  <2>5. ASSUME NEW b \in Branches, Exists(b)', b # head
        PROVE  Exists(b) /\ TipTree(b)' = TipTree(b)
    <3>1. ref'[b] = ref[b] /\ Exists(b)
      BY <2>4, <2>5 DEF Exists
    <3>2. ref[b] \in 1 .. Len(commits)
      BY <1>1, <3>1, TipLemma
    <3> QED
      BY <2>4, <3>1, <3>2 DEF TipTree, Tip
  <2>6. ASSUME NEW f \in Files, NEW x \in Authors(TipTree(head)'[f])
        PROVE  MayHold(x, head)'
    <3>1. CASE x = c
      BY <1>1, <2>2, <2>4, <3>1 DEF MayHold, Proposing, Mode, Granted
    <3>2. CASE x # c
      <4>1. PICK g \in Files : x \in Authors(TipTree(head)[g])
        <5>1. x \in Authors(Changed(c, TipTree(head))[f])
          BY <2>4, <2>6
        <5> QED
          BY <1>1, <2>1, <2>2, <2>3, <3>2, <5>1, ChangedAuthors
      <4>2. PICK h \in Branches : h = head
        BY <1>1
      <4>3. MayHold(x, h)'
        BY <1>1, <1>2, <4>1, <4>2
      <4> QED
        BY <2>4, <4>2, <4>3 DEF MayHold
    <3> QED
      BY <3>1, <3>2
  <2>7. ASSUME NEW b \in Branches, Exists(b)', NEW f \in Files, NEW x \in Authors(TipTree(b)'[f])
        PROVE  MayHold(x, b)'
    <3>1. CASE b = head
      <4>1. TipTree(head)' = TipTree(b)'
        BY <2>4, <3>1 DEF TipTree, Tip
      <4>2. MayHold(x, head)'
        BY <2>6, <2>7, <4>1
      <4> QED
        BY <2>4, <3>1, <4>2 DEF MayHold
    <3>2. CASE b # head
      BY <1>3, <2>5, <2>7, <3>2
    <3> QED
      BY <3>1, <3>2
  <2> QED
    BY <2>7 DEF Owned
<1>6. ASSUME NEW b \in Proposals, Forked(c, b)
      PROVE  Owned'
  <2>1. b \in Branches /\ commits' = commits /\ ref'[b] = ref[Default]
        /\ \A d \in Branches \ {b} : ref'[d] = ref[d]
    BY <1>1, <1>6, BranchesAssumption DEF Forked
  <2>2. TipTree(b)' = TipTree(Default)
    BY <2>1 DEF TipTree, Tip
  <2>3. \A f \in Files : \A x \in Authors(TipTree(b)'[f]) : MayHold(x, b)'
    BY <1>1, <1>2, <2>2
  <2>4. \A d \in Branches \ {b} : Exists(d)' => Exists(d) /\ TipTree(d)' = TipTree(d)
    BY <2>1 DEF Exists, TipTree, Tip
  <2> QED
    BY <1>3, <2>3, <2>4 DEF Owned
<1>7. ASSUME NEW b \in Proposals, MergedIn(c, b)
      PROVE  Owned'
  <2> DEFINE anc == Tip(head).anc \union Tip(b).anc \union {Len(commits) + 1}
  <2>1. /\ b \in Branches /\ Exists(b) /\ head = Default /\ branch' = branch /\ branch[c] = b
        /\ pc'[c] = "revparse" /\ Appended(MergedTree(head, b), anc)
    BY <1>7, BranchesAssumption DEF MergedIn
  <2>2. [tree |-> MergedTree(head, b), anc |-> anc] \in Commit
    <3>1. Tip(head).anc \in SUBSET Nat /\ Tip(b).anc \in SUBSET Nat /\ Len(commits) \in Nat
      BY <1>1, <2>1, TipLemma
    <3>2. anc \in SUBSET Nat
      BY <3>1
    <3> QED
      BY <1>1, <2>1, <3>2, MergedTreeType DEF Commit
  <2> HIDE DEF anc
  <2>3. /\ TipTree(head)' = MergedTree(head, b)
        /\ \A i \in 1 .. Len(commits) : commits'[i] = commits[i]
        /\ head' = head /\ \A d \in Branches : d # head => ref'[d] = ref[d]
    BY <1>1, <2>1, <2>2, AppendedTip DEF Appended
  <2>4. TipTree(Default)' = MergedTree(Default, b)
    BY <2>1, <2>3 DEF TipTree, Tip
  <2>5. Merged(b)'
    <3>1. pc[c] = "merge" /\ res' = res
      BY <1>1, <1>7, <2>1 DEF MergedIn, MergeProposal, Goes, Leaves, CallTypeOK
    <3>2. req[c].kind = "approve" /\ res[c] = "none"
      BY <3>1 DEF SerialInv, LedgerInv, Placed, TextInv, ResInv
    <3> QED
      BY <1>1, <2>1, <3>1, <3>2 DEF Merged
  <2>6. ASSUME NEW f \in Files, NEW x \in Authors(MergedTree(Default, b)[f])
        PROVE  MayHold(x, Default)'
    <3>1. MergedTree(Default, b)[f] \in {TipTree(Default)[f], TipTree(b)[f]}
      BY DEF MergedTree
    <3>2. CASE x \in Authors(TipTree(Default)[f])
      BY <1>1, <1>2, <3>2
    <3>3. CASE x \in Authors(TipTree(b)[f])
      <4>1. MayHold(x, b)'
        BY <1>2, <2>1, <3>3
      <4> QED
        BY <2>5, <4>1 DEF MayHold
    <3> QED
      BY <2>6, <3>1, <3>2, <3>3
  <2>7. ASSUME NEW d \in Branches, Exists(d)', d # Default
        PROVE  Exists(d) /\ TipTree(d)' = TipTree(d)
    <3>1. ref'[d] = ref[d] /\ Exists(d)
      BY <2>1, <2>3, <2>7 DEF Exists
    <3>2. ref[d] \in 1 .. Len(commits)
      BY <1>1, <3>1, TipLemma
    <3> QED
      BY <2>3, <3>1, <3>2 DEF TipTree, Tip
  <2>8. \A f \in Files : \A x \in Authors(TipTree(Default)'[f]) : MayHold(x, Default)'
    BY <2>4, <2>6
  <2> QED
    BY <1>3, <2>7, <2>8 DEF Owned
<1>8. ASSUME NEW b \in Proposals, Dropped(c, b)
      PROVE  Owned'
  <2>1. b \in Branches /\ commits' = commits /\ ref'[b] = 0
        /\ \A d \in Branches \ {b} : ref'[d] = ref[d]
    BY <1>1, <1>8, BranchesAssumption DEF Dropped
  <2>2. \A d \in Branches : Exists(d)' => Exists(d) /\ TipTree(d)' = TipTree(d)
    BY <2>1 DEF Exists, TipTree, Tip
  <2> QED
    BY <1>3, <2>2 DEF Owned
<1> QED
  BY <1>4, <1>5, <1>6, <1>7, <1>8, Moves

OwnedInv == TidyInv /\ TextInv /\ Blind /\ (Calm => Owned)

LEMMA OwnedInvariant ==
    ASSUME Exclusive, GitEnabled, RequireRead
    PROVE  Spec => []OwnedInv
<1>1. Init => Owned
  <2> SUFFICES ASSUME Init PROVE Owned
    OBVIOUS
  <2>1. PICK present \in SUBSET Files :
          RepoInit([f \in Files |-> IF f \in present THEN {} ELSE Absent])
    BY DEF Init
  <2>2. \A b \in Branches : Exists(b) => b = Default
    BY <2>1 DEF RepoInit, Exists
  <2>3. TipTree(Default) = [f \in Files |-> IF f \in present THEN {} ELSE Absent]
    BY <2>1, DefaultAssumption DEF RepoInit, TipTree, Tip
  <2>4. \A f \in Files : Authors(TipTree(Default)[f]) = {}
    BY <2>3 DEF Authors
  <2> QED
    BY <2>2, <2>4 DEF Owned
<1>2. TidyInv /\ TextInv /\ Blind /\ (Calm => Owned) /\ [Next]_vars => (Calm => Owned)'
  <2> SUFFICES ASSUME TidyInv, TextInv, Blind, Calm => Owned, [Next]_vars, Calm'
               PROVE  Owned'
    OBVIOUS
  <2>1. Calm /\ Tidy /\ SerialInv /\ LedgerInv /\ TypeOK /\ Owned
    BY CalmNext DEF TidyInv, SerialInv, LedgerInv
  <2>2. CASE UNCHANGED vars
    <3>1. pc' = pc /\ req' = req /\ res' = res /\ branch' = branch
          /\ ref' = ref /\ commits' = commits
      BY <2>2 DEF vars, callVars, repoVars
    <3>2. \A x \in Calls : \A b : MayHold(x, b)' = MayHold(x, b)
      BY <3>1 DEF MayHold, Merged, Proposing, Mode, Granted
    <3>3. \A b \in Branches : Exists(b)' => Exists(b) /\ TipTree(b)' = TipTree(b)
      BY <3>1 DEF Exists, TipTree, Tip
    <3>4. \A b \in Branches : Exists(b) => \A f \in Files : Authors(TipTree(b)[f]) \subseteq Calls
      BY TipWriters
    <3> QED
      BY <2>1, <3>2, <3>3, <3>4 DEF Owned
  <2>3. ASSUME NEW c \in Calls, Prepare(c) \/ Submit(c)
        PROVE  Owned'
    <3>1. ref' = ref /\ commits' = commits
      BY <2>1, <2>3, RequestLedger
    <3>2. \A b \in Branches : Exists(b)' => Exists(b) /\ TipTree(b)' = TipTree(b)
      BY <3>1 DEF Exists, TipTree, Tip
    <3>3. ASSUME NEW b \in Branches, Exists(b), NEW f \in Files, NEW x \in Authors(TipTree(b)[f])
          PROVE  MayHold(x, b)'
      <4>1. x \in Calls /\ WroteSomething(x) /\ MayHold(x, b)
        BY <2>1, <3>3, TipWriters DEF Owned
      <4> QED
        BY <2>1, <2>3, <4>1, HoldsOn
    <3> QED
      BY <3>2, <3>3 DEF Owned
  <2> QED
    BY <2>1, <2>2, <2>3, CalmNext, OwnedStep
<1>3. Init => (Calm => Owned)
  BY <1>1
<1> DEFINE CalmOwned == Calm => Owned
<1>4. Spec => []TidyInv /\ []TextInv /\ []Blind
  BY TidyInvariant, TextInvariant, BlindInvariant, PTL
<1>5. Init => CalmOwned
  BY <1>3
<1>6. TidyInv /\ TextInv /\ Blind /\ CalmOwned /\ [Next]_vars => CalmOwned'
  BY <1>2
<1>7. OwnedInv <=> TidyInv /\ TextInv /\ Blind /\ CalmOwned
  BY DEF OwnedInv
<1> HIDE DEF CalmOwned
<1> QED
  BY <1>4, <1>5, <1>6, <1>7, PTL DEF Spec

(* As long as git works and the server stays up, an edit that its author   *)
(* could only propose is on the default branch only if its proposal was    *)
(* approved by somebody with the right to (README.md:41).                  *)
THEOREM CalmUnapprovedStaysOff ==
    ASSUME Exclusive, GitEnabled, RequireRead
    PROVE  Spec => [](Calm => UnapprovedStaysOffDefault)
<1>1. OwnedInv => (Calm => UnapprovedStaysOffDefault)
  <2> SUFFICES ASSUME OwnedInv, Calm, NEW c \in Calls, NEW f \in Files,
                      Published[f] # Absent, c \in Published[f], Proposing(c)
               PROVE  ApprovalOf(branch[c])
    BY DEF UnapprovedStaysOffDefault
  <2>1. c \in Authors(TipTree(Default)[f]) /\ Default \in Branches /\ Exists(Default)
    BY DefaultAssumption DEF Authors, Published, OwnedInv, TidyInv, SerialInv, LedgerInv, RefsOK
  <2>2. MayHold(c, Default)
    BY <2>1 DEF OwnedInv, Owned
  <2>3. Merged(branch[c])
    BY <2>2 DEF MayHold
  <2> QED
    BY <2>3 DEF Merged, ApprovalOf
<1> QED
  BY <1>1, OwnedInvariant, PTL

---------------------------------------------------------------------------
(* THE WRITE PATH IMPLEMENTS THE STORE OF PROPOSALS                        *)

(* A branch has a commit of its own; what the list shows of branch b.      *)
Pending(b)  == Exists(b) /\ ~Contains(Default, b)
Proposal(b) == [name |-> b, base |-> commits[MergeBase(Default, b)].tree, tree |-> TipTree(b)]

(* A pending proposal is one commit on top of commit r, which the default  *)
(* branch has; no two share that commit.                                   *)
ForkedAt(b, r) ==
    Tip(b).anc = commits[r].anc \union {ref[b]} /\ commits[r].anc \subseteq Tip(Default).anc

Forks == \A b \in Proposals : Pending(b) =>
            /\ \E r \in 1 .. Len(commits) : ForkedAt(b, r)
            /\ \A p \in Proposals : Pending(p) /\ ref[p] = ref[b] => p = b

LEMMA ListedAre == ListedProposals = {Proposal(b) : b \in {p \in Proposals : Exists(p)}}
BY DEF ListedProposals, Proposal

LEMMA LastCommon ==
    ASSUME NEW D \in SUBSET Nat, NEW B \in SUBSET Nat, NEW n \in Nat,
           n \in D, n \in B, \A j \in B : j <= n
    PROVE  (CHOOSE i \in D \intersect B : \A j \in D \intersect B : j <= i) = n
<1> DEFINE C == D \intersect B
<1>1. n \in C /\ C \subseteq Nat /\ \A j \in C : j <= n
  OBVIOUS
<1> HIDE DEF C
<1>2. \A i \in C : (\A j \in C : j <= i) => i = n
  <2> SUFFICES ASSUME NEW i \in C, \A j \in C : j <= i PROVE i = n
    OBVIOUS
  <2>1. i \in Nat /\ n <= i /\ i <= n
    BY <1>1
  <2> QED
    BY <1>1, <2>1
<1>3. (CHOOSE i \in C : \A j \in C : j <= i) = n
  BY <1>1, <1>2
<1> QED
  BY <1>3 DEF C

(* A branch that the default branch contains asks for nothing.             *)
LEMMA MergedAsksNothing ==
    ASSUME RepoTypeOK, RefsOK, History, Kept, NEW b \in Proposals, Exists(b), ref'[b] = ref[b]
    PROVE  /\ TipTree(b)' = TipTree(b)
           /\ ~Pending(b) => Proposal(b) = [name |-> b, base |-> TipTree(b), tree |-> TipTree(b)]
           /\ ~Pending(b)' /\ Tip(Default)'.anc \subseteq Nat =>
                 Proposal(b)' = [name |-> b, base |-> TipTree(b), tree |-> TipTree(b)]
<1>1. /\ b \in Branches /\ Default \in Branches /\ Exists(Default)
      /\ ref[b] \in 1 .. Len(commits) /\ ref[b] \in Tip(b).anc
      /\ Tip(b).anc \subseteq 1 .. ref[b] /\ Len(commits) \in Nat
  BY BranchesAssumption, TipHistory DEF RefsOK
<1>2. PICK n : n = ref[b]
  OBVIOUS
<1>3. PICK B : B = Tip(b).anc
  OBVIOUS
<1>4. n \in Nat /\ n \in B /\ B \in SUBSET Nat /\ \A j \in B : j <= n
  BY <1>1, <1>2, <1>3
<1>5. Tip(b)' = Tip(b) /\ commits'[n] = commits[n] /\ TipTree(b)' = TipTree(b)
  BY <1>1, <1>2 DEF Kept, Tip, TipTree
<1>6. commits[n].tree = TipTree(b)
  BY <1>2 DEF Tip, TipTree
<1>7. ~Pending(b) => MergeBase(Default, b) = n
  <2> SUFFICES ASSUME ~Pending(b) PROVE MergeBase(Default, b) = n
    OBVIOUS
  <2>1. PICK D : D = Tip(Default).anc
    OBVIOUS
  <2>2. D \in SUBSET Nat /\ n \in D
    BY <1>1, <1>2, <2>1, TipHistory DEF Pending, Contains
  <2>3. (CHOOSE i \in D \intersect B : \A j \in D \intersect B : j <= i) = n
    BY <1>4, <2>2, LastCommon
  <2> QED
    BY <1>3, <2>1, <2>3 DEF MergeBase
<1>8. ~Pending(b)' /\ Tip(Default)'.anc \subseteq Nat => MergeBase(Default, b)' = n
  <2> SUFFICES ASSUME ~Pending(b)', Tip(Default)'.anc \subseteq Nat PROVE MergeBase(Default, b)' = n
    OBVIOUS
  <2>1. PICK D : D = Tip(Default)'.anc
    OBVIOUS
  <2>2. D \in SUBSET Nat /\ n \in D
    BY <1>2, <2>1 DEF Pending, Contains, Exists
  <2>3. (CHOOSE i \in D \intersect B : \A j \in D \intersect B : j <= i) = n
    BY <1>4, <2>2, LastCommon
  <2> QED
    BY <1>3, <1>5, <2>1, <2>3 DEF MergeBase
<1> QED
  BY <1>5, <1>6, <1>7, <1>8 DEF Proposal

(* The last common commit is the one the proposal started from.            *)
LEMMA BaseIsFork ==
    ASSUME RepoTypeOK, RefsOK, History, NEW b \in Proposals, Pending(b),
           NEW r \in 1 .. Len(commits), ForkedAt(b, r)
    PROVE  /\ MergeBase(Default, b) = r
           /\ Tip(Default).anc \intersect Tip(b).anc = commits[r].anc
<1> DEFINE A == commits[r].anc
           D == Tip(Default).anc
           B == Tip(b).anc
           n == ref[b]
<1>1. A \in SUBSET Nat /\ r \in A /\ r \in Nat /\ \A j \in A : j <= r
  BY DEF RepoTypeOK, RefsOK, SelfAnc, History
<1>2. A \subseteq D /\ n \notin D /\ B = A \union {n}
  BY DEF ForkedAt, Pending, Contains
<1> HIDE DEF A, D, B, n
<1>3. D \intersect B = A
  BY <1>2
<1>4. \A i \in A : (\A j \in A : j <= i) => i = r
  <2> SUFFICES ASSUME NEW i \in A, \A j \in A : j <= i PROVE i = r
    OBVIOUS
  <2>1. i \in Nat /\ r <= i /\ i <= r
    BY <1>1
  <2> QED
    BY <1>1, <2>1
<1>5. (CHOOSE i \in A : \A j \in A : j <= i) = r
  BY <1>1, <1>4
<1> QED
  BY <1>3, <1>5 DEF MergeBase, A, D, B

(* A proposal that a step neither touches nor merges is the same after it. *)
LEMMA ProposalStays ==
    ASSUME RepoTypeOK, RepoTypeOK', RefsOK, History, Kept, NEW b \in Proposals, Pending(b),
           ref'[b] = ref[b], Pending(b)', NEW r \in 1 .. Len(commits), ForkedAt(b, r)
    PROVE  /\ r \in 1 .. Len(commits') /\ ForkedAt(b, r)' /\ Proposal(b)' = Proposal(b)
<1>1. /\ b \in Branches /\ Exists(b) /\ Len(commits) \in Nat
      /\ ref[b] \in 1 .. Len(commits) /\ Default \in Branches
  BY BranchesAssumption, TipHistory DEF Pending
<1>2. /\ Tip(b)' = Tip(b) /\ commits'[r] = commits[r] /\ TipTree(b)' = TipTree(b)
  BY <1>1 DEF Kept, Tip, TipTree
<1>3. ForkedAt(b, r)'
  BY <1>2 DEF ForkedAt, Kept
<1>4. MergeBase(Default, b) = r /\ Tip(Default).anc \intersect Tip(b).anc = commits[r].anc
  BY BaseIsFork
<1>5. Tip(Default)'.anc \intersect Tip(b)'.anc = commits[r].anc
  BY <1>2, <1>3 DEF ForkedAt, Pending, Contains
<1>6. MergeBase(Default, b)' = r
  BY <1>4, <1>5 DEF MergeBase
<1>7. Proposal(b)' = Proposal(b)
  BY <1>2, <1>4, <1>6 DEF Proposal
<1>8. r \in 1 .. Len(commits')
  <2>1. Len(commits') \in Nat
    BY DEF RepoTypeOK
  <2> QED
    BY <1>1, <2>1 DEF Kept
<1> QED
  BY <1>3, <1>7, <1>8

(* A commit is a write of the store.                                       *)
LEMMA ChangeIsWrite ==
    ASSUME RequireRead, CallTypeOK, NEW c \in Calls, NEW t \in Tree,
           req[c].kind \in WriteKinds, Fits(c, t), Saw(c, t),
           req[c].kind \in CreateKinds => seen[c] = {}
    PROVE  Changed(c, t) \in Store!Written(t)
<1>1. req[c].file \in Files /\ req[c].dest \in Files
  BY RequestLemma
<1> DEFINE f == req[c].file
           g == req[c].dest
<1>2. CASE req[c].kind \in EditKinds
  <2>1. t[f] # Absent /\ seen[c] = t[f]
    BY <1>2 DEF Fits, Saw, EditKinds, CreateKinds, RenameKinds
  <2>2. Changed(c, t) = [t EXCEPT ![f] = t[f] \union {c}]
    BY <1>2, <2>1 DEF Changed, NewContent, EditKinds, CreateKinds
  <2>3. f \in {x \in Files : t[x] # Absent}
    BY <1>1, <2>1
  <2> DEFINE S == {x \in Files : t[x] # Absent}
             G(d, x) == [t EXCEPT ![x] = @ \union {d}]
  <2>4. Changed(c, t) = G(c, f)
    BY <2>2
  <2>5. Store!Edited(t) = {G(d, x) : d \in Calls, x \in S}
    BY SMT DEF Store!Edited
  <2>6. f \in S
    BY <2>3
  <2> HIDE DEF f, S, G
  <2>7. Changed(c, t) \in Store!Edited(t)
    BY <2>4, <2>5, <2>6, SMT
  <2> QED
    BY <2>7 DEF Store!Written
<1>3. CASE req[c].kind \in CreateKinds
  <2>1. t[f] = Absent
    BY <1>3 DEF Fits, CreateKinds, RenameKinds
  <2>2. Changed(c, t) = [t EXCEPT ![f] = {c}]
    BY <1>3 DEF Changed, NewContent, EditKinds, CreateKinds
  <2>3. f \in {x \in Files : t[x] = Absent}
    BY <1>1, <2>1
  <2> DEFINE S == {x \in Files : t[x] = Absent}
             G(d, x) == [t EXCEPT ![x] = {d}]
  <2>4. Changed(c, t) = G(c, f)
    BY <2>2
  <2>5. Store!Created(t) = {G(d, x) : d \in Calls, x \in S}
    BY SMT DEF Store!Created
  <2>6. f \in S
    BY <2>3
  <2> HIDE DEF f, S, G
  <2>7. Changed(c, t) \in Store!Created(t)
    BY <2>4, <2>5, <2>6, SMT
  <2> QED
    BY <2>7 DEF Store!Written
<1>4. CASE req[c].kind = "delete"
  <2>1. t[f] # Absent
    BY <1>4 DEF Fits, CreateKinds, RenameKinds
  <2>2. Changed(c, t) = [t EXCEPT ![f] = Absent]
    BY <1>4 DEF Changed, EditKinds, CreateKinds
  <2>3. f \in {x \in Files : t[x] # Absent}
    BY <1>1, <2>1
  <2> HIDE DEF f
  <2>4. Changed(c, t) \in Store!Deleted(t)
    BY <2>2, <2>3, Zenon DEF Store!Deleted
  <2> QED
    BY <2>4 DEF Store!Written
<1>5. CASE req[c].kind \in RenameKinds
  <2>1. t[f] # Absent /\ t[g] = Absent
    BY <1>5 DEF Fits, CreateKinds, RenameKinds
  <2>2. Changed(c, t) = [x \in Files |-> IF x = g THEN t[f] ELSE IF x = f THEN Absent ELSE t[x]]
    BY <1>5 DEF Changed, EditKinds, CreateKinds, RenameKinds
  <2>3. /\ f \in {x \in Files : t[x] # Absent}
        /\ g \in {x \in Files : t[x] = Absent}
    BY <1>1, <2>1
  <2> HIDE DEF f, g
  <2>4. Changed(c, t) = [t EXCEPT ![f] = Absent, ![g] = t[f]]
    BY <2>2, <2>3 DEF Tree
  <2> DEFINE S == {x \in Files : t[x] # Absent}
             N == {x \in Files : t[x] = Absent}
             G(x, y) == [t EXCEPT ![x] = Absent, ![y] = t[x]]
  <2>5. Changed(c, t) = G(f, g)
    BY <2>4
  <2>6. Store!Renamed(t) = {G(x, y) : x \in S, y \in N}
    BY SMT DEF Store!Renamed
  <2>7. f \in S /\ g \in N
    BY <2>3
  <2> HIDE DEF S, N, G
  <2>8. Changed(c, t) \in Store!Renamed(t)
    BY <2>5, <2>6, <2>7, SMT
  <2> QED
    BY <2>8 DEF Store!Written
<1> QED
  BY <1>2, <1>3, <1>4, <1>5 DEF WriteKinds

(* All proposals but those in X stay as they were, pending or not.         *)
LEMMA OthersStay ==
    ASSUME RepoTypeOK, RepoTypeOK', RefsOK, RefsOK', History, History', Kept, Forks, NEW X,
           \A p \in Proposals \ X : ref'[p] = ref[p] /\ (Pending(p)' <=> Pending(p))
    PROVE  /\ \A p \in Proposals \ X : Exists(p) => Proposal(p)' = Proposal(p)
           /\ \A p \in Proposals \ X : Pending(p) =>
                 /\ \E r \in 1 .. Len(commits') : ForkedAt(p, r)'
                 /\ \A q \in Proposals \ X : Pending(q)' /\ ref'[q] = ref'[p] => q = p
<1>1. ASSUME NEW p \in Proposals \ X, Pending(p)
      PROVE  /\ Proposal(p)' = Proposal(p)
             /\ \E r \in 1 .. Len(commits') : ForkedAt(p, r)'
             /\ \A q \in Proposals \ X : Pending(q)' /\ ref'[q] = ref'[p] => q = p
  <2>1. PICK r \in 1 .. Len(commits) : ForkedAt(p, r)
    BY <1>1 DEF Forks
  <2>2. r \in 1 .. Len(commits') /\ ForkedAt(p, r)' /\ Proposal(p)' = Proposal(p)
    BY <1>1, <2>1, ProposalStays
  <2>3. \A q \in Proposals \ X : Pending(q)' /\ ref'[q] = ref'[p] => q = p
    BY <1>1 DEF Forks
  <2> QED
    BY <2>2, <2>3
<1>2. Tip(Default)'.anc \subseteq Nat
  <2>1. ref'[Default] \in 1 .. Len(commits')
    BY DefaultAssumption DEF RefsOK, RepoTypeOK, Exists
  <2> QED
    BY <2>1 DEF History, Tip
<1>3. ASSUME NEW p \in Proposals \ X, Exists(p), ~Pending(p) PROVE Proposal(p)' = Proposal(p)
  BY <1>2, <1>3, MergedAsksNothing
<1> QED
  BY <1>1, <1>3

(* What the list shows after a step that concerns branch b alone.          *)
LEMMA OneListed ==
    ASSUME RepoTypeOK, RepoTypeOK', RefsOK, RefsOK', History, History', Kept, Forks,
           NEW b \in Proposals,
           \A p \in Proposals \ {b} : ref'[p] = ref[p] /\ (Pending(p)' <=> Pending(p))
    PROVE  /\ ~Pending(b)' => Forks'
           /\ Exists(b) => Proposal(b) \in ListedProposals
           /\ ~Exists(b) => b \notin Store!Names
           /\ Exists(b)' => ListedProposals' =
                 (IF Exists(b) THEN ListedProposals \ {Proposal(b)} ELSE ListedProposals)
                 \union {Proposal(b)'}
           /\ ~Exists(b)' => ListedProposals' =
                 IF Exists(b) THEN ListedProposals \ {Proposal(b)} ELSE ListedProposals
<1> DEFINE X == {b}
           Theirs == {Proposal(p) : p \in {q \in Proposals \ X : Exists(q)}}
           Theirs2 == {Proposal(p)' : p \in {q \in Proposals \ X : Exists(q)'}}
<1>1. \A p \in Proposals \ X : ref'[p] = ref[p] /\ (Pending(p)' <=> Pending(p))
  OBVIOUS
<1> HIDE DEF X
<1>2. /\ \A p \in Proposals \ X : Exists(p) => Proposal(p)' = Proposal(p)
      /\ \A p \in Proposals \ X : Pending(p) =>
            /\ \E r \in 1 .. Len(commits') : ForkedAt(p, r)'
            /\ \A q \in Proposals \ X : Pending(q)' /\ ref'[q] = ref'[p] => q = p
  BY <1>1, OthersStay
<1>3. ~Pending(b)' => Forks'
  BY <1>1, <1>2 DEF Forks, X
<1>4. \A p : Proposal(p).name = p
  BY DEF Proposal
<1>5. Theirs2 = Theirs
  BY <1>1, <1>2 DEF Exists
<1>6. ListedProposals' = {Proposal(p)' : p \in {q \in Proposals : Exists(q)'}}
  BY DEF ListedProposals, Proposal
<1>7. ListedProposals' = IF Exists(b)' THEN Theirs2 \union {Proposal(b)'} ELSE Theirs2
  BY <1>6 DEF X
<1>8. ListedProposals = IF Exists(b) THEN Theirs \union {Proposal(b)} ELSE Theirs
  BY ListedAre DEF X
<1>9. Proposal(b) \notin Theirs
  BY <1>4 DEF X
<1>10. ~Exists(b) => b \notin Store!Names
  BY <1>4, ListedAre DEF Store!Names
<1> HIDE DEF Theirs, Theirs2
<1> QED
  BY <1>3, <1>5, <1>7, <1>8, <1>9, <1>10

(* One step of a handler, case by case: git checkout -b opens a proposal.  *)
LEMMA ForkedStore ==
    ASSUME RepoTypeOK, RepoTypeOK', RefsOK, RefsOK', History, History', Kept, Forks,
           NEW c \in Calls, NEW b \in Proposals, Forked(c, b)
    PROVE  Forks' /\ [Store!Next]_(Store!storeVars)
<1>1. /\ ref'[Default] = ref[Default] /\ commits' = commits /\ ~Exists(b)
      /\ \A p \in Proposals \ {b} : ref'[p] = ref[p]
      /\ ref'[b] = ref[Default]
  BY ProposalAssumption, DefaultAssumption, BranchesAssumption DEF Forked, RepoTypeOK
<1>2. /\ ref[Default] \in Tip(Default).anc /\ ref[Default] \in 1 .. Len(commits)
      /\ Len(commits) \in Nat /\ Tip(Default).anc \subseteq 1 .. ref[Default]
  BY TipHistory, DefaultAssumption DEF RefsOK
<1>3. PICK n : n = ref[Default]
  OBVIOUS
<1>4. PICK D : D = Tip(Default).anc
  OBVIOUS
<1>5. Tip(Default)'.anc = D /\ Tip(b)'.anc = D /\ Published' = Published
      /\ TipTree(b)' = Published /\ commits'[n].tree = Published
  BY <1>1, <1>3, <1>4 DEF Tip, TipTree, Published
<1>6. MergeBase(Default, b)' = n
  <2>1. n \in Nat /\ D \in SUBSET Nat /\ n \in D /\ \A j \in D : j <= n
    BY <1>2, <1>3, <1>4
  <2>2. (CHOOSE i \in D \intersect D : \A j \in D \intersect D : j <= i) = n
    BY <2>1, LastCommon
  <2> QED
    BY <1>5, <2>2 DEF MergeBase
<1>7. Proposal(b)' = [name |-> b, base |-> Published, tree |-> Published]
  BY <1>5, <1>6 DEF Proposal
<1>8. ~Pending(b)' /\ Exists(b)' /\ \A p \in Proposals \ {b} : Pending(p)' <=> Pending(p)
  BY <1>1, <1>2 DEF Pending, Exists, Contains, Tip
<1>9. /\ Forks' /\ b \notin Store!Names
      /\ ListedProposals' = ListedProposals \union {Proposal(b)'}
  BY <1>1, <1>8, OneListed
<1>10. Store!Open(b)
  BY <1>5, <1>7, <1>9 DEF Store!Open
<1> QED
  BY <1>9, <1>10 DEF Store!Next

(* A branch deletion closes a proposal.                                    *)
LEMMA DroppedStore ==
    ASSUME RepoTypeOK, RepoTypeOK', RefsOK, RefsOK', History, History', Kept, Forks,
           NEW c \in Calls, NEW b \in Proposals, Dropped(c, b)
    PROVE  Forks' /\ [Store!Next]_(Store!storeVars)
<1>1. /\ ref'[Default] = ref[Default] /\ commits' = commits
      /\ \A p \in Proposals \ {b} : ref'[p] = ref[p]
      /\ Exists(b) /\ ~Exists(b)' /\ ~Pending(b)'
  BY ProposalAssumption, DefaultAssumption, BranchesAssumption
     DEF Dropped, RepoTypeOK, Pending, Exists
<1>2. Published' = Published /\ \A p \in Proposals \ {b} : Pending(p)' <=> Pending(p)
  BY <1>1 DEF Published, TipTree, Tip, Pending, Exists, Contains
<1> DEFINE P == Proposal(b)
<1>3. /\ Forks' /\ P \in ListedProposals
      /\ ListedProposals' = ListedProposals \ {P}
  BY <1>1, <1>2, OneListed
<1>4. Store!Close(P)
  BY <1>2, <1>3 DEF Store!Close
<1> QED
  BY <1>3, <1>4 DEF Store!Next

(* A merge is an approval.                                                 *)
LEMMA MergedStore ==
    ASSUME RepoTypeOK, RepoTypeOK', RefsOK, RefsOK', History, History', Forks,
           NEW c \in Calls, NEW b \in Proposals, MergedIn(c, b)
    PROVE  Forks' /\ [Store!Next]_(Store!storeVars)
<1>1. /\ Kept /\ head = Default /\ Published' = MergedTree(Default, b)
      /\ Tip(Default)'.anc = Tip(Default).anc \union Tip(b).anc \union {Len(commits) + 1}
      /\ \A p \in Proposals : ref'[p] = ref[p]
      /\ Pending(b) /\ MergeConflicts(Default, b) = {}
  BY MergedHistory DEF MergedIn, Pending
<1>2. PICK r \in 1 .. Len(commits) : ForkedAt(b, r)
  BY <1>1 DEF Forks
<1>3. Tip(Default)'.anc = Tip(Default).anc \union {ref[b], Len(commits) + 1}
  BY <1>1, <1>2 DEF ForkedAt
<1>4. \A p \in Proposals : Exists(p) => ref[p] \in 1 .. Len(commits) /\ Len(commits) \in Nat
  BY BranchesAssumption, TipHistory
<1>5. ~Pending(b)' /\ Exists(b) /\ Exists(b)'
  BY <1>1, <1>3 DEF Pending, Contains, Exists
<1>6. \A p \in Proposals \ {b} : Pending(p)' <=> Pending(p)
  <2> SUFFICES ASSUME NEW p \in Proposals \ {b}
               PROVE  Pending(p)' <=> Pending(p)
    OBVIOUS
  <2>1. Exists(p)' <=> Exists(p)
    BY <1>1 DEF Exists
  <2>2. Exists(p) => ref[p] # Len(commits) + 1
    BY <1>4
  <2>3. Pending(p) => ref[p] # ref[b]
    BY <1>1 DEF Forks
  <2> QED
    BY <1>1, <1>3, <2>1, <2>2, <2>3 DEF Pending, Contains
<1>7. /\ Forks' /\ Proposal(b) \in ListedProposals
      /\ ListedProposals' = (ListedProposals \ {Proposal(b)}) \union {Proposal(b)'}
  BY <1>1, <1>5, <1>6, OneListed
<1> DEFINE P == Proposal(b)
<1>8. Proposal(b)' = [P EXCEPT !.base = P.tree]
  <2>1. Tip(Default)'.anc \subseteq Nat
    <3>1. ref'[Default] \in 1 .. Len(commits')
      BY DefaultAssumption DEF RefsOK, RepoTypeOK, Exists
    <3> QED
      BY <3>1 DEF History, Tip
  <2>2. Proposal(b)' = [name |-> b, base |-> TipTree(b), tree |-> TipTree(b)]
    BY <1>1, <1>5, <2>1, MergedAsksNothing
  <2> QED
    BY <2>2 DEF Proposal
<1>9. Store!Approve(P)
  <2>1. /\ P.base = commits[MergeBase(Default, b)].tree /\ P.tree = TipTree(b)
    BY DEF Proposal
  <2>2. \A f \in Files : \/ Published[f] = P.base[f] \/ P.tree[f] = P.base[f]
                         \/ Published[f] = P.tree[f]
    BY <1>1, <2>1 DEF MergeConflicts, Published
  <2>3. Published' = [f \in Files |-> IF Published[f] = P.base[f] THEN P.tree[f]
                                                                  ELSE Published[f]]
    BY <1>1, <2>1 DEF MergedTree, Published
  <2>4. ListedProposals' = (ListedProposals \ {P}) \union {[P EXCEPT !.base = P.tree]}
    BY <1>7, <1>8
  <2> HIDE DEF P
  <2>5. Published' = [f \in Files |-> IF P.tree[f] # P.base[f] THEN P.tree[f]
                                                               ELSE Published[f]]
    BY <2>2, <2>3
  <2> QED
    BY <2>2, <2>4, <2>5 DEF Store!Approve
<1> QED
  BY <1>7, <1>9 DEF Store!Next

(* A commit on the default branch publishes, a commit on a branch that     *)
(* forked from it proposes.                                                *)
LEMMA PublishedStore ==
    ASSUME RequireRead, CallTypeOK, RepoTypeOK, RepoTypeOK', RefsOK, RefsOK', History, History',
           Forks, Blind, NEW c \in Calls, Committed(c), head = Default, Active(c)
    PROVE  Forks' /\ [Store!Next]_(Store!storeVars)
<1>1. /\ Kept /\ Published' = Changed(c, Published)
      /\ Tip(Default)'.anc = Tip(Default).anc \union {Len(commits) + 1}
      /\ \A p \in Proposals : ref'[p] = ref[p]
      /\ head' = Default
  <2>1. head' = Default /\ \A p \in Proposals : p \in Branches /\ p # head
    BY BranchesAssumption, ProposalAssumption DEF Committed, Appended
  <2> QED
    BY <2>1, CommittedHistory DEF Published, TipTree, Tip
<1>2. \A p \in Proposals : Pending(p)' <=> Pending(p)
  <2>1. \A p \in Proposals : Exists(p) => ref[p] # Len(commits) + 1
    BY BranchesAssumption, TipHistory
  <2> QED
    BY <1>1, <2>1 DEF Pending, Exists, Contains
<1>3. /\ \A p \in Proposals : Exists(p) => Proposal(p)' = Proposal(p)
      /\ \A p \in Proposals : Pending(p) =>
            /\ \E r \in 1 .. Len(commits') : ForkedAt(p, r)'
            /\ \A q \in Proposals : Pending(q)' /\ ref'[q] = ref'[p] => q = p
  <2> DEFINE X == {}
  <2>1. \A p \in Proposals \ X : ref'[p] = ref[p] /\ (Pending(p)' <=> Pending(p))
    BY <1>1, <1>2
  <2>2. Proposals \ X = Proposals
    OBVIOUS
  <2> HIDE DEF X
  <2>3. /\ \A p \in Proposals \ X : Exists(p) => Proposal(p)' = Proposal(p)
        /\ \A p \in Proposals \ X : Pending(p) =>
              /\ \E r \in 1 .. Len(commits') : ForkedAt(p, r)'
              /\ \A q \in Proposals \ X : Pending(q)' /\ ref'[q] = ref'[p] => q = p
    BY <1>1, <2>1, OthersStay
  <2> QED
    BY <2>2, <2>3
<1>4. Forks'
  BY <1>2, <1>3 DEF Forks
<1>5. ListedProposals' = ListedProposals
  <2>1. ListedProposals' = {Proposal(p)' : p \in {q \in Proposals : Exists(q)'}}
    BY DEF ListedProposals, Proposal
  <2>2. \A p \in Proposals : Exists(p)' <=> Exists(p)
    BY <1>1 DEF Exists
  <2> QED
    BY <1>3, <2>1, <2>2, ListedAre
<1>6. Changed(c, Published) \in Store!Written(Published)
  <2>1. Published \in Tree /\ pc[c] # "idle"
    BY TipLemma, DefaultAssumption DEF RefsOK, Published, Active
  <2>2. req[c].kind \in CreateKinds => seen[c] = {}
    BY <2>1 DEF Blind
  <2> QED
    BY <2>1, <2>2, ChangeIsWrite DEF Committed, Published
<1> QED
  BY <1>1, <1>4, <1>5, <1>6 DEF Store!Next, Store!Publish

LEMMA ProposedStore ==
    ASSUME RequireRead, CallTypeOK, RepoTypeOK, RepoTypeOK', RefsOK, RefsOK', History, History',
           Forks, Blind, NEW c \in Calls, Committed(c), head \in Proposals, ref[head] = ref[Default],
           Active(c)
    PROVE  Forks' /\ [Store!Next]_(Store!storeVars)
<1>a. PICK b \in Proposals : b = head
  OBVIOUS
<1>b. PICK r : r = ref[Default]
  OBVIOUS
<1> DEFINE tree == Changed(c, Published)
           new  == Len(commits) + 1
<1>1. /\ Kept /\ head' = b /\ head = b /\ TipTree(b)' = tree
      /\ Tip(b)'.anc = Tip(Default).anc \union {new}
      /\ ref'[b] = new /\ ref[b] = r /\ ref'[Default] = r
      /\ \A p \in Proposals \ {b} : ref'[p] = ref[p]
  <2>1. head' = b /\ b # Default /\ b \in Branches /\ \A p \in Proposals : p \in Branches
    BY <1>a, BranchesAssumption, ProposalAssumption DEF Committed, Appended
  <2> QED
    BY <1>a, <1>b, <2>1, CommittedHistory, DefaultAssumption DEF Published, TipTree, Tip
<1>2. /\ r \in 1 .. Len(commits) /\ Len(commits) \in Nat /\ commits[r] = Tip(Default)
      /\ Tip(Default).anc \subseteq 1 .. r /\ r \in Tip(Default).anc
  BY <1>b, TipHistory, DefaultAssumption DEF RefsOK, Tip
<1>3. Tip(Default)' = Tip(Default) /\ Published' = Published
  BY <1>1, <1>2, <1>b DEF Kept, Tip, TipTree, Published
<1>4. ~Pending(b) /\ Pending(b)' /\ Exists(b) /\ Exists(b)'
  <2>1. new # 0 /\ new \notin Tip(Default).anc
    BY <1>2
  <2> QED
    BY <1>1, <1>2, <1>3, <2>1 DEF Pending, Exists, Contains
<1>5. \A p \in Proposals \ {b} : Pending(p)' <=> Pending(p)
  BY <1>1, <1>3 DEF Pending, Exists, Contains
<1>6. \A p \in Proposals \ {b} : Pending(p) =>
         /\ \E i \in 1 .. Len(commits') : ForkedAt(p, i)'
         /\ \A q \in Proposals \ {b} : Pending(q)' /\ ref'[q] = ref'[p] => q = p
  <2> DEFINE X == {b}
  <2>1. \A p \in Proposals \ X : ref'[p] = ref[p] /\ (Pending(p)' <=> Pending(p))
    BY <1>1, <1>5
  <2> HIDE DEF X
  <2>2. \A p \in Proposals \ X : Pending(p) =>
           /\ \E i \in 1 .. Len(commits') : ForkedAt(p, i)'
           /\ \A q \in Proposals \ X : Pending(q)' /\ ref'[q] = ref'[p] => q = p
    BY <1>1, <2>1, OthersStay
  <2> QED
    BY <2>2 DEF X
<1>7. r \in 1 .. Len(commits') /\ commits'[r] = Tip(Default) /\ ForkedAt(b, r)'
  <2>1. commits'[r] = Tip(Default)
    BY <1>1, <1>2 DEF Kept
  <2>2. Len(commits') \in Nat /\ Len(commits) <= Len(commits')
    BY <1>1 DEF RepoTypeOK, Kept
  <2> QED
    BY <1>1, <1>2, <1>3, <2>1, <2>2 DEF ForkedAt
<1>8. \A p \in Proposals \ {b} : Pending(p) => ref[p] # new
  BY <1>2, BranchesAssumption, TipHistory DEF Pending
<1>9. Forks'
  <2>1. \A p \in Proposals \ {b} : Pending(p)' =>
            /\ \E i \in 1 .. Len(commits') : ForkedAt(p, i)'
            /\ \A q \in Proposals \ {b} : Pending(q)' /\ ref'[q] = ref'[p] => q = p
            /\ ref'[p] # ref'[b]
    BY <1>1, <1>5, <1>6, <1>8
  <2>2. \E i \in 1 .. Len(commits') : ForkedAt(b, i)'
    BY <1>7
  <2> QED
    BY <2>1, <2>2 DEF Forks
<1>10. Proposal(b)' = [name |-> b, base |-> Published, tree |-> tree]
  <2> DEFINE D == Tip(Default).anc
  <2>1. D \subseteq Nat /\ r \in D /\ \A j \in D : j <= r
    BY <1>2
  <2>2. Tip(Default)'.anc \intersect Tip(b)'.anc = D
    BY <1>1, <1>3
  <2> HIDE DEF D
  <2>3. \A i \in D : (\A j \in D : j <= i) => i = r
    <3> SUFFICES ASSUME NEW i \in D, \A j \in D : j <= i PROVE i = r
      OBVIOUS
    <3>1. i \in Nat /\ r \in Nat /\ r <= i /\ i <= r
      BY <2>1
    <3> QED
      BY <3>1
  <2>4. (CHOOSE i \in D : \A j \in D : j <= i) = r
    BY <2>1, <2>3
  <2>5. MergeBase(Default, b)' = r
    BY <2>2, <2>4 DEF MergeBase
  <2>6. commits'[MergeBase(Default, b)'].tree = Published
    BY <1>7, <2>5 DEF Published, TipTree
  <2> QED
    BY <1>1, <2>6 DEF Proposal
<1>11. Proposal(b) = [name |-> b, base |-> Published, tree |-> Published]
  <2>1. TipTree(b) = Published
    BY <1>1, <1>b DEF Published, TipTree, Tip
  <2>2. PICK D : D = Tip(Default).anc
    OBVIOUS
  <2>3. r \in Nat /\ D \in SUBSET Nat /\ r \in D /\ \A j \in D : j <= r
    BY <1>2, <2>2
  <2>4. (CHOOSE i \in D \intersect D : \A j \in D \intersect D : j <= i) = r
    BY <2>3, LastCommon
  <2>5. Tip(b).anc = D
    BY <1>1, <1>2, <2>2 DEF Tip
  <2>6. MergeBase(Default, b) = r
    BY <2>2, <2>4, <2>5 DEF MergeBase
  <2> QED
    BY <1>2, <2>1, <2>6 DEF Proposal, Published, TipTree
<1>12. /\ Proposal(b) \in ListedProposals
       /\ ListedProposals' = (ListedProposals \ {Proposal(b)}) \union {Proposal(b)'}
  BY <1>1, <1>4, <1>5, OneListed
<1>13. tree \in Store!Written(Published)
  <2>1. Published \in Tree /\ pc[c] # "idle"
    BY TipLemma, DefaultAssumption DEF RefsOK, Published, Active
  <2>2. req[c].kind \in CreateKinds => seen[c] = {}
    BY <2>1 DEF Blind
  <2>3. Published = TipTree(head)
    BY DEF Published, TipTree, Tip
  <2> QED
    BY <2>1, <2>2, <2>3, ChangeIsWrite DEF Committed
<1> HIDE DEF tree
<1>14. Store!Propose(Proposal(b))
  <2>1. PICK P : P = Proposal(b)
    OBVIOUS
  <2>2. Proposal(b)' = [P EXCEPT !.tree = tree]
    BY <1>10, <1>11, <2>1
  <2>3. P.base = Published /\ P.tree = Published
    BY <1>11, <2>1
  <2>4. ListedProposals' = (ListedProposals \ {P}) \union {[P EXCEPT !.tree = tree]}
    BY <1>12, <2>1, <2>2
  <2> QED
    BY <1>3, <1>13, <2>1, <2>3, <2>4 DEF Store!Propose
<1> QED
  BY <1>9, <1>12, <1>14 DEF Store!Next

LEMMA StepStore ==
    ASSUME RequireRead, SerialInv, SerialInv', Tidy, History, Forks, Blind,
           NEW c \in Calls, Step(c)
    PROVE  Forks' /\ [Store!Next]_(Store!storeVars)
<1>1. /\ RepoTypeOK /\ RepoTypeOK' /\ RefsOK /\ RefsOK' /\ CallTypeOK
      /\ History' /\ Kept /\ Active(c)
  BY TypeParts, StepHistory, OnlyOneMoves DEF SerialInv, LedgerInv
<1>2. CASE Unmoved
  <2>1. Published' = Published /\ \A p : Pending(p)' = Pending(p)
                              /\ Exists(p)' = Exists(p) /\ Proposal(p)' = Proposal(p)
    BY <1>2 DEF Unmoved, Published, Pending, Proposal, Exists, Contains, MergeBase, TipTree, Tip
  <2>2. \A p, r : ForkedAt(p, r)' = ForkedAt(p, r)
    BY <1>2 DEF Unmoved, ForkedAt, Tip
  <2>3. Forks'
    BY <1>2, <2>1, <2>2 DEF Forks, Unmoved
  <2>4. ListedProposals' = ListedProposals
    <3>1. ListedProposals' = {Proposal(p)' : p \in {q \in Proposals : Exists(q)'}}
      BY DEF ListedProposals, Proposal
    <3> QED
      BY <2>1, <3>1, ListedAre
  <2> QED
    BY <2>1, <2>3, <2>4 DEF Store!storeVars
<1>3. CASE Committed(c)
  <2>1. CASE Proposing(c)
    BY <1>1, <1>3, <2>1, ProposedStore DEF Committed
  <2>2. CASE ~Proposing(c)
    BY <1>1, <1>3, <2>2, PublishedStore DEF Committed
  <2> QED
    BY <2>1, <2>2
<1>4. ASSUME NEW b \in Proposals, Forked(c, b) \/ MergedIn(c, b) \/ Dropped(c, b)
      PROVE  Forks' /\ [Store!Next]_(Store!storeVars)
  BY <1>1, <1>4, ForkedStore, MergedStore, DroppedStore
<1> QED
  BY <1>2, <1>3, <1>4, Moves

StoreInv == TidyInv /\ Blind /\ (Calm => History /\ Forks)

LEMMA InitStore == Init => Forks /\ Store!Init
<1> SUFFICES ASSUME Init PROVE Forks /\ Store!Init
  OBVIOUS
<1>1. PICK present \in SUBSET Files :
          RepoInit([f \in Files |-> IF f \in present THEN {} ELSE Absent])
  BY DEF Init
<1>2. \A b \in Proposals : ~Exists(b)
  BY <1>1, BranchesAssumption, ProposalAssumption DEF RepoInit, Exists
<1>3. Published = [f \in Files |-> IF f \in present THEN {} ELSE Absent]
  BY <1>1, DefaultAssumption DEF RepoInit, Published, TipTree, Tip
<1>4. Published \in [Files -> {Absent, {}}]
  BY <1>3
<1>5. ListedProposals = {}
  BY <1>2 DEF ListedProposals
<1> QED
  BY <1>2, <1>4, <1>5 DEF Forks, Pending, Store!Init

LEMMA StoreNext ==
    ASSUME RequireRead, StoreInv, TidyInv', [Next]_vars, Calm'
    PROVE  /\ Calm /\ History' /\ Forks'
           /\ [Store!Next]_(Store!storeVars)
<1>1. /\ Calm /\ Tidy /\ SerialInv /\ SerialInv' /\ TypeOK /\ History /\ Forks /\ Blind
      /\ RepoTypeOK /\ RefsOK
  BY CalmNext, TypeParts DEF StoreInv, TidyInv, SerialInv, LedgerInv
<1>2. ASSUME ref' = ref, commits' = commits
      PROVE  History' /\ Forks' /\ [Store!Next]_(Store!storeVars)
  <2>1. Published' = Published /\ \A p : Pending(p)' = Pending(p)
                              /\ Exists(p)' = Exists(p) /\ Proposal(p)' = Proposal(p)
    BY <1>2 DEF Published, Pending, Proposal, Exists, Contains, MergeBase, TipTree, Tip
  <2>2. \A p, r : ForkedAt(p, r)' = ForkedAt(p, r)
    BY <1>2 DEF ForkedAt, Tip
  <2>3. Forks' /\ History'
    BY <1>1, <1>2, <2>1, <2>2 DEF Forks, History
  <2>4. ListedProposals' = ListedProposals
    <3>1. ListedProposals' = {Proposal(p)' : p \in {q \in Proposals : Exists(q)'}}
      BY DEF ListedProposals, Proposal
    <3> QED
      BY <2>1, <3>1, ListedAre
  <2> QED
    BY <2>1, <2>3, <2>4 DEF Store!storeVars
<1>3. CASE UNCHANGED vars
  BY <1>1, <1>2, <1>3 DEF vars, repoVars
<1>4. ASSUME NEW c \in Calls, Prepare(c) \/ Submit(c)
      PROVE  History' /\ Forks' /\ [Store!Next]_(Store!storeVars)
  <2>1. ref' = ref /\ commits' = commits
    BY <1>1, <1>4, RequestLedger DEF SerialInv
  <2> QED
    BY <1>2, <2>1
<1>5. ASSUME NEW c \in Calls, Step(c)
      PROVE  History' /\ Forks' /\ [Store!Next]_(Store!storeVars)
  BY <1>1, <1>5, StepHistory, StepStore
<1> QED
  BY <1>1, <1>3, <1>4, <1>5, CalmNext

LEMMA StoreInvariant ==
    ASSUME Exclusive, GitEnabled, RequireRead
    PROVE  Spec => []StoreInv
<1> DEFINE Kin == Calm => History /\ Forks
<1>1. Spec => []TidyInv /\ []Blind
  BY TidyInvariant, BlindInvariant, PTL
<1>2. Init => Kin
  BY InitHistory, InitStore
<1>3. TidyInv /\ Blind /\ Kin /\ TidyInv' /\ [Next]_vars => Kin'
  BY StoreNext DEF StoreInv
<1>4. StoreInv <=> TidyInv /\ Blind /\ Kin
  BY DEF StoreInv
<1> HIDE DEF Kin
<1> QED
  BY <1>1, <1>2, <1>3, <1>4, PTL DEF Spec

(* As long as git works and the server stays up, the write path is the     *)
(* store of proposals: what a client can see of it, the empty proposals of *)
(* refused calls included, changes only by a write of the published        *)
(* documents, by a proposal that is opened, gets its write, is approved,   *)
(* which publishes its change and nothing else, or is closed               *)
(* (README.md:41, proposals.ts collectProposals).                          *)
THEOREM CalmImplementsStore ==
    ASSUME Exclusive, GitEnabled, RequireRead
    PROVE  Spec /\ []Calm => ImplementsStore
<1>1. Init => Store!Init
  BY InitStore
<1>2. StoreInv /\ TidyInv' /\ [Next]_vars /\ Calm' => [Store!Next]_(Store!storeVars)
  BY StoreNext
<1>3. Spec => []StoreInv /\ []TidyInv
  BY StoreInvariant, TidyInvariant, PTL
<1> QED
  BY <1>1, <1>2, <1>3, PTL DEF Spec, ImplementsStore, Store!Spec
=============================================================================
