------------------------------ MODULE GitRepo ------------------------------
(***************************************************************************)
(* One document root under git: the working tree on disk, git's index,     *)
(* HEAD, the branches and the commits, and the git commands that           *)
(* packages/en-core/src/git/operations.ts issues through simple-git.       *)
(*                                                                         *)
(* Every GitOperations method runs one git process, and git holds          *)
(* .git/index.lock while it works, so each command is one step.  A command *)
(* is a predicate that says when git performs it (XOk) and an action that  *)
(* says what it does (X); the callers decide what a refusal means.         *)
(*                                                                         *)
(* A file's content is the set of edits it carries: the edit of call c is  *)
(* written c.  All edits of one file overlap, as edits of one section do,  *)
(* so two branches that both changed a file conflict on it.                *)
(***************************************************************************)
EXTENDS Integers, Sequences

CONSTANTS
    Calls,      \* tool calls; each contributes one edit to what it writes
    Files,      \* paths below the document root
    Branches,   \* every branch name that may ever exist
    Default,    \* the name resolveDefaultBranch() returns
    Absent      \* "no such file" in a tree

ASSUME AbsentAssumption  == \A text \in SUBSET Calls : text # Absent
ASSUME DefaultAssumption == Default \in Branches

VARIABLES
    disk,       \* the working tree: what readDocument/writeDocument touch
    staged,     \* git's index
    head,       \* the branch HEAD is on
    ref,        \* branch -> position of its tip in commits, 0 = no such branch
    commits,    \* every commit made, in order
    unmerged,   \* paths a conflicted merge left unmerged in the index
    merging     \* MERGE_HEAD exists: a merge was begun and not concluded

repoVars == <<disk, staged, head, ref, commits, unmerged, merging>>

Content == {Absent} \union SUBSET Calls
Tree    == [Files -> Content]
Commit  == [tree: Tree, anc: SUBSET Nat]

RepoTypeOK ==
    /\ disk \in Tree
    /\ staged \in Tree
    /\ head \in Branches
    /\ commits \in Seq(Commit)
    /\ ref \in [Branches -> 0 .. Len(commits)]
    /\ ref[head] # 0          \* HEAD is never on a branch that is gone
    /\ unmerged \in SUBSET Files
    /\ merging \in BOOLEAN

(* A repository with one commit, everything clean on the default branch.   *)
RepoInit(tree) ==
    /\ disk = tree
    /\ staged = tree
    /\ head = Default
    /\ commits = <<[tree |-> tree, anc |-> {1}]>>
    /\ ref = [b \in Branches |-> IF b = Default THEN 1 ELSE 0]
    /\ unmerged = {}
    /\ merging = FALSE

Exists(b)  == ref[b] # 0
Tip(b)     == commits[ref[b]]
TipTree(b) == Tip(b).tree
Published  == TipTree(Default)     \* what the default branch says

(* Is every commit of branch b also on branch onto?                        *)
Contains(onto, b) == ref[b] \in Tip(onto).anc

Dirty(f) == disk[f] # TipTree(head)[f]

---------------------------------------------------------------------------
(* git checkout b: refused while paths are unmerged, and when a path that  *)
(* differs between the two branches carries a local change; a path that    *)
(* does not differ keeps its local change, staged or not.                  *)
CheckoutOk(b) ==
    /\ Exists(b)
    /\ unmerged = {}
    /\ \A f \in Files :
          LET from == TipTree(head)[f]
              to   == TipTree(b)[f]
          IN  \/ from = to
              \/ staged[f] = to
              \/ staged[f] = from /\ disk[f] \in {from, Absent}

Checkout(b) ==
    LET keeps(f) == TipTree(b)[f] \in {TipTree(head)[f], staged[f]}
    IN  /\ disk' = [f \in Files |-> IF keeps(f) THEN disk[f] ELSE TipTree(b)[f]]
        /\ staged' = [f \in Files |-> IF keeps(f) THEN staged[f] ELSE TipTree(b)[f]]
        /\ head' = b
        /\ merging' = FALSE
        /\ UNCHANGED <<ref, commits, unmerged>>

(* Fault to detect: git branch b instead of git checkout -b b.             *)
CreateBranch_StaysPut(b) ==
    /\ ref' = [ref EXCEPT ![b] = ref[head]]
    /\ UNCHANGED <<disk, staged, head, commits, unmerged, merging>>

(* git checkout -b b: a new branch at HEAD; tree and index stay as they    *)
(* are, and an unfinished merge is forgotten.                              *)
CreateBranchOk(b) == ~Exists(b)

CreateBranch(b) ==
    /\ ref' = [ref EXCEPT ![b] = ref[head]]
    /\ head' = b
    /\ merging' = FALSE
    /\ UNCHANGED <<disk, staged, commits, unmerged>>

(* git add paths: a path neither on disk nor known to the index is fatal.  *)
AddOk(paths) ==
    \A f \in paths : disk[f] # Absent \/ staged[f] # Absent \/ f \in unmerged

Add(paths) ==
    /\ staged' = [f \in Files |-> IF f \in paths THEN disk[f] ELSE staged[f]]
    /\ unmerged' = unmerged \ paths
    /\ UNCHANGED <<disk, head, ref, commits, merging>>

(* git commit -m msg paths: a partial commit.  HEAD's tree with the        *)
(* working-tree content of the named paths, whatever is staged elsewhere;  *)
(* refused during a merge; nothing changes when there is nothing new       *)
(* ("nothing to commit" is not an error to simple-git).                    *)
CommitOk(paths) ==
    /\ ~merging
    /\ \A f \in paths : staged[f] # Absent \/ TipTree(head)[f] # Absent

CommitPaths(paths) ==
    LET tree == [f \in Files |-> IF f \in paths THEN disk[f] ELSE TipTree(head)[f]]
        new  == Len(commits) + 1
    IN  IF tree = TipTree(head)
        THEN UNCHANGED repoVars
        ELSE /\ commits' = Append(commits,
                               [tree |-> tree, anc |-> Tip(head).anc \union {new}])
             /\ ref' = [ref EXCEPT ![head] = new]
             /\ staged' = [f \in Files |-> IF f \in paths THEN disk[f] ELSE staged[f]]
             /\ unmerged' = unmerged \ paths
             /\ UNCHANGED <<disk, head, merging>>

---------------------------------------------------------------------------
(* Three-way merge of branch b into branch onto, file by file.             *)
MergeBase(onto, b) ==
    LET common == Tip(onto).anc \intersect Tip(b).anc
    IN  CHOOSE i \in common : \A j \in common : j <= i

MergeConflicts(onto, b) ==
    LET base == commits[MergeBase(onto, b)].tree
    IN  {f \in Files : /\ TipTree(onto)[f] # base[f]
                       /\ TipTree(b)[f] # base[f]
                       /\ TipTree(onto)[f] # TipTree(b)[f]}

MergedTree(onto, b) ==
    LET base == commits[MergeBase(onto, b)].tree
    IN  [f \in Files |-> IF TipTree(onto)[f] = base[f] THEN TipTree(b)[f]
                                                       ELSE TipTree(onto)[f]]

(* What a conflicted path holds on disk: both sides between markers.       *)
BothSides(f, b) ==
    IF Absent \in {TipTree(head)[f], TipTree(b)[f]}
    THEN CHOOSE x \in {TipTree(head)[f], TipTree(b)[f]} : x # Absent
    ELSE TipTree(head)[f] \union TipTree(b)[f]

(* git merge --no-ff b starts only on a clean index with no merge pending, *)
(* and not over a local change of a path the merge would rewrite.          *)
MergeUpToDate(b) == Exists(b) /\ ~merging /\ unmerged = {} /\ Contains(head, b)

MergeStarts(b) ==
    /\ Exists(b) /\ ~merging /\ unmerged = {} /\ ~Contains(head, b)
    /\ staged = TipTree(head)
    /\ \A f \in MergeConflicts(head, b) \union
                {g \in Files : MergedTree(head, b)[g] # TipTree(head)[g]} :
          disk[f] \in {staged[f], Absent}

MergeOk(b) ==
    \/ MergeUpToDate(b)
    \/ MergeStarts(b) /\ MergeConflicts(head, b) = {}

(* Fault to detect: the merge takes the branch's version of every file.    *)
Merge_Theirs(b) ==
    IF Contains(head, b)
    THEN UNCHANGED repoVars
    ELSE LET new == Len(commits) + 1
         IN  /\ commits' = Append(commits, [tree |-> TipTree(b),
                   anc |-> Tip(head).anc \union Tip(b).anc \union {new}])
             /\ ref' = [ref EXCEPT ![head] = new]
             /\ staged' = TipTree(b)
             /\ disk' = TipTree(b)
             /\ UNCHANGED <<head, unmerged, merging>>

Merge(b) ==
    IF Contains(head, b)
    THEN UNCHANGED repoVars
    ELSE LET tree == MergedTree(head, b)
             new  == Len(commits) + 1
         IN  /\ commits' = Append(commits,
                   [tree |-> tree, anc |-> Tip(head).anc \union Tip(b).anc \union {new}])
             /\ ref' = [ref EXCEPT ![head] = new]
             /\ staged' = tree
             /\ disk' = [f \in Files |-> IF tree[f] = TipTree(head)[f]
                                         THEN disk[f] ELSE tree[f]]
             /\ UNCHANGED <<head, unmerged, merging>>

(* A conflicted merge stops half way: no commit, the clean paths updated,  *)
(* the conflicted ones unmerged, MERGE_HEAD left behind.                   *)
MergeStopsOnConflict(b) ==
    LET tree   == MergedTree(head, b)
        broken == MergeConflicts(head, b)
    IN  /\ staged' = tree
        /\ disk' = [f \in Files |-> IF f \in broken THEN BothSides(f, b)
                                    ELSE IF tree[f] = TipTree(head)[f]
                                         THEN disk[f] ELSE tree[f]]
        /\ unmerged' = broken
        /\ merging' = TRUE
        /\ UNCHANGED <<head, ref, commits>>

(* git branch -D b: refused for a branch that is gone or checked out.      *)
DeleteBranchOk(b) == Exists(b) /\ b # head

DeleteBranch(b) ==
    /\ ref' = [ref EXCEPT ![b] = 0]
    /\ UNCHANGED <<disk, staged, head, commits, unmerged, merging>>
=============================================================================
