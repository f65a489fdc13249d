--------------------------- MODULE WorkspaceStore ---------------------------
(***************************************************************************)
(* The write path implements ProposalStore.  A proposal is a branch, the   *)
(* empty one included that a call leaves behind whose write was refused:   *)
(* doc_proposals_list shows them all.  It starts where the branch forked   *)
(* from the default branch.  So git checkout -b is the abstract step that  *)
(* opens a proposal, a handler's commit a write or what the proposal asks  *)
(* for, the merge an approval, the branch deletion its end; all other      *)
(* steps change nothing a client of the store can see.                     *)
(***************************************************************************)
EXTENDS Workspace

(* collectProposals, with the merge base that doc_proposal_diff takes.     *)
ListedProposals ==
    {[name |-> b, base |-> commits[MergeBase(Default, b)].tree, tree |-> TipTree(b)] :
        b \in {p \in Proposals : Exists(p)}}

Store == INSTANCE ProposalStore
            WITH published <- Published, pending <- ListedProposals

(* Every behaviour of the write path, seen through the default branch and  *)
(* the list of proposals, is a behaviour of the abstract store.            *)
ImplementsStore == Store!Spec
=============================================================================
