---------------------------- MODULE MCWorkspace ----------------------------
(* Values for Workspace: up to three calls, two files, a caller that may   *)
(* do everything and a caller that may only propose.                       *)
EXTENDS WorkspaceStore

CONSTANTS c1, c2, c3, f, g, writer, proposer

MCBranches == (Callers \X Files \X Stamps) \union {Default}

MCPerms == [x \in Callers |-> [p \in Files |->
              IF x = writer THEN {"write", "propose"} ELSE {"propose"}]]
MCApprovers == [p \in Files |-> {writer}]

Ask(kind, caller, file, dest, asked, valid) ==
    [kind |-> kind, caller |-> caller, file |-> file, dest |-> dest,
     asked |-> asked, valid |-> valid]

Edits(caller, asked) == {Ask("edit", caller, p, p, asked, TRUE) : p \in Files}
Reviews == {Ask(k, writer, f, f, "none", TRUE) : k \in {"approve", "reject"}}

(* Every kind of write by the writer; a rename is to the other file, and   *)
(* only edits and creates have content that may turn out to be invalid.    *)
Writes(asked) ==
    {r \in Request : /\ r.kind \in WriteKinds /\ r.caller = writer /\ r.asked \in asked
                     /\ (r.kind \in RenameKinds <=> r.file # r.dest)
                     /\ (r.kind \notin {"edit", "create"} => r.valid)}

(* Writes first, reviews last, either in between.                          *)
SerialMenu == [c \in Calls |->
    CASE c = c1 -> Writes({"write", "propose"}) \union Edits(proposer, "none")
      [] c = c2 -> Writes({"write", "propose"}) \union Edits(proposer, "none") \union Reviews
      [] OTHER  -> Edits(writer, "write") \union Reviews]
MixedMenu == [c \in Calls |->
    Edits(writer, "write") \union Edits(proposer, "none") \union Reviews]
EditsMenu == [c \in Calls |-> Edits(writer, "write") \union Edits(proposer, "none")]
OverlapMenu == [c \in Calls |->
    CASE c = c1 -> Writes({"write", "propose"})
      [] c = c2 -> Edits(proposer, "none") \union Edits(writer, "write")
      [] OTHER  -> Reviews]

(* text_rename does not index the new path: that is left to the next sync. *)
DirectMenu == [c \in Calls |-> {r \in Writes({"write"}) : r.kind # "text_rename"}]
=============================================================================
