--------------------------- MODULE ProposalStore ---------------------------
(***************************************************************************)
(* What the write path of a document root promises its clients, with no    *)
(* git, no awaits and no working tree: a published version of the          *)
(* documents, and proposals that wait beside it.  README.md:41: "edits     *)
(* from unprivileged callers land on branches, not main. Approval is a     *)
(* merge. Rejection is branch deletion."                                   *)
(***************************************************************************)
CONSTANTS Calls, Files, Absent, Proposals

VARIABLES
    published,  \* the documents everybody reads
    pending     \* proposals: their name, what they started from, what they ask for

storeVars == <<published, pending>>

Names == {p.name : p \in pending}

(* One write: an edit adds to the latest version of a document, a create   *)
(* starts one, a delete or a rename takes exactly one document away.       *)
Edited(t)  == {[t EXCEPT ![f] = @ \union {c}] :
                  c \in Calls, f \in {x \in Files : t[x] # Absent}}
Created(t) == {[t EXCEPT ![f] = {c}] :
                  c \in Calls, f \in {x \in Files : t[x] = Absent}}
Deleted(t) == {[t EXCEPT ![f] = Absent] : f \in {x \in Files : t[x] # Absent}}
Renamed(t) == {[t EXCEPT ![f] = Absent, ![g] = t[f]] :
                  f \in {x \in Files : t[x] # Absent},
                  g \in {x \in Files : t[x] = Absent}}
Written(t) == Edited(t) \union Created(t) \union Deleted(t) \union Renamed(t)

Init == published \in [Files -> {Absent, {}}] /\ pending = {}

Publish == published' \in Written(published) /\ UNCHANGED pending

(* A proposal is on the list before its write is, and it stays there empty *)
(* when the write is refused (doc-create.ts:59-80).                        *)
Open(b) ==
    /\ b \notin Names
    /\ pending' = pending \union {[name |-> b, base |-> published, tree |-> published]}
    /\ UNCHANGED published

(* A proposal asks for one write of the documents as they are published.   *)
Propose(p) ==
    /\ p.base = published /\ p.tree = published
    /\ \E t \in Written(published) :
          pending' = (pending \ {p}) \union {[p EXCEPT !.tree = t]}
    /\ UNCHANGED published

(* Approval publishes what the proposal changed and nothing else; it is    *)
(* not possible when the same document was published anew in between.      *)
(* From then on the proposal asks for nothing more.                        *)
Approve(p) ==
    /\ \A f \in Files : p.tree[f] # p.base[f] => published[f] \in {p.base[f], p.tree[f]}
    /\ published' = [f \in Files |-> IF p.tree[f] # p.base[f] THEN p.tree[f]
                                                              ELSE published[f]]
    /\ pending' = (pending \ {p}) \union {[p EXCEPT !.base = p.tree]}

(* A proposal leaves the list: rejected, or after its approval.            *)
Close(p) == pending' = pending \ {p} /\ UNCHANGED published

Next ==
    \/ Publish
    \/ \E b \in Proposals : Open(b)
    \/ \E p \in pending : Propose(p) \/ Approve(p) \/ Close(p)

Spec == Init /\ [][Next]_storeVars
=============================================================================
