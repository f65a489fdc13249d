-------------------------------- MODULE Edits --------------------------------
(***************************************************************************)
(* The three ways of editing a document, side by side: by sections           *)
(* (DocEdits), by the rows of a table (DocTables) and by lines (DocLines).   *)
(* A behaviour takes one of them; they meet in executeWrite (Workspace).     *)
(***************************************************************************)
EXTENDS DocEdits

CONSTANTS PlainText, Folded, Tables, Wheres, Numbers, Records, MaxBatches,
          Letters, Spaces, MaxLength, Snippets, MaxEdits

VARIABLES tables, batches, text, before, edit, edits

tableVars == <<tables, batches>>
lineVars  == <<text, before, edit, edits>>

Rows  == INSTANCE DocTables
Plaintext == INSTANCE DocLines

ASSUME EditsAssumption ==
    /\ Tables \subseteq Seq(Rows!Table)
    /\ Rows!Empty \in DOMAIN PlainText
    /\ \A r \in Records : \A name \in DOMAIN r : r[name] \in DOMAIN PlainText
    /\ Snippets \subseteq Seq(Plaintext!Chars)
    /\ MaxLength \in Nat /\ MaxBatches \in Nat /\ MaxEdits \in Nat

DocIdle == doc = <<>> /\ seen = <<>> /\ call = Plain("none") /\ calls = MaxCalls

EditsInit ==
    \/ Init    /\ Rows!Idle /\ Plaintext!Idle
    \/ DocIdle /\ Rows!Init /\ Plaintext!Idle
    \/ DocIdle /\ Rows!Idle /\ Plaintext!Init

EditsNext ==
    \/ Next           /\ UNCHANGED <<tableVars, lineVars>>
    \/ Rows!Next      /\ UNCHANGED <<vars, lineVars>>
    \/ Plaintext!Next /\ UNCHANGED <<vars, tableVars>>

EditsSpec == EditsInit /\ [][EditsNext]_<<vars, tableVars, lineVars>>

(* The properties of the tables and of the lines, under names of their own   *)
(* (DocTables and DocLines state them).                                     *)
BatchIsItsCalls  == Rows!BatchIsItsCalls
UnpickedRowsStay == Rows!UnpickedRowsStay
LinesAreTheText  == Plaintext!LinesAreTheText
FindsEveryPlace  == Plaintext!FindsEveryPlace
OtherLinesStay   == Plaintext!OtherLinesStay
=============================================================================
