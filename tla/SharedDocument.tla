--------------------------- MODULE SharedDocument ---------------------------
(***************************************************************************)
(* What the people who ask for the page, and the one who reloads, may take *)
(* the document of src/handler.cpp for: one cell that rounds fill and      *)
(* reloads empty.  A page that has been promised a document shows the one  *)
(* in the cell, and is blank only when a reload has come between the       *)
(* promise and the page.                                                   *)
(***************************************************************************)
CONSTANTS Readers, Documents, None

VARIABLES
    current, \* the document, or None
    place,   \* each reader: "away", "promised", "robbed" of what it was
             \* promised, or "showing"
    reading  \* what each page under way shows

vars == <<current, place, reading>>

Init == /\ current = None
        /\ place = [r \in Readers |-> "away"]
        /\ reading = [r \in Readers |-> None]

(* A round is complete, one more of the same document or the first of       *)
(* another.  A reader may have run it, and then it has its document.        *)
Publish == /\ current' \in Documents
           /\ \/ UNCHANGED place
              \/ \E r \in Readers : place[r] = "away" /\ place' = [place EXCEPT ![r] = "promised"]
           /\ UNCHANGED reading

(* A reader finds that there is a document. *)
Find(r) == /\ place[r] = "away" /\ current # None
           /\ place' = [place EXCEPT ![r] = "promised"]
           /\ UNCHANGED <<current, reading>>

(* A reload, which promises do not stop. *)
Drop == /\ current' = None
        /\ place' = [r \in Readers |-> IF place[r] = "promised" THEN "robbed" ELSE place[r]]
        /\ UNCHANGED reading

Show(r) == /\ place[r] \in {"promised", "robbed"} /\ current # None
           /\ place' = [place EXCEPT ![r] = "showing"]
           /\ reading' = [reading EXCEPT ![r] = current]
           /\ UNCHANGED current

Blank(r) == /\ place[r] = "robbed" /\ current = None
            /\ place' = [place EXCEPT ![r] = "showing"]
            /\ UNCHANGED <<current, reading>>

Shown(r) == /\ place[r] = "showing"
            /\ place' = [place EXCEPT ![r] = "away"]
            /\ reading' = [reading EXCEPT ![r] = None]
            /\ UNCHANGED current

(* The program ends. *)
Stop == /\ current' = None
        /\ place' = [r \in Readers |-> "away"]
        /\ reading' = [r \in Readers |-> None]

Next == Publish \/ Drop \/ Stop \/ \E r \in Readers : Find(r) \/ Show(r) \/ Blank(r) \/ Shown(r)

Spec == Init /\ [][Next]_vars
=============================================================================
