--------------------------- MODULE DocStoreProofs ---------------------------
(***************************************************************************)
(* DocStore for any set of request threads, whatever rounds, pages and     *)
(* reloads run into each other: only documents that a whole round has been *)
(* through are published, and the pointer with its many readings is one    *)
(* cell.  What that rests on is local to each thread: a round works on a   *)
(* document, and whoever is about to store one has been through it         *)
(* (Stored); and a page that no reload has robbed finds one (Promised).    *)
(***************************************************************************)
EXTENDS DocStore, TLAPS

(* A round that is over has been through its document. *)
Stored == \A t \in Threads : At(t, "store") => local[t] \in checked

(* The page of a thread finds the document that there was when it was       *)
(* found or made, or a later one, unless a reload has come between.         *)
Promised == /\ \A t \in Threads : At(t, "page") /\ t \notin robbed => doc # NULL
            /\ \A t \in robbed : At(t, "page")

(* A round works on a document. *)
Walking == \A t \in Threads : At(t, "walk") => local[t] # NULL

Inv == TypeOK /\ Walking /\ Stored /\ PublishedIsChecked /\ Promised

(* The document that a thread is given to parse is nobody's.                *)
LEMMA FreshIsNew == ~ (Docs \subseteq Held) => Fresh \in Docs /\ Fresh \notin Held
  BY DEF Fresh

LEMMA InitInv == Init => Inv
  BY DocAssumption
  DEF Init, Inv, TypeOK, Walking, Stored, PublishedIsChecked, Promised, Threads, At

LEMMA DieInv == Die => Inv'
  BY DEF Die, Inv, TypeOK, Walking, Stored, PublishedIsChecked, Promised, Threads, At

LEMMA NextInv == Inv /\ [Next]_vars => Inv'
<1> SUFFICES ASSUME Inv, [Next]_vars PROVE Inv'
  OBVIOUS
<1> USE UpdaterAssumption, DocAssumption
<1> USE DEF Inv, TypeOK, Walking, Stored, PublishedIsChecked, Promised, Threads, At, Goto
<1>1. CASE UNCHANGED vars
  BY <1>1 DEF vars
<1>2. CASE Wake
  BY <1>2 DEF Wake
<1>3. ASSUME NEW t \in Handlers, AskPage(t) \/ AskReload(t) \/ Test(t) PROVE Inv'
  BY <1>3 DEF AskPage, AskReload, Test
<1>4. ASSUME NEW t \in Threads, Call(t) PROVE Inv'
  BY <1>4 DEF Call
<1>5. ASSUME NEW t \in Threads, Parse(t) PROVE Inv'
  <2>1. PICK d \in Docs : /\ d # doc
                          /\ \A s \in Threads : d # local[s]
                          /\ local' = [local EXCEPT ![t] = d]
                          /\ freed' = freed \ {d} /\ checked' = checked \ {d}
    BY <1>5, FreshIsNew DEF Parse, Held
  <2>2. At(t, "parse") /\ pc' = [pc EXCEPT ![t] = "walk"] /\ UNCHANGED <<doc, robbed>>
    BY <1>5 DEF Parse
  <2> QED
    BY <2>1, <2>2
<1>6. ASSUME NEW t \in Threads, Return(t) PROVE Inv'
  <2>1. local[t] \in Docs
    BY <1>6 DEF Return
  <2>2. /\ At(t, "walk")
        /\ checked' = checked \cup {local[t]} /\ pc' = [pc EXCEPT ![t] = "store"]
        /\ UNCHANGED <<doc, local, freed, robbed>>
    BY <1>6 DEF Return
  <2> QED
    BY <2>1, <2>2
<1>7. ASSUME NEW t \in Threads, Hang(t) PROVE Inv'
  BY <1>7 DEF Hang
<1>8. ASSUME NEW t \in Threads, Store(t) PROVE Inv'
  BY <1>8 DEF Store
<1>9. ASSUME NEW t \in Handlers, Page(t) \/ Rendered(t) PROVE Inv'
  BY <1>9 DEF Page, Rendered
<1>10. ASSUME NEW t \in Handlers, Free(t) \/ Clear(t) PROVE Inv'
  BY <1>10 DEF Free, Clear
<1>11. ASSUME NEW t \in Threads, ParseFails(t) \/ RoundDies(t) \/ Crash(t) PROVE Inv'
  BY <1>11, DieInv DEF ParseFails, RoundDies, Crash
<1> QED
  BY <1>1, <1>2, <1>3, <1>4, <1>5, <1>6, <1>7, <1>8, <1>9, <1>10, <1>11
  DEF Next, Update, Serve

LEMMA InvHolds == Spec => []Inv
  BY InitInv, NextInv, PTL DEF Spec

(* Every variable keeps its type.                                           *)
THEOREM TypeCorrect == Spec => []TypeOK
<1>1. Inv => TypeOK
  BY DEF Inv
<1> QED
  BY InvHolds, <1>1, PTL

(* Whatever the interleaving of rounds, pages and reloads, no page shows a  *)
(* document that has not been through a whole round: the pointer is written *)
(* only after updateStatus returns.                                         *)
THEOREM PublishedChecked == Spec => []PublishedIsChecked
<1>1. Inv => PublishedIsChecked
  BY DEF Inv
<1> QED
  BY InvHolds, <1>1, PTL

-----------------------------------------------------------------------------
(* The cell's variables. *)
places == [t \in Handlers |-> Place(t)]
pages == [t \in Handlers |-> IF At(t, "render") THEN local[t] ELSE NULL]

LEMMA CellVars == doc' = doc /\ places' = places /\ pages' = pages => UNCHANGED Cell!vars
  BY DEF Cell!vars, places, pages

(* The end of the process is the end of the cell.                           *)
LEMMA DieStops == Die => Cell!Stop
  BY DEF Die, Cell!Stop, Place, At, Threads

(* A step by one thread that is at neither of a page's two places, before   *)
(* it or after, and does not write the pointer, is none of the cell.        *)
LEMMA CellKept ==
  ASSUME NEW t \in Threads, NEW l, Goto(t, l), TypeOK,
         pc[t] \notin {"page", "render"}, l \notin {"page", "render"},
         \A s \in Threads \ {t} : local'[s] = local[s], UNCHANGED <<doc, robbed>>
  PROVE UNCHANGED Cell!vars
<1>1. places' = places
  BY DEF places, Place, Goto, At, TypeOK, Threads
<1>2. pages' = pages
  BY DEF pages, Goto, At, TypeOK, Threads
<1> QED
  BY <1>1, <1>2, CellVars

(* Every step of the threads is one of the cell or none.                    *)
LEMMA CellStep == Inv /\ [Next]_vars => [Cell!Next]_Cell!vars
<1> SUFFICES ASSUME Inv, [Next]_vars PROVE Cell!Next \/ UNCHANGED Cell!vars
  OBVIOUS
<1>0. TypeOK
  BY DEF Inv
<1>1. CASE UNCHANGED vars
  <2>1. places' = places /\ pages' = pages
    BY <1>1 DEF vars, places, pages, Place, At
  <2> QED
    BY <1>1, <2>1, CellVars DEF vars
<1>2. ASSUME NEW t \in Threads,
             (t = Updater /\ Wake) \/ (t \in Handlers /\ (AskPage(t) \/ AskReload(t)))
      PROVE UNCHANGED Cell!vars
  BY <1>0, <1>2, CellKept DEF Wake, AskPage, AskReload, At
<1>3. ASSUME NEW t \in Handlers, Test(t) PROVE Cell!Find(t) \/ UNCHANGED Cell!vars
  <2>1. CASE doc = NULL
    BY <1>0, <1>3, <2>1, CellKept DEF Test, At, Threads
  <2>2. CASE doc # NULL
    <3>1. places[t] = "away" /\ places' = [places EXCEPT ![t] = "promised"]
      BY <1>3, <2>2 DEF Test, places, Place, At, Goto, Inv, TypeOK, Promised, Threads
    <3>2. pages' = pages /\ doc' = doc
      BY <1>3, <2>2 DEF Test, pages, At, Goto, Inv, TypeOK, Threads
    <3> QED
      BY <2>2, <3>1, <3>2 DEF Cell!Find, places, pages
  <2> QED
    BY <2>1, <2>2
<1>4. ASSUME NEW t \in Threads, Call(t) \/ Parse(t) \/ Return(t) \/ Hang(t)
      PROVE UNCHANGED Cell!vars
  <2>1. CASE Call(t) BY <1>0, <2>1, CellKept DEF Call, At, TypeOK
  <2>2. CASE Parse(t) BY <1>0, <2>2, CellKept DEF Parse, At, TypeOK
  <2>3. CASE Return(t) BY <1>0, <2>3, CellKept DEF Return, At
  <2>4. CASE Hang(t) BY <1>0, <2>4, CellKept DEF Hang, At
  <2> QED BY <1>4, <2>1, <2>2, <2>3, <2>4
<1>5. ASSUME NEW t \in Threads, Store(t) PROVE Cell!Publish
  <2>1. doc' \in Docs
    BY <1>5 DEF Store, Inv, TypeOK, Stored, At
  <2>2. pages' = pages
    BY <1>5 DEF Store, pages, At, Goto, Inv, TypeOK, Threads
  <2>3. CASE t = Updater
    <3>1. places' = places
      BY <1>5, <2>3, UpdaterAssumption
      DEF Store, places, Place, At, Goto, Inv, TypeOK, Threads
    <3> QED
      BY <2>1, <2>2, <3>1 DEF Cell!Publish, places, pages
  <2>4. CASE t # Updater
    <3>1. t \in Handlers
      BY <2>4 DEF Threads
    <3>2. places[t] = "away" /\ places' = [places EXCEPT ![t] = "promised"]
      BY <1>5, <2>4, <3>1
      DEF Store, places, Place, At, Goto, Inv, TypeOK, Promised, Threads
    <3> QED
      BY <2>1, <2>2, <3>1, <3>2 DEF Cell!Publish, places, pages
  <2> QED
    BY <2>3, <2>4
<1>6. ASSUME NEW t \in Handlers, Page(t) PROVE Cell!Show(t) \/ Cell!Blank(t)
  <2>1. places[t] \in {"promised", "robbed"} /\ (places[t] = "promised" => doc # NULL)
    BY <1>6 DEF Page, places, Place, At, Inv, Promised, Threads
  <2>2. places' = [places EXCEPT ![t] = "showing"]
    BY <1>6 DEF Page, places, Place, At, Goto, Inv, TypeOK, Threads
  <2>3. doc' = doc /\ pages[t] = NULL /\ pages' = [pages EXCEPT ![t] = doc]
    BY <1>6 DEF Page, pages, At, Goto, Inv, TypeOK, Threads
  <2>4. CASE doc # NULL
    BY <2>1, <2>2, <2>3, <2>4 DEF Cell!Show, places, pages
  <2>5. CASE doc = NULL
    <3>1. pages' = pages
      BY <2>3, <2>5 DEF pages
    <3> QED
      BY <2>1, <2>2, <2>3, <2>5, <3>1 DEF Cell!Blank, places, pages
  <2> QED
    BY <2>4, <2>5
<1>7. ASSUME NEW t \in Handlers, Rendered(t) PROVE Cell!Shown(t)
  <2>1. places[t] = "showing" /\ places' = [places EXCEPT ![t] = "away"]
    BY <1>7 DEF Rendered, places, Place, At, Goto, Inv, TypeOK, Threads
  <2>2. doc' = doc /\ pages' = [pages EXCEPT ![t] = NULL]
    BY <1>7 DEF Rendered, pages, At, Goto, Inv, TypeOK, Threads
  <2> QED
    BY <2>1, <2>2 DEF Cell!Shown, places, pages
<1>8. ASSUME NEW t \in Handlers, Free(t) PROVE UNCHANGED Cell!vars
  BY <1>0, <1>8, CellKept DEF Free, At, Threads
<1>9. ASSUME NEW t \in Handlers, Clear(t) PROVE Cell!Drop
  <2>1. doc' = NULL /\ pages' = pages
    BY <1>9 DEF Clear, pages, At, Goto, Inv, TypeOK, Threads
  <2>2. ASSUME NEW r \in Handlers
        PROVE places'[r] = IF places[r] = "promised" THEN "robbed" ELSE places[r]
    BY <1>9 DEF Clear, places, Place, At, Goto, Inv, TypeOK, Threads
  <2>3. places' = [r \in Handlers |-> IF places[r] = "promised" THEN "robbed" ELSE places[r]]
    BY <2>2 DEF places
  <2> QED
    BY <2>1, <2>3 DEF Cell!Drop, places, pages
<1>10. ASSUME NEW t \in Threads, ParseFails(t) \/ RoundDies(t) \/ Crash(t) PROVE Cell!Stop
  BY <1>10, DieStops DEF ParseFails, RoundDies, Crash
<1> QED
  BY <1>1, <1>2, <1>3, <1>4, <1>5, <1>6, <1>7, <1>8, <1>9, <1>10
  DEF Next, Update, Serve, Cell!Next, Threads

(* For any number of request threads, and whatever rounds and reloads run   *)
(* into each other, the pointer with its many readings is one cell to those *)
(* who ask for pages.                                                       *)
THEOREM CellImplemented == Spec => OneCell
<1>1. Init => Cell!Init
  BY UpdaterAssumption DEF Init, Cell!Init, Place, At, Threads
<1>2. Inv /\ [Next]_vars => [Cell!Next]_Cell!vars
  BY CellStep
<1> QED
  BY InvHolds, <1>1, <1>2, PTL DEF Spec, OneCell, Cell!Spec
=============================================================================
