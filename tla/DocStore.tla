------------------------------ MODULE DocStore ------------------------------
(***************************************************************************)
(* The document in memory and the threads that share it (src/handler.cpp). *)
(* The global pointer doc is read and written by update_thread and by one  *)
(* thread per HTTP request, with no lock: every access of the pointer is a *)
(* step of its own here, in the order of the code.  What a thread does     *)
(* inside a document (a round of updateStatus, or rendering the page) is   *)
(* one stay between two steps, which need not end: a round may hang, or    *)
(* end the process.  Monitor is about what a round does.                   *)
(*                                                                         *)
(* A document is an identity, not an address: that the allocator may give  *)
(* the address of a released document to a new one while somebody still    *)
(* points to it is left out.                                               *)
(***************************************************************************)
EXTENDS FiniteSets

CONSTANTS
    Handlers,  \* threads that serve HTTP requests, reused from one to the next
    Updater,   \* the thread running update_thread
    Docs,      \* documents; one that nobody points to any more is used again
    NULL

Threads == Handlers \cup {Updater}

ASSUME UpdaterAssumption == Updater \notin Handlers
ASSUME DocAssumption == NULL \notin Docs

VARIABLES
    doc,     \* the global pointer
    local,   \* the document each thread works on: updateStatus' parameter,
             \* or the argument of xsltProcess
    pc,      \* where each thread is
    freed,   \* documents released by xmlFreeDoc
    checked, \* documents a whole round has been through
    robbed   \* history: threads whose page has found a document that a reload
             \* has dropped since

vars == <<doc, local, pc, freed, checked, robbed>>

Init == /\ doc = NULL
        /\ local = [t \in Threads |-> NULL]
        /\ pc = [t \in Threads |-> IF t = Updater THEN "sleep" ELSE "idle"]
        /\ freed = {} /\ checked = {} /\ robbed = {}

At(t, l) == pc[t] = l
Goto(t, l) == pc' = [pc EXCEPT ![t] = l]

(* The documents somebody still points to; one of the others will be the    *)
(* next to be made, it does not matter which.                               *)
Held == {local[t] : t \in Threads} \cup {doc}
Fresh == CHOOSE d \in Docs : d \notin Held

-----------------------------------------------------------------------------
(* Starting: the updater's wait ends, a request for the page or for a       *)
(* reload is read.  The other requests never touch the document.            *)
Wake == /\ At(Updater, "sleep")
        /\ Goto(Updater, "call")
        /\ UNCHANGED <<doc, local, freed, checked, robbed>>

AskPage(t) == /\ At(t, "idle")
              /\ Goto(t, "test")
              /\ UNCHANGED <<doc, local, freed, checked, robbed>>

AskReload(t) == /\ At(t, "idle")
                /\ Goto(t, "free")
                /\ UNCHANGED <<doc, local, freed, checked, robbed>>

-----------------------------------------------------------------------------
(* A slip: the page is rendered without the on-demand update. *)
TestNothing(t) == /\ At(t, "test")
                  /\ Goto(t, "page")
                  /\ UNCHANGED <<doc, local, freed, checked, robbed>>

(* if (doc == NULL): the first of a request's reads of the pointer. *)
Test(t) == /\ At(t, "test")
           /\ Goto(t, IF doc = NULL THEN "call" ELSE "page")
           /\ UNCHANGED <<doc, local, freed, checked, robbed>>

(* The call updateStatus(doc): the pointer is read again, as the argument. *)
Call(t) == /\ At(t, "call")
           /\ local' = [local EXCEPT ![t] = doc]
           /\ Goto(t, IF doc = NULL THEN "parse" ELSE "walk")
           /\ UNCHANGED <<doc, freed, checked, robbed>>

(* A slip: the document is published before it has been checked. *)
ParseAndPublish(t) ==
    /\ At(t, "parse")
    /\ ~ (Docs \subseteq Held)
    /\ local' = [local EXCEPT ![t] = Fresh]
    /\ doc' = Fresh
    /\ freed' = freed \ {Fresh} /\ checked' = checked \ {Fresh}
    /\ Goto(t, "walk")
    /\ UNCHANGED <<robbed>>

(* xmlParseFile, for a caller who passed NULL. *)
Parse(t) == /\ At(t, "parse")
            /\ ~ (Docs \subseteq Held)
            /\ local' = [local EXCEPT ![t] = Fresh]
            /\ freed' = freed \ {Fresh} /\ checked' = checked \ {Fresh}
            /\ Goto(t, "walk")
            /\ UNCHANGED <<doc, robbed>>

(* The process ends, and nothing is left in memory. *)
Die == /\ doc' = NULL
       /\ local' = [t \in Threads |-> NULL]
       /\ pc' = [t \in Threads |-> "gone"]
       /\ freed' = {} /\ checked' = {} /\ robbed' = {}

(* xmlParseFile returns NULL for a file that is missing or half-written,    *)
(* and the root of that document is dereferenced.                           *)
ParseFails(t) == At(t, "parse") /\ Die

(* A slip: without the parameter that hides it, the round would be one on   *)
(* the global document.                                                     *)
ReturnGlobal(t) == /\ At(t, "walk")
                   /\ checked' = checked \cup {doc}
                   /\ Goto(t, "store")
                   /\ UNCHANGED <<doc, local, freed, robbed>>

(* The round is over. *)
Return(t) == /\ At(t, "walk")
             /\ checked' = checked \cup {local[t]}
             /\ Goto(t, "store")
             /\ UNCHANGED <<doc, local, freed, robbed>>

(* The round never is: a probe waits for a proxy that is silent. *)
Hang(t) == /\ At(t, "walk")
           /\ Goto(t, "hung")
           /\ UNCHANGED <<doc, local, freed, checked, robbed>>

(* The round ends the process: exit(1) in a probe, or a division by zero.   *)
RoundDies(t) == At(t, "walk") /\ Die

(* A slip: the result is assigned to a variable that hides the global one, *)
(* as the handler of /help declares one.                                    *)
StoreHidden(t) == /\ At(t, "store")
                  /\ local' = [local EXCEPT ![t] = NULL]
                  /\ Goto(t, IF t = Updater THEN "sleep" ELSE "page")
                  /\ UNCHANGED <<doc, freed, checked, robbed>>

(* doc = updateStatus(doc): whatever the pointer has become meanwhile. *)
Store(t) == /\ At(t, "store")
            /\ doc' = local[t]
            /\ local' = [local EXCEPT ![t] = NULL]
            /\ Goto(t, IF t = Updater THEN "sleep" ELSE "page")
            /\ UNCHANGED <<freed, checked, robbed>>

-----------------------------------------------------------------------------
(* xsltProcess(sd, doc, ...): the pointer is read once more. *)
Page(t) == /\ At(t, "page")
           /\ local' = [local EXCEPT ![t] = doc]
           /\ robbed' = robbed \ {t}
           /\ Goto(t, "render")
           /\ UNCHANGED <<doc, freed, checked>>

(* The page has been written, or without a document has failed. *)
Rendered(t) == /\ At(t, "render")
               /\ local' = [local EXCEPT ![t] = NULL]
               /\ Goto(t, "idle")
               /\ UNCHANGED <<doc, freed, checked, robbed>>

-----------------------------------------------------------------------------
(* xmlFreeDoc(doc), which accepts NULL. *)
Free(t) == /\ At(t, "free")
           /\ freed' = freed \cup ({doc} \ {NULL})
           /\ Goto(t, "clear")
           /\ UNCHANGED <<doc, local, checked, robbed>>

(* doc = NULL. *)
Clear(t) == /\ At(t, "clear")
            /\ doc' = NULL
            /\ robbed' = robbed \cup {s \in Threads : At(s, "page")}
            /\ Goto(t, "idle")
            /\ UNCHANGED <<local, freed, checked>>

(* The use of a document that has been released, in a round, in a page or   *)
(* in a second release, may be the end of the process; or may not.          *)
UseAfterFree(t) == \/ (At(t, "walk") \/ At(t, "render")) /\ local[t] \in freed
                   \/ At(t, "free") /\ doc \in freed
Crash(t) == UseAfterFree(t) /\ Die

-----------------------------------------------------------------------------
Update(t) == Call(t) \/ Parse(t) \/ ParseFails(t) \/ Return(t) \/ Store(t)

Serve(t) == Test(t) \/ Update(t) \/ Page(t) \/ Rendered(t) \/ Free(t) \/ Clear(t)

Next == \/ Wake \/ Update(Updater)
        \/ \E t \in Handlers : AskPage(t) \/ AskReload(t) \/ Serve(t)
        \/ \E t \in Threads : Hang(t) \/ RoundDies(t) \/ Crash(t)

(* The updater's wait is timed and no step of either kind of thread waits   *)
(* for another thread, though a round may hang; nobody has to send          *)
(* requests.                                                                *)
Fairness == /\ WF_vars(Wake \/ Update(Updater))
            /\ \A t \in Handlers : WF_vars(Serve(t))

Spec == Init /\ [][Next]_vars /\ Fairness

-----------------------------------------------------------------------------
TypeOK ==
    /\ doc \in Docs \cup {NULL}
    /\ local \in [Threads -> Docs \cup {NULL}]
    /\ pc \in [Threads -> {"sleep", "idle", "test", "call", "parse", "walk", "hung", "store",
                           "page", "render", "free", "clear", "gone"}]
    /\ freed \subseteq Docs /\ checked \subseteq Docs
    /\ robbed \subseteq Threads

(* No page shows a document whose first round is not complete. *)
PublishedIsChecked == doc # NULL => doc \in checked

(* A reload, and the start of the program, are followed by a new document,  *)
(* requested or not, unless the process ends or the updater hangs for good. *)
EventuallyLoaded == doc = NULL ~> doc # NULL \/ At(Updater, "gone") \/ At(Updater, "hung")

(* To those who ask for pages, whatever rounds and reloads run into each    *)
(* other, the pointer and its many readings are one cell: a page shows the  *)
(* document there is when it begins, it finds or makes one first, and only  *)
(* a reload that comes after that leaves it blank.                          *)
Place(t) == CASE At(t, "page") -> IF t \in robbed THEN "robbed" ELSE "promised"
              [] At(t, "render") -> "showing"
              [] OTHER -> "away"
Cell == INSTANCE SharedDocument
          WITH Readers <- Handlers, Documents <- Docs, None <- NULL,
               current <- doc,
               place <- [t \in Handlers |-> Place(t)],
               reading <- [t \in Handlers |-> IF At(t, "render") THEN local[t] ELSE NULL]
OneCell == Cell!Spec

(* handler.cpp:841: "Release the document, so the next time it will read it *)
(* from the file."  When no reload is half done, the pointer is not left at *)
(* a document that one has released.  A round under way stores it back.     *)
ReloadTakesEffect == (\A t \in Threads : ~At(t, "clear")) => doc \notin freed

(* handler.cpp:50: mutex1 is a "Semaphore for accessing the XML structure." *)
(* While a round writes into a document no other thread is inside it, and   *)
(* nobody releases a document that a thread is inside of.                   *)
Inside(t) == At(t, "walk") \/ At(t, "render")
StructureGuarded ==
    /\ \A s, t \in Threads : s # t /\ At(s, "walk") /\ Inside(t) => local[s] # local[t]
    /\ \A t \in Threads : Inside(t) => local[t] \notin freed
=============================================================================
