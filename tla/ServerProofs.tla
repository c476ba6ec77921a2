---------------------------- MODULE ServerProofs ----------------------------
(***************************************************************************)
(* Server for any number of clients and descriptors, whatever the timing   *)
(* of its threads.  The hand-over of a connection through main's variable  *)
(* is sound until accept overwrites it before the new thread has read it,  *)
(* which the history variable overtaken records.  The heart is HandOver:   *)
(* while a thread has not read its argument sd still names its connection, *)
(* and from then on the thread's copy does.                                *)
(***************************************************************************)
EXTENDS Server, TLAPS

LEMMA TypeInit == Init => TypeOK
<1> SUFFICES ASSUME Init PROVE TypeOK
  OBVIOUS
<1>1. overtaken \in BOOLEAN
  BY Zenon DEF Init
<1>3. backlog \in Seq(Clients) /\ late \in Nat
  BY DEF Init
<1>2. req \in [Clients -> Requests]
  BY AsksAssumption DEF Init
<1> QED
  BY <1>1, <1>2, <1>3 DEF Init, TypeOK, Requests

LEMMA TypeStep == TypeOK /\ [Next]_vars => TypeOK'
<1> SUFFICES ASSUME TypeOK, [Next]_vars PROVE TypeOK'
  OBVIOUS
<1> USE DEF TypeOK, mainVars, clientVars, threadVars, history, ThreadAt, ThreadGoto
<1>1. CASE Check \/ NobodyWaits \/ AcceptFails \/ AcceptErrs \/ Nap \/ UNCHANGED vars
  BY <1>1 DEF Check, NobodyWaits, AcceptFails, AcceptErrs, Nap, vars
<1>11. CASE ShutDown \/ Interrupt \/ RoundExits
  <2>1. Exit /\ signalled' \in 0..1
    BY <1>11 DEF ShutDown, Interrupt, RoundExits
  <2>2. backlog' \in Seq(Clients) /\ UNCHANGED <<overtaken, late>>
    BY <2>1 DEF Exit
  <2> QED
    BY <2>1, <2>2 DEF Exit
<1>8. CASE Create
  BY <1>8 DEF Create
<1>2. ASSUME NEW fd \in Fds, Accept(fd) PROVE TypeOK'
  <2>1. Head(backlog) \in Clients /\ Tail(backlog) \in Seq(Clients)
    BY <1>2 DEF Accept
  <2>2. late + stop \in Nat
    OBVIOUS
  <2>3. overtaken' \in BOOLEAN
    BY <1>2 DEF Accept
  <2> QED
    BY <1>2, <2>1, <2>2, <2>3 DEF Accept
<1>3. ASSUME NEW fd \in Fds, ProbeOpens(fd) \/ ProbeEnds(fd) PROVE TypeOK'
  BY <1>3 DEF ProbeOpens, ProbeEnds
<1>4. ASSUME NEW c \in Clients, Connect(c) PROVE TypeOK'
  <2>1. Append(backlog, c) \in Seq(Clients)
    OBVIOUS
  <2> QED
    BY <1>4, <2>1 DEF Connect
<1>9. ASSUME NEW c \in Clients, HangUp(c) PROVE TypeOK'
  BY <1>9 DEF HangUp
<1>5. ASSUME NEW t \in Clients,
             TakeArgument(t) \/ ReadRequest(t) \/ ReadPart(t) \/ ReadEnds(t) \/ BrokenPipe(t)
                \/ Show(t)
      PROVE TypeOK'
  BY <1>5 DEF TakeArgument, ReadRequest, ReadPart, ReadEnds, BrokenPipe, Show
<1>6. ASSUME NEW t \in Clients, Refuse(t) \/ Answer(t) PROVE TypeOK'
  <2>1. answers' \in [Clients -> Nat]
    BY <1>6 DEF Refuse, Answer, Written
  <2> QED
    BY <1>6, <2>1 DEF Refuse, Answer
<1>7. ASSUME NEW t \in Clients, SetFlag(t) PROVE TypeOK'
  BY <1>7 DEF SetFlag
<1>10. ASSUME NEW t \in Clients, Close(t) PROVE TypeOK'
  <2>1. conn' \in [Clients -> {"new", "queued", "open", "closed", "gone"}]
    BY <1>10 DEF Close
  <2>2. owner' \in [Fds -> Clients \cup {NULL, Probe, Leak}]
    BY <1>10 DEF Close
  <2> QED
    BY <1>10, <2>1, <2>2 DEF Close
<1> QED
  BY <1>1, <1>2, <1>3, <1>4, <1>5, <1>6, <1>7, <1>8, <1>9, <1>10, <1>11 DEF Next, Main, Handle
(* Types, whatever the timing.                                              *)
THEOREM TypeCorrect == Spec => []TypeOK
  BY TypeInit, TypeStep, PTL DEF Spec

-----------------------------------------------------------------------------
(* A client waits in the backlog at one place at most, and before that its  *)
(* connection has neither a descriptor nor a thread.                        *)
Queue == /\ \A i \in 1..Len(backlog) : conn[backlog[i]] = "queued"
         /\ \A i, j \in 1..Len(backlog) : backlog[i] = backlog[j] => i = j
         /\ \A c \in Clients : conn[c] \in {"new", "queued"} =>
                hpc[c] = "none" /\ \A fd \in Fds : owner[fd] # c

(* Where the descriptor of each connection is known. *)
HandOver ==
    /\ \A t \in Clients : Active(t) => hfd[t] \in Fds /\ owner[hfd[t]] = t
    /\ \A t \in Clients : hpc[t] = "start" => mpc # "create" /\ sd \in Fds /\ owner[sd] = t
    /\ mpc = "create" => sd \in Fds /\ owner[sd] \in Clients /\ hpc[owner[sd]] = "none"
    /\ \A c \in Clients : Accepted(c) /\ hpc[c] = "none" => mpc = "create" /\ owner[sd] = c
    /\ \A fd \in Fds : owner[fd] \in Clients =>
          \/ mpc = "create" /\ sd = fd
          \/ hpc[owner[fd]] = "start" /\ sd = fd
          \/ Active(owner[fd]) /\ hfd[owner[fd]] = fd
    /\ \A fd \in Fds : owner[fd] \in Clients => conn[owner[fd]] \in {"open", "gone"}

Inv == /\ Running => Queue
       /\ Running /\ ~overtaken => HandOver
       /\ ~Running => \A t \in Clients : hpc[t] = "done"

LEMMA InitInv == Init => Inv
  BY OwnerAssumption DEF Init, Inv, Queue, HandOver, Active, Running, Accepted

LEMMA NextInv == TypeOK /\ TypeOK' /\ Inv /\ [Next]_vars => Inv'
<1> SUFFICES ASSUME TypeOK, TypeOK', Inv, [Next]_vars PROVE Inv'
  OBVIOUS
<1> USE OwnerAssumption
<1> USE DEF Inv, TypeOK, Queue, HandOver, Active, Running, Accepted, mainVars, clientVars,
            threadVars, history, ThreadAt, ThreadGoto
<1>1. CASE UNCHANGED vars
  BY <1>1 DEF vars
<1>2. CASE Check
  BY <1>2 DEF Check
<1>3. CASE NobodyWaits
  BY <1>3 DEF NobodyWaits
<1>4. ASSUME NEW fd \in Fds, Accept(fd) PROVE Inv'
  <2> DEFINE c == Head(backlog)
  <2>1. /\ c \in Clients /\ c = backlog[1]
        /\ owner[fd] = NULL /\ owner' = [owner EXCEPT ![fd] = c]
        /\ conn' = [conn EXCEPT ![c] = "open"]
        /\ sd' = fd /\ mpc = "poll" /\ mpc' = "create" /\ Running /\ Running' /\ UNCHANGED threadVars
        /\ overtaken' = (overtaken \/ \E t \in Clients : hpc[t] = "start")
    BY <1>4 DEF Accept, IsLowest, FreeFds
  <2>2. Queue'
    BY <1>4, <2>1 DEF Accept
  <2>3. ~overtaken' => HandOver'
    <3>1. ASSUME ~overtaken' PROVE ~overtaken /\ \A t \in Clients : hpc[t] # "start"
      BY ONLY <3>1, <2>1, Zenon
    <3>2. ASSUME NEW t \in Clients PROVE Active(t)' = Active(t)
      BY <2>1
    <3> HIDE DEF c
    <3> SUFFICES ASSUME ~overtaken' PROVE HandOver'
      OBVIOUS
    <3>3. HandOver /\ Queue
      BY <2>1, <3>1
    <3>4. conn[c] = "queued" /\ hpc[c] = "none" /\ \A g \in Fds : owner[g] # c
      BY <1>4, <2>1, <3>3 DEF Accept
    <3> QED
      BY <2>1, <3>1, <3>2, <3>3, <3>4
  <2> QED
    BY <2>1, <2>2, <2>3
<1>5. CASE AcceptFails \/ AcceptErrs
  BY <1>5 DEF AcceptFails, AcceptErrs
<1>6. CASE Create
  BY <1>6 DEF Create
<1>7. CASE Nap
  BY <1>7 DEF Nap
<1>8. CASE ShutDown \/ Interrupt \/ RoundExits
  BY <1>8 DEF ShutDown, Interrupt, RoundExits, Exit
<1>10. ASSUME NEW c \in Clients, Connect(c) PROVE Inv'
  BY <1>10 DEF Connect
<1>11. ASSUME NEW c \in Clients, HangUp(c) PROVE Inv'
  BY <1>11 DEF HangUp
<1>12. ASSUME NEW t \in Clients, TakeArgument(t) PROVE Inv'
  BY <1>12 DEF TakeArgument
<1>13. ASSUME NEW t \in Clients, ReadRequest(t) PROVE Inv'
  BY <1>13 DEF ReadRequest, Peer
<1>20. ASSUME NEW t \in Clients, ReadPart(t) PROVE Inv'
  BY <1>20 DEF ReadPart, Peer
<1>21. ASSUME NEW t \in Clients, Refuse(t) PROVE Inv'
  BY <1>21 DEF Refuse, Written, Peer
<1>14. ASSUME NEW t \in Clients, ReadEnds(t) PROVE Inv'
  BY <1>14 DEF ReadEnds
<1>15. ASSUME NEW t \in Clients, Answer(t) PROVE Inv'
  BY <1>15 DEF Answer, Written, Peer
<1>22. ASSUME NEW t \in Clients, BrokenPipe(t) \/ Show(t) PROVE Inv'
  <2>1. /\ Running /\ hpc[t] \in {"answer", "show"} /\ hpc' = [hpc EXCEPT ![t] = "close"]
        /\ UNCHANGED <<mainVars, owner, clientVars, hfd, hreq, history>>
    BY <1>22 DEF BrokenPipe, Show
  <2> QED
    BY <2>1
<1>16. ASSUME NEW t \in Clients, SetFlag(t) PROVE Inv'
  BY <1>16 DEF SetFlag
<1>17. ASSUME NEW t \in Clients, Close(t) PROVE Inv'
  BY <1>17 DEF Close, Reaches, Peer
<1>18. ASSUME NEW fd \in Fds, ProbeOpens(fd) PROVE Inv'
  <2>1. owner[fd] = NULL /\ owner' = [owner EXCEPT ![fd] = Probe]
    BY <1>18 DEF ProbeOpens, IsLowest, FreeFds
  <2>2. \A c \in Clients : c # NULL /\ c # Probe
    OBVIOUS
  <2> QED
    BY <1>18, <2>1, <2>2 DEF ProbeOpens
<1>19. ASSUME NEW fd \in Fds, ProbeEnds(fd) PROVE Inv'
  <2>1. PICK o \in {NULL, Leak} : owner' = [owner EXCEPT ![fd] = o]
    BY <1>19 DEF ProbeEnds
  <2> QED
    BY <1>19, <2>1 DEF ProbeEnds
<1> QED
  BY <1>1, <1>2, <1>3, <1>4, <1>5, <1>6, <1>7, <1>8, <1>10, <1>11, <1>12, <1>13, <1>14,
     <1>15, <1>16, <1>17, <1>18, <1>19, <1>20, <1>21, <1>22 DEF Next, Main, Handle

(* Being overtaken is the one way for a thread to lose its parameters: as   *)
(* long as no accept has overwritten sd unread, every accepted connection   *)
(* is with its own thread, for any number of clients and descriptors,       *)
(* however late threads start and however probes take and leak descriptors. *)
THEOREM HandOverSound == Spec => []KeptUnlessOvertaken
<1>1. Inv => KeptUnlessOvertaken
  BY DEF Inv, HandOver, KeptUnlessOvertaken, ParametersKept, Peer, Active
<1> QED
  BY <1>1, TypeInit, TypeStep, InitInv, NextInv, PTL DEF Spec

-----------------------------------------------------------------------------
(* The flag is set by a thread that has answered a request to stop. *)
StopInv ==
    /\ StopIsAnswered
    /\ Running /\ ~overtaken => \A t \in Clients :
          /\ hpc[t] \in {"answer", "flag"} => hreq[t] = t
          /\ hpc[t] = "flag" => req[t] = "stop" /\ (answers[t] > 0 \/ conn[t] = "gone")

(* Neither an answer nor the knowledge that a client is gone is taken back. *)
Told(c) == answers[c] > 0 \/ conn[c] = "gone"

LEMMA ToldStays == ASSUME TypeOK, Inv, [Next]_vars, NEW c \in Clients, Told(c) PROVE Told(c)'
<1> USE DEF Inv, TypeOK, Told, mainVars, clientVars, threadVars, ThreadAt, ThreadGoto
<1>1. CASE UNCHANGED <<answers, conn>>
  BY <1>1
<1>2. ASSUME NEW fd \in Fds, Accept(fd) PROVE Told(c)'
  BY <1>2 DEF Accept, Queue, Running
<1>3. ASSUME NEW d \in Clients, Connect(d) \/ HangUp(d) PROVE Told(c)'
  BY <1>3 DEF Connect, HangUp
<1>4. ASSUME NEW t \in Clients, Refuse(t) \/ Answer(t) PROVE Told(c)'
  BY <1>4 DEF Refuse, Answer, Written
<1>5. ASSUME NEW t \in Clients, Close(t) PROVE Told(c)'
  BY <1>5 DEF Close, Reaches
<1>6. ASSUME NEW t \in Clients,
             TakeArgument(t) \/ ReadRequest(t) \/ ReadPart(t) \/ ReadEnds(t) \/ BrokenPipe(t)
                \/ Show(t) \/ SetFlag(t)
      PROVE  UNCHANGED <<answers, conn>>
  BY <1>6 DEF TakeArgument, ReadRequest, ReadPart, ReadEnds, BrokenPipe, Show, SetFlag
<1>7. ASSUME Check \/ NobodyWaits \/ AcceptFails \/ AcceptErrs \/ Create \/ Nap \/ ShutDown
                \/ Interrupt \/ RoundExits \/ (\E fd \in Fds : ProbeOpens(fd) \/ ProbeEnds(fd))
                \/ UNCHANGED vars
      PROVE  UNCHANGED <<answers, conn>>
  BY <1>7 DEF Check, NobodyWaits, AcceptFails, AcceptErrs, Create, Nap, ShutDown, Interrupt,
              RoundExits, Exit, ProbeOpens, ProbeEnds, vars
<1> QED
  BY <1>1, <1>2, <1>3, <1>4, <1>5, <1>6, <1>7 DEF Next, Main, Handle

LEMMA StopInit == Init => StopInv
  BY DEF Init, StopInv, StopIsAnswered

LEMMA StopStep == TypeOK /\ TypeOK' /\ Inv /\ StopInv /\ [Next]_vars => StopInv'
<1> SUFFICES ASSUME TypeOK, TypeOK', Inv, StopInv, [Next]_vars PROVE StopInv'
  OBVIOUS
<1>0. \A c \in Clients : Told(c) => Told(c)'
  BY ToldStays
<1> USE <1>0 DEF Inv, TypeOK, HandOver, StopInv, StopIsAnswered, Told, Running, Active, Peer,
            mainVars, clientVars, threadVars, history, ThreadAt, ThreadGoto
<1>1. CASE UNCHANGED <<stop, req, hpc, hreq, overtaken>> /\ (Running' => Running)
  BY <1>1
<1>2. Check \/ NobodyWaits \/ AcceptFails \/ AcceptErrs \/ Nap
        \/ (\E fd \in Fds : ProbeOpens(fd) \/ ProbeEnds(fd))
        \/ (\E c \in Clients : Connect(c) \/ HangUp(c)) \/ UNCHANGED vars
      => UNCHANGED <<stop, req, hpc, hreq, overtaken>> /\ (Running' => Running)
  BY DEF Check, NobodyWaits, AcceptFails, AcceptErrs, Nap, ProbeOpens, ProbeEnds, Connect, HangUp, vars
<1>12. ASSUME NEW fd \in Fds, Accept(fd) PROVE StopInv'
  BY <1>12 DEF Accept
<1>13. CASE ShutDown \/ Interrupt \/ RoundExits
  BY <1>13 DEF ShutDown, Interrupt, RoundExits, Exit
<1>3. CASE Create
  BY <1>3 DEF Create
<1>4. ASSUME NEW t \in Clients, TakeArgument(t) PROVE StopInv'
  BY <1>4 DEF TakeArgument
<1>5. ASSUME NEW t \in Clients, ReadRequest(t) PROVE StopInv'
  BY <1>5 DEF ReadRequest
<1>10. ASSUME NEW t \in Clients, ReadPart(t) PROVE StopInv'
  BY <1>10 DEF ReadPart
<1>11. ASSUME NEW t \in Clients, Refuse(t) PROVE StopInv'
  BY <1>11 DEF Refuse
<1>6. ASSUME NEW t \in Clients, ReadEnds(t) \/ BrokenPipe(t) \/ Show(t) PROVE StopInv'
  BY <1>6 DEF ReadEnds, BrokenPipe, Show
<1>7. ASSUME NEW t \in Clients, Answer(t) PROVE StopInv'
  <2>1. ~overtaken => Told(t)'
    <3> SUFFICES ASSUME ~overtaken PROVE Told(t)'
      OBVIOUS
    <3>1. owner[hfd[t]] = t /\ conn[t] \in {"open", "gone"}
      BY <1>7 DEF Answer
    <3> QED
      BY <1>7, <3>1 DEF Answer, Written, Reaches
  <2> QED
    BY <1>7, <2>1 DEF Answer
<1>8. ASSUME NEW t \in Clients, SetFlag(t) PROVE StopInv'
  BY <1>8 DEF SetFlag
<1>9. ASSUME NEW t \in Clients, Close(t) PROVE StopInv'
  BY <1>9 DEF Close
<1> QED
  BY <1>1, <1>2, <1>3, <1>4, <1>5, <1>6, <1>7, <1>8, <1>9, <1>10, <1>11, <1>12, <1>13
  DEF Next, Main, Handle

(* Whoever asks for /stop has the answer before the flag can end the        *)
(* process, or has gone away, unless a thread was overtaken.                *)
THEOREM StopAnswered == Spec => []StopIsAnswered
<1>1. StopInv => StopIsAnswered
  BY DEF StopInv
<1> QED
  BY <1>1, TypeInit, TypeStep, InitInv, NextInv, StopInit, StopStep, PTL DEF Spec

-----------------------------------------------------------------------------
(* A late accept was under way when the flag was set, and main meets the    *)
(* flag before its next one.                                                *)
LateInv == /\ stop \in 0..1 /\ late \in 0..1
           /\ late = 1 => stop = 1 /\ mpc # "poll"

LEMMA LateStep == LateInv /\ [Next]_vars => LateInv'
<1> SUFFICES ASSUME LateInv, [Next]_vars PROVE LateInv'
  OBVIOUS
<1> USE DEF LateInv, mainVars, clientVars, threadVars, history
<1>1. CASE Check \/ NobodyWaits \/ AcceptFails \/ AcceptErrs \/ Create \/ Nap \/ UNCHANGED vars
  BY <1>1 DEF Check, NobodyWaits, AcceptFails, AcceptErrs, Create, Nap, vars
<1>5. CASE ShutDown \/ Interrupt \/ RoundExits
  BY <1>5 DEF ShutDown, Interrupt, RoundExits, Exit
<1>2. ASSUME NEW fd \in Fds, Accept(fd) \/ ProbeOpens(fd) \/ ProbeEnds(fd) PROVE LateInv'
  BY <1>2 DEF Accept, ProbeOpens, ProbeEnds
<1>3. ASSUME NEW c \in Clients, Connect(c) \/ HangUp(c) \/ Show(c) PROVE LateInv'
  BY <1>3 DEF Connect, HangUp, Show
<1>4. ASSUME NEW t \in Clients, Handle(t) PROVE LateInv'
  BY <1>4 DEF Handle, TakeArgument, ReadRequest, ReadPart, ReadEnds, Refuse, Answer, BrokenPipe,
              SetFlag, Close
<1> QED
  BY <1>1, <1>2, <1>3, <1>4, <1>5 DEF Next, Main

(* However late the threads start, main accepts at most one connection      *)
(* after the flag of /stop is set.                                          *)
THEOREM AtMostOneLateAccept == Spec => []OneLateAccept
<1>1. Init => LateInv
  BY DEF Init, LateInv
<1>2. LateInv => OneLateAccept
  BY DEF LateInv, OneLateAccept
<1> QED
  BY <1>1, <1>2, LateStep, PTL DEF Spec

-----------------------------------------------------------------------------
(* Nobody is answered before the end of a request, and then once. *)
AnswerInv ==
    /\ ServedOnce
    /\ Running /\ ~overtaken => \A t \in Clients :
          /\ hpc[t] \in {"none", "start", "read", "refuse", "answer"} => answers[t] = 0
          /\ hpc[t] \in {"show", "flag", "close", "done"} =>
                answers[t] <= 1 /\ (req[t] # "silent" => answers[t] = 1 \/ conn[t] = "gone")
          /\ conn[t] = "closed" => hpc[t] = "done"

LEMMA AnswerStep == TypeOK /\ TypeOK' /\ Inv /\ AnswerInv /\ [Next]_vars => AnswerInv'
<1> SUFFICES ASSUME TypeOK, TypeOK', Inv, AnswerInv, [Next]_vars PROVE AnswerInv'
  OBVIOUS
<1> USE DEF Inv, TypeOK, Queue, HandOver, AnswerInv, ServedOnce, Running, Active, Peer, mainVars,
            clientVars, threadVars, history, ThreadAt, ThreadGoto
<1>1. CASE UNCHANGED <<conn, req, answers, hpc, overtaken>> /\ (Running' => Running)
  BY <1>1
<1>2. Check \/ NobodyWaits \/ AcceptFails \/ AcceptErrs \/ Nap
        \/ (\E fd \in Fds : ProbeOpens(fd) \/ ProbeEnds(fd)) \/ UNCHANGED vars
      => UNCHANGED <<conn, req, answers, hpc, overtaken>> /\ (Running' => Running)
  BY DEF Check, NobodyWaits, AcceptFails, AcceptErrs, Nap, ProbeOpens, ProbeEnds, vars
<1>13. CASE ShutDown \/ Interrupt \/ RoundExits
  BY <1>13 DEF ShutDown, Interrupt, RoundExits, Exit
<1>3. ASSUME NEW fd \in Fds, Accept(fd) PROVE AnswerInv'
  BY <1>3 DEF Accept
<1>4. CASE Create
  BY <1>4 DEF Create
<1>5. ASSUME NEW c \in Clients, Connect(c) PROVE AnswerInv'
  BY <1>5 DEF Connect
<1>6. ASSUME NEW c \in Clients, HangUp(c) PROVE AnswerInv'
  BY <1>6 DEF HangUp
<1>7. ASSUME NEW t \in Clients, TakeArgument(t) PROVE AnswerInv'
  BY <1>7 DEF TakeArgument
<1>8. ASSUME NEW t \in Clients, ReadRequest(t) \/ ReadPart(t) PROVE AnswerInv'
  BY <1>8 DEF ReadRequest, ReadPart
<1>9. ASSUME NEW t \in Clients, ReadEnds(t) \/ BrokenPipe(t) \/ Show(t) PROVE AnswerInv'
  BY <1>9 DEF ReadEnds, BrokenPipe, Show, Reaches
<1>10. ASSUME NEW t \in Clients, Refuse(t) \/ Answer(t) PROVE AnswerInv'
  <2> SUFFICES ASSUME ~overtaken PROVE AnswerInv'
    BY <1>10 DEF Refuse, Answer
  <2>1. owner[hfd[t]] = t /\ answers[t] = 0 /\ conn[t] \in {"open", "gone"}
    BY <1>10 DEF Refuse, Answer
  <2>2. answers' = IF conn[t] = "open" THEN [answers EXCEPT ![t] = 1] ELSE answers
    BY <1>10, <2>1 DEF Refuse, Answer, Written, Reaches
  <2> QED
    BY <1>10, <2>1, <2>2 DEF Refuse, Answer
<1>11. ASSUME NEW t \in Clients, SetFlag(t) PROVE AnswerInv'
  BY <1>11 DEF SetFlag
<1>12. ASSUME NEW t \in Clients, Close(t) PROVE AnswerInv'
  BY <1>12 DEF Close, Reaches
<1> QED
  BY <1>1, <1>2, <1>3, <1>4, <1>5, <1>6, <1>7, <1>8, <1>9, <1>10, <1>11, <1>12, <1>13
  DEF Next, Main, Handle

(* However many clients there are, however their requests are cut and       *)
(* whichever of them hang up, nobody is answered twice, and nobody who asks *)
(* and waits is closed without an answer, unless a thread was overtaken.    *)
THEOREM AnsweredOnce == Spec => []ServedOnce
<1>1. Init => AnswerInv
  BY DEF Init, AnswerInv, ServedOnce
<1>2. AnswerInv => ServedOnce
  BY DEF AnswerInv
<1> QED
  BY <1>1, <1>2, TypeInit, TypeStep, InitInv, NextInv, AnswerStep, PTL DEF Spec

=============================================================================
