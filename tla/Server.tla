------------------------------- MODULE Server -------------------------------
(***************************************************************************)
(* The HTTP side of eclss (src/server.cpp main and w_accept,               *)
(* src/handler.cpp request_handler): one thread accepts, and hands every   *)
(* connection to a new thread by the address of one variable, sd, which it *)
(* overwrites at the next accept.  Descriptors are what the threads share, *)
(* with each other and with the probes of the updater: the lowest free one *)
(* is given out, and a closed one comes back as somebody else's.           *)
(*                                                                         *)
(* A request is its effect on this module: "stop", any other request that  *)
(* is answered ("page"), or nothing at all ("silent": the client connects, *)
(* sends nothing, and may hang up).  It may come in parts.  What the answer *)
(* holds is elsewhere.                                                     *)
(***************************************************************************)
EXTENDS Integers, Sequences, FiniteSets

CONSTANTS
    Clients,  \* each connects at most once; the thread created for the
              \* connection of c is called c as well
    MaxFd,    \* descriptors the process may open, the listening one apart
    Backlog,  \* second argument of listen()
    MaxGone,  \* bound: clients that hang up
    Asks,     \* the ways the clients may share the requests among them
    NULL,
    Probe,    \* owner of the socket of the probe under way
    Leak,     \* owner of a socket a failed probe left open
    Mishaps   \* accept may fail for other reasons than a full table, and a
              \* round may end the process

Fds == 1..MaxFd
Requests == {"page", "stop", "silent"}

ASSUME SizeAssumption == MaxFd \in Nat /\ Backlog \in Nat /\ MaxGone \in Nat
ASSUME AsksAssumption == Asks \subseteq [Clients -> Requests]
ASSUME OwnerAssumption == /\ {NULL, Probe, Leak} \cap Clients = {}
                          /\ NULL # Probe /\ NULL # Leak /\ Probe # Leak
                          /\ NULL \notin Fds
ASSUME MishapAssumption == Mishaps \in BOOLEAN

VARIABLES
    mpc,       \* where main is
    stop,      \* shouldistop
    signalled, \* SIGINT has been handled
    sd,        \* main's variable, whose address every thread gets
    owner,     \* who is behind each descriptor; NULL if it is free
    backlog,   \* connections not yet accepted
    conn,      \* each client: "new", "queued", "open", "closed" or "gone"
    req,       \* what each client asks for
    answers,   \* answers written to each client
    hpc,       \* where the thread created for each client is
    hfd,       \* its own copy of sd
    hreq,      \* the request it has read
    late,      \* history: accepts after the stop flag was set
    overtaken  \* history: accept has overwritten sd before the thread created
               \* last had read it

mainVars == <<mpc, sd>>
clientVars == <<backlog, conn, req>>
threadVars == <<hpc, hfd, hreq>>
history == <<late, overtaken>>
vars == <<mainVars, stop, signalled, owner, clientVars, answers, threadVars, history>>

Init == /\ mpc = "check"
        /\ stop = 0 /\ signalled = 0
        /\ sd = NULL
        /\ owner = [fd \in Fds |-> NULL]
        /\ backlog = <<>>
        /\ conn = [c \in Clients |-> "new"]
        /\ req \in Asks
        /\ answers = [c \in Clients |-> 0]
        /\ hpc = [c \in Clients |-> "none"]
        /\ hfd = [c \in Clients |-> NULL]
        /\ hreq = [c \in Clients |-> NULL]
        /\ late = 0
        /\ overtaken = FALSE

Running == mpc # "exited"

FreeFds == {fd \in Fds : owner[fd] = NULL}
IsLowest(fd) == fd \in FreeFds /\ \A g \in FreeFds : fd <= g

-----------------------------------------------------------------------------
(* Clients. *)
Connect(c) == /\ Running
              /\ conn[c] = "new"
              /\ Len(backlog) < Backlog
              /\ backlog' = Append(backlog, c)
              /\ conn' = [conn EXCEPT ![c] = "queued"]
              /\ UNCHANGED <<mainVars, stop, signalled, owner, req, answers, threadVars, history>>

(* A client closes its end, whatever it has asked for and however far the   *)
(* answer has come.                                                         *)
HangUp(c) == /\ Running
             /\ conn[c] = "open"
             /\ Cardinality({d \in Clients : conn[d] = "gone"}) < MaxGone
             /\ conn' = [conn EXCEPT ![c] = "gone"]
             /\ UNCHANGED <<mainVars, stop, signalled, owner, backlog, req, answers,
                            threadVars, history>>

-----------------------------------------------------------------------------
(* A slip: the flag is not looked at. *)
CheckNothing == /\ mpc = "check"
                /\ mpc' = "poll"
                /\ UNCHANGED <<sd, stop, signalled, owner, clientVars, answers, threadVars, history>>

(* w_accept, which polls: the flag is read, then accept is called.          *)
Check == /\ mpc = "check"
         /\ mpc' = IF stop = 1 THEN "down" ELSE "poll"
         /\ UNCHANGED <<sd, stop, signalled, owner, clientVars, answers, threadVars, history>>

(* EAGAIN: nobody is waiting. *)
NobodyWaits == /\ mpc = "poll"
               /\ backlog = <<>>
               /\ mpc' = "check"
               /\ UNCHANGED <<sd, stop, signalled, owner, clientVars, answers, threadVars, history>>

Accept(fd) ==
    /\ mpc = "poll"
    /\ backlog # <<>>
    /\ IsLowest(fd)
    /\ LET c == Head(backlog) IN
         /\ owner' = [owner EXCEPT ![fd] = c]
         /\ conn' = [conn EXCEPT ![c] = "open"]
    /\ backlog' = Tail(backlog)
    /\ sd' = fd
    /\ mpc' = "create"
    /\ late' = late + stop
    /\ overtaken' = (overtaken \/ \E t \in Clients : hpc[t] = "start")
    /\ UNCHANGED <<stop, signalled, req, answers, threadVars>>

(* A slip: the -1 that accept returns is taken for a descriptor. *)
AcceptUnchecked ==
    /\ mpc = "poll"
    /\ FreeFds = {}
    /\ sd' = -1
    /\ mpc' = "create"
    /\ UNCHANGED <<stop, signalled, owner, clientVars, answers, threadVars, history>>

(* EMFILE, the table being full, ends the loop of main.                     *)
AcceptFails == /\ mpc = "poll"
               /\ FreeFds = {}
               /\ mpc' = "down"
               /\ UNCHANGED <<sd, stop, signalled, owner, clientVars, answers, threadVars, history>>

(* So does every other error but EAGAIN: the system is out of files or of   *)
(* memory, the connection was aborted, the network has an error pending.    *)
AcceptErrs == /\ Mishaps
              /\ mpc = "poll"
              /\ mpc' = "down"
              /\ UNCHANGED <<sd, stop, signalled, owner, clientVars, answers, threadVars, history>>

Accepted(c) == conn[c] \notin {"new", "queued"}

(* pthread_create, with the address of sd as the argument: the thread of    *)
(* the client accepted last, whatever sd has become meanwhile.              *)
Create == /\ mpc = "create"
          /\ mpc' = "nap"
          /\ \E c \in Clients : Accepted(c) /\ hpc[c] = "none" /\ hpc' = [hpc EXCEPT ![c] = "start"]
          /\ UNCHANGED <<sd, stop, signalled, owner, clientVars, answers, hfd, hreq, history>>

(* A slip: the thread is joined, as the source once had it. *)
NapJoining == /\ mpc = "nap"
              /\ \A c \in Clients : hpc[c] \in {"none", "done"}
              /\ mpc' = "check"
              /\ UNCHANGED <<sd, stop, signalled, owner, clientVars, answers, threadVars, history>>

(* usleep(3000), which waits for nobody. *)
Nap == /\ mpc = "nap"
       /\ mpc' = "check"
       /\ UNCHANGED <<sd, stop, signalled, owner, clientVars, answers, threadVars, history>>

(* The process ends: its threads with it, its memory is gone and its        *)
(* descriptors are closed; the flags remain, to say why.                    *)
Exit == /\ mpc' = "exited"
        /\ sd' = NULL
        /\ owner' = [fd \in Fds |-> NULL]
        /\ backlog' = <<>>
        /\ hpc' = [t \in Clients |-> "done"]
        /\ hfd' = [t \in Clients |-> NULL]
        /\ hreq' = [t \in Clients |-> NULL]
        /\ UNCHANGED <<stop, conn, req, answers, history>>

(* shutdown, close and exit(0). *)
ShutDown == mpc = "down" /\ Exit /\ UNCHANGED signalled

(* sig_interrupt. *)
Interrupt == Running /\ Exit /\ signalled' = 1

-----------------------------------------------------------------------------
(* request_handler in the thread t. *)
ThreadAt(t, l) == Running /\ hpc[t] = l
ThreadGoto(t, l) == hpc' = [hpc EXCEPT ![t] = l]

(* The updater's round probes one URL after the other, and so does the      *)
(* round of each page that finds no document.                               *)
Probing == {fd \in Fds : owner[fd] = Probe}
Showing == {t \in Clients : hpc[t] = "show"}

(* The argument is dereferenced: whatever main's variable holds by now. *)
TakeArgument(t) ==
    /\ ThreadAt(t, "start")
    /\ hfd' = [hfd EXCEPT ![t] = sd]
    /\ ThreadGoto(t, "read")
    /\ UNCHANGED <<mainVars, stop, signalled, owner, clientVars, answers, hreq, history>>

Peer(t) == owner[hfd[t]]

(* read returns a request nobody has taken yet; it may have come before the *)
(* client hung up.                                                          *)
ReadRequest(t) ==
    /\ ThreadAt(t, "read")
    /\ Peer(t) \in Clients
    /\ req[Peer(t)] # "silent"
    /\ \A s \in Clients : hreq[s] # Peer(t)
    /\ hreq' = [hreq EXCEPT ![t] = Peer(t)]
    /\ ThreadGoto(t, "answer")
    /\ UNCHANGED <<mainVars, stop, signalled, owner, clientVars, answers, hfd, history>>

(* What read returns is looked at once, and only the first part of the      *)
(* request has come: no pattern is in it.                                   *)
ReadPart(t) ==
    /\ ThreadAt(t, "read")
    /\ Peer(t) \in Clients
    /\ req[Peer(t)] # "silent"
    /\ \A s \in Clients : hreq[s] # Peer(t)
    /\ hreq' = [hreq EXCEPT ![t] = Peer(t)]
    /\ ThreadGoto(t, "refuse")
    /\ UNCHANGED <<mainVars, stop, signalled, owner, clientVars, answers, hfd, history>>

(* read returns 0 or an error: the client is gone, or the descriptor is no  *)
(* longer that of a connection.                                             *)
ReadEnds(t) ==
    /\ ThreadAt(t, "read")
    /\ Peer(t) \in Clients => conn[Peer(t)] = "gone"
    /\ ThreadGoto(t, "close")
    /\ UNCHANGED <<mainVars, stop, signalled, owner, clientVars, answers, hfd, hreq, history>>

(* An answer reaches whoever is at the other end of the descriptor, if      *)
(* anybody is.                                                              *)
Reaches(t) == Peer(t) \in Clients /\ conn[Peer(t)] = "open"
Written(t) == answers' = IF Reaches(t) THEN [answers EXCEPT ![Peer(t)] = @ + 1] ELSE answers

(* A slip: the flag of /stop is set before the answer is written. *)
AnswerAfterFlag(t) ==
    /\ ThreadAt(t, "answer")
    /\ IF stop = 0 /\ req[hreq[t]] = "stop"
       THEN stop' = 1 /\ UNCHANGED <<answers, hpc>>
       ELSE Written(t) /\ ThreadGoto(t, "show") /\ UNCHANGED stop
    /\ UNCHANGED <<mainVars, signalled, owner, clientVars, hfd, hreq, history>>

(* The head of the answer is written: all of it for /stop, and for a page   *)
(* the body follows.                                                        *)
Answer(t) ==
    /\ ThreadAt(t, "answer")
    /\ Written(t)
    /\ ThreadGoto(t, IF req[hreq[t]] = "stop" THEN "flag" ELSE "show")
    /\ UNCHANGED <<mainVars, stop, signalled, owner, clientVars, hfd, hreq, history>>

(* write fails: "Broken pipe" ends the request for a page. *)
BrokenPipe(t) ==
    /\ ThreadAt(t, "answer")
    /\ req[hreq[t]] # "stop"
    /\ ~Reaches(t)
    /\ ThreadGoto(t, "close")
    /\ UNCHANGED <<mainVars, stop, signalled, owner, clientVars, answers, hfd, hreq, history>>

(* The body is over, and with it the round and the probe that the page may  *)
(* have had to run.                                                         *)
Show(t) ==
    /\ ThreadAt(t, "show")
    /\ Cardinality(Probing) < 1 + Cardinality(Showing)
    /\ ThreadGoto(t, "close")
    /\ UNCHANGED <<mainVars, stop, signalled, owner, clientVars, answers, hfd, hreq, history>>

(* A slip: after the 400 the loop goes on reading, for the rest of the      *)
(* request.                                                                 *)
RefuseAndRead(t) ==
    /\ ThreadAt(t, "refuse")
    /\ Written(t)
    /\ hreq' = [hreq EXCEPT ![t] = NULL]
    /\ ThreadGoto(t, "read")
    /\ UNCHANGED <<mainVars, stop, signalled, owner, clientVars, hfd, history>>

(* 400: the page was not found, and the rest of the request is not read.    *)
Refuse(t) ==
    /\ ThreadAt(t, "refuse")
    /\ Written(t)
    /\ ThreadGoto(t, "close")
    /\ UNCHANGED <<mainVars, stop, signalled, owner, clientVars, hfd, hreq, history>>

SetFlag(t) == /\ ThreadAt(t, "flag")
              /\ stop' = 1
              /\ ThreadGoto(t, "close")
              /\ UNCHANGED <<mainVars, signalled, owner, clientVars, answers, hfd, hreq, history>>

(* A slip: main's variable is closed instead of the copy. *)
CloseShared(t) ==
    /\ ThreadAt(t, "close")
    /\ conn' = IF owner[sd] \in Clients THEN [conn EXCEPT ![owner[sd]] = "closed"] ELSE conn
    /\ owner' = [owner EXCEPT ![sd] = NULL]
    /\ hfd' = [hfd EXCEPT ![t] = NULL]
    /\ ThreadGoto(t, "done")
    /\ UNCHANGED <<mainVars, stop, signalled, backlog, req, answers, hreq, history>>

(* close(sd), whoever the descriptor belongs to, and the thread ends.       *)
Close(t) ==
    /\ ThreadAt(t, "close")
    /\ conn' = IF Reaches(t) THEN [conn EXCEPT ![Peer(t)] = "closed"] ELSE conn
    /\ owner' = [owner EXCEPT ![hfd[t]] = NULL]
    /\ hfd' = [hfd EXCEPT ![t] = NULL]
    /\ ThreadGoto(t, "done")
    /\ UNCHANGED <<mainVars, stop, signalled, backlog, req, answers, hreq, history>>

-----------------------------------------------------------------------------
(* What the rounds open.  w_smart_connect opens a socket; checkSSLAccess  *)
(* closes it at its end, but not when the name cannot be resolved or the    *)
(* connection or the handshake fails; checkConnection and sendmail lose     *)
(* theirs likewise, and http_dialog never closes f.txt.                     *)
ProbeOpens(fd) ==
    /\ Running
    /\ Cardinality(Probing) <= Cardinality(Showing)
    /\ IsLowest(fd)
    /\ owner' = [owner EXCEPT ![fd] = Probe]
    /\ UNCHANGED <<mainVars, stop, signalled, clientVars, answers, threadVars, history>>

ProbeEnds(fd) ==
    /\ Running
    /\ owner[fd] = Probe
    /\ \E o \in {NULL, Leak} : owner' = [owner EXCEPT ![fd] = o]
    /\ UNCHANGED <<mainVars, stop, signalled, clientVars, answers, threadVars, history>>

-----------------------------------------------------------------------------
(* A round ends the process: exit(1) when f.txt is not there, or a crash.   *)
RoundExits == Mishaps /\ Running /\ Exit /\ UNCHANGED signalled

-----------------------------------------------------------------------------
Main == \/ Check \/ NobodyWaits \/ (\E fd \in Fds : Accept(fd)) \/ AcceptFails \/ AcceptErrs
        \/ Create \/ Nap \/ ShutDown

Handle(t) == \/ TakeArgument(t) \/ ReadRequest(t) \/ ReadPart(t) \/ ReadEnds(t)
             \/ Refuse(t) \/ Answer(t) \/ BrokenPipe(t) \/ SetFlag(t) \/ Close(t)

Next == \/ Main \/ Interrupt \/ RoundExits
        \/ \E c \in Clients : Connect(c) \/ HangUp(c) \/ Handle(c) \/ Show(c)
        \/ \E fd \in Fds : ProbeOpens(fd) \/ ProbeEnds(fd)

(* Threads are scheduled fairly.  Nothing makes clients connect or hang up  *)
(* or the updater probe, and a page whose round hangs is never over.        *)
Fairness == WF_vars(Main) /\ \A t \in Clients : WF_vars(Handle(t))

Spec == Init /\ [][Next]_vars /\ Fairness

-----------------------------------------------------------------------------
Active(t) == hpc[t] \in {"read", "refuse", "answer", "show", "flag", "close"}

TypeOK ==
    /\ mpc \in {"check", "poll", "create", "nap", "down", "exited"}
    /\ stop \in 0..1 /\ signalled \in 0..1
    /\ sd \in Fds \cup {NULL}
    /\ owner \in [Fds -> Clients \cup {NULL, Probe, Leak}]
    /\ backlog \in Seq(Clients)
    /\ conn \in [Clients -> {"new", "queued", "open", "closed", "gone"}]
    /\ req \in [Clients -> Requests]
    /\ answers \in [Clients -> Nat]
    /\ hpc \in [Clients -> {"none", "start", "read", "refuse", "answer", "show", "flag", "close", "done"}]
    /\ hfd \in [Clients -> Fds \cup {NULL}]
    /\ hreq \in [Clients -> Clients \cup {NULL}]
    /\ late \in Nat
    /\ overtaken \in BOOLEAN

(* "Wait to avoid loosing parameters inside the thread": every connection   *)
(* that has been accepted is with the thread created for it, so none is     *)
(* lost, none has two threads, and no thread reads, answers or closes a     *)
(* descriptor of somebody else.  The nap does not see to it.                *)
ParametersKept ==
    /\ \A t \in Clients : Active(t) => Peer(t) = t
    /\ Running => \A fd \in Fds : owner[fd] \in Clients =>
          \/ mpc = "create" /\ sd = fd
          \/ hpc[owner[fd]] = "start" /\ sd = fd
          \/ Active(owner[fd]) /\ hfd[owner[fd]] = fd

(* The one way to lose parameters is the overtaking the nap is there to     *)
(* prevent: no reuse of a descriptor, by the next client or by a probe, and *)
(* no close does it.                                                        *)
KeptUnlessOvertaken == ~overtaken => ParametersKept

(* Unless a thread was overtaken, nobody gets two answers, and whoever      *)
(* asked something and is still there when the connection is closed has had *)
(* the answer.                                                              *)
ServedOnce ==
    ~overtaken => \A c \in Clients :
        /\ answers[c] <= 1
        /\ conn[c] = "closed" /\ req[c] # "silent" => answers[c] = 1

(* Whoever stops the server is told so before the server can act on it,     *)
(* unless a thread was overtaken or the client did not wait.                *)
StopIsAnswered ==
    ~overtaken /\ stop = 1 =>
        \E c \in Clients : req[c] = "stop" /\ (answers[c] > 0 \/ conn[c] = "gone")

(* After the flag of /stop is set main accepts at most the connection it    *)
(* was polling for.                                                         *)
OneLateAccept == late <= 1

(* The usage text: "Shutdown the daemon using SIGINT to the parent process  *)
(* or http://hostname:[port]/stop", and nothing else shuts it down.         *)
ExitOnlyWhenAsked == ~Running => stop = 1 \/ signalled = 1

(* The flag of /stop does stop the server, whatever the clients do.         *)
StopStops == stop = 1 ~> ~Running

(* A client that sends a request and waits is answered unless the server    *)
(* ends or a thread was overtaken, even with silent clients and rounds that *)
(* hang holding their threads.                                              *)
EveryRequestAnswered ==
    \A c \in Clients : conn[c] = "queued" /\ req[c] # "silent"
                        ~> answers[c] > 0 \/ conn[c] = "gone" \/ ~Running \/ overtaken
=============================================================================
