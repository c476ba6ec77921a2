------------------------------- MODULE Monitor -------------------------------
(***************************************************************************)
(* The monitoring rounds of eclss (src/handler.cpp): update_thread runs    *)
(* updateStatus on the document in memory, sleeps and runs it again.  A    *)
(* round walks the nodes of eclss.xml in document order, probes every URL  *)
(* of an application whose interval is over, judges the application, and   *)
(* decides whether the failure deserves a mail.                            *)
(*                                                                         *)
(* The document is the state.  Its attributes that the code reads back are *)
(* variables, NULL standing for an absent attribute; latency, httpretcode  *)
(* and urlstatus are only shown and are left out.  A probe is its verdict; *)
(* Probe.tla is about how it is reached.  notify sends one GET whose       *)
(* answer nobody looks at and changes no state here.                       *)
(*                                                                         *)
(* One round runs at a time and a reload comes between rounds; what two    *)
(* threads do to the document when it does not, or when one of them is     *)
(* stuck in a round, is the subject of DocStore.                           *)
(***************************************************************************)
EXTENDS Integers

CONSTANTS
    N,          \* children of the root element, numbered in document order
    M,          \* most children of one application
    Apps,       \* the nodes that are "application" elements
    Conns,      \* the nodes that are "connection" elements
    Urls,       \* <<node, child>> for the children with a "url" attribute
    Interval,   \* "interval" attribute of each of them, or NULL
    Files,      \* what eclss.xml may say: a value of alerthits, or BadFile
    BadFile,    \* eclss.xml is missing or is not well-formed
    WaitPeriod, \* the seconds pthread_wait sleeps, in ticks of the clock
    MaxTime,    \* bound: the last instant of the clock
    NULL        \* absent attribute

Verdicts == {"Online", "Error", "Ok"}

ASSUME SizeAssumption == N \in Nat /\ M \in Nat
ASSUME NodeAssumption ==
    /\ Apps \subseteq 1..N
    /\ Conns \subseteq 1..N
    /\ Apps \cap Conns = {}
    /\ Urls \subseteq Apps \X (1..M)
ASSUME IntervalAssumption == Interval \in [Urls -> Nat \cup {NULL}]
ASSUME FileAssumption == Files # {} /\ Files \subseteq Nat \cup {BadFile} /\ BadFile \notin Nat
ASSUME TimeAssumption == WaitPeriod \in Nat \ {0} /\ MaxTime \in Nat
ASSUME NullAssumption == NULL \notin Int \cup Verdicts \cup {"tree"}

VARIABLES
    now,         \* currentTimeMillis()
    wakeAt,      \* when pthread_wait lets update_thread go on
    file,        \* eclss.xml on disk
    doc,         \* the document in memory: NULL or "tree"
    hits,        \* alerthits in the document
    uptime,      \* content of display/uptime: when the last round began
    urlStatus,   \* "status" attribute of each URL
    lastcheck,   \* "lastcheck" attribute of each URL
    status,      \* "status" attribute of each application and connection
    timestamp,   \* "timestamp" attribute: since when the verdict stands
    timelife,    \* "timelife" attribute: for how long it had stood when judged
    ocurrencies, \* "ocurrencies" attribute: the counter behind the mails
    pc,          \* where updateStatus is; "wait" when nobody runs it, "hung"
                 \* when it never returns, "crashed" when the process ended
    caller,      \* who runs it: "updater" or "request"
    cur, inner,  \* the node and the child being visited
    error,       \* the local error flag of the node
    mails        \* calls of sendmail for each application

clock == <<now, wakeAt>>
urlAttrs == <<urlStatus, lastcheck>>
appAttrs == <<status, timestamp, timelife, ocurrencies>>
round == <<pc, caller, cur, inner, error>>
vars == <<clock, file, doc, hits, uptime, urlAttrs, appAttrs, round, mails>>

Time == 0..MaxTime

-----------------------------------------------------------------------------
(* A document just parsed carries no result of any check. *)
Unchecked == [u \in Urls |-> NULL]
Unjudged == [a \in Apps |-> NULL]
NoStatus == [n \in Apps \cup Conns |-> NULL]

Init == /\ now = 0 /\ wakeAt = 0
        /\ file \in Files
        /\ doc = NULL
        /\ hits = 0
        /\ uptime = 0
        /\ urlStatus = Unchecked /\ lastcheck = Unchecked
        /\ status = NoStatus
        /\ timestamp = Unjudged /\ timelife = Unjudged /\ ocurrencies = Unjudged
        /\ pc = "wait" /\ caller = "updater"
        /\ cur = 1 /\ inner = 1
        /\ error = 0
        /\ mails = [a \in Apps |-> 0]

-----------------------------------------------------------------------------
(* The world: time passes at any point of a round, and the administrator   *)
(* edits eclss.xml whenever he likes.  Once the round has stopped for good *)
(* there is nobody left here to notice.                                    *)
Tick == /\ pc \notin {"hung", "crashed"}
        /\ now < MaxTime
        /\ now' = now + 1
        /\ UNCHANGED <<wakeAt, file, doc, hits, uptime, urlAttrs, appAttrs, round, mails>>

EditFile == /\ pc \notin {"hung", "crashed"}
            /\ file' \in Files \ {file}
            /\ UNCHANGED <<clock, doc, hits, uptime, urlAttrs, appAttrs, round, mails>>

-----------------------------------------------------------------------------
(* The request handler for /reload: the document is released. *)
Reload == /\ pc = "wait"
          /\ doc # NULL
          /\ doc' = NULL
          /\ urlStatus' = Unchecked /\ lastcheck' = Unchecked
          /\ status' = NoStatus
          /\ timestamp' = Unjudged /\ timelife' = Unjudged /\ ocurrencies' = Unjudged
          /\ UNCHANGED <<clock, file, hits, uptime, round, mails>>

(* A slip: the flag of one application is left for the next. *)
GoToKeepingError(n) == cur' = n /\ inner' = 1 /\ UNCHANGED error

(* Node n is visited next, with its error flag clear.        *)
GoTo(n) == cur' = n /\ inner' = 1 /\ error' = 0

(* The round stops where it is, and does not go on. *)
Halt(l) == /\ pc' = l
           /\ UNCHANGED <<clock, file, doc, hits, uptime, urlAttrs, appAttrs,
                          caller, cur, inner, error, mails>>

(* updateConfig takes alerthits from the document and writes the uptime     *)
(* into it.  The other settings do not change what a round decides.         *)
UpdateConfig == /\ hits' = IF doc = NULL THEN file ELSE hits
                /\ uptime' = now

(* updateStatus up to its loop: the file is read when there is no document. *)
Begin(who) == /\ pc = "wait"
              /\ doc = NULL => file # BadFile
              /\ doc' = "tree"
              /\ UpdateConfig
              /\ pc' = "scan" /\ caller' = who
              /\ GoTo(1)
              /\ UNCHANGED <<clock, file, urlAttrs, appAttrs, mails>>

(* xmlParseFile returns NULL and the first use of the root is a null       *)
(* dereference.                                                            *)
Unparsed == pc = "wait" /\ doc = NULL /\ file = BadFile /\ Halt("crashed")

(* update_thread's wait is over. *)
Woken == now >= wakeAt

(* A request for the page finds no document. *)
OnDemand == doc = NULL /\ Begin("request")

-----------------------------------------------------------------------------
Visiting == <<cur, inner>>
InChildren == pc = "scan" /\ cur \in Apps /\ inner <= M

(* A slip: due one unit late. *)
DueLate(u) == Interval[u] # NULL /\ lastcheck[u] # NULL => lastcheck[u] + Interval[u] < now - 1

(* checkInterval: the URL is due unless its interval, counted from its last *)
(* check, has not been exceeded yet.                                        *)
Due(u) == Interval[u] # NULL /\ lastcheck[u] # NULL => lastcheck[u] + Interval[u] < now

(* The child has no url, or is not due: the node's error flag stays as it is. *)
SkipChild == /\ InChildren
             /\ Visiting \in Urls => ~Due(Visiting)
             /\ inner' = inner + 1
             /\ UNCHANGED <<clock, file, doc, hits, uptime, urlAttrs, appAttrs,
                            pc, caller, cur, error, mails>>

(* The URL is due: checkInterval records when, if it has an interval, and   *)
(* checkSSLAccess is called.                                                *)
StartProbe ==
    /\ InChildren
    /\ Visiting \in Urls
    /\ Due(Visiting)
    /\ pc' = "probe"
    /\ lastcheck' = [lastcheck EXCEPT ![Visiting] = IF Interval[Visiting] = NULL THEN @ ELSE now]
    /\ UNCHANGED <<clock, file, doc, hits, uptime, urlStatus, appAttrs,
                   caller, cur, inner, error, mails>>

(* A slip: the last URL decides for the application. *)
EndProbeLastWins(ret) ==
    /\ pc = "probe"
    /\ pc' = "scan"
    /\ inner' = inner + 1
    /\ urlStatus' = [urlStatus EXCEPT ![Visiting] = IF ret = 0 THEN "Online" ELSE "Error"]
    /\ error' = ret
    /\ UNCHANGED <<clock, file, doc, hits, uptime, lastcheck, appAttrs,
                   caller, cur, mails>>

(* checkSSLAccess returned: 0 when the URL is fine. *)
EndProbe(ret) ==
    /\ pc = "probe"
    /\ pc' = "scan"
    /\ inner' = inner + 1
    /\ urlStatus' = [urlStatus EXCEPT ![Visiting] = IF ret = 0 THEN "Online" ELSE "Error"]
    /\ error' = IF ret = 0 THEN error ELSE -1
    /\ UNCHANGED <<clock, file, doc, hits, uptime, lastcheck, appAttrs,
                   caller, cur, mails>>

(* The page checked for its marks is compressed and cannot be unpacked:     *)
(* exit(1).                                                                 *)
ProbeExits == pc = "probe" /\ Halt("crashed")

(* The proxy is silent: checkSSLAccess never returns. *)
ProbeHangs == pc = "probe" /\ Halt("hung")

-----------------------------------------------------------------------------
(* The children of an application have been visited and it is judged. *)
Judging == pc = "scan" /\ cur \in Apps /\ inner = M + 1

(* A slip: the operands of the subtraction swapped. *)
JudgedBackwards(verdict, since) ==
    /\ status' = [status EXCEPT ![cur] = verdict]
    /\ timestamp' = [timestamp EXCEPT ![cur] = since]
    /\ timelife' = [timelife EXCEPT ![cur] = since - now]
    /\ GoTo(cur + 1)
    /\ UNCHANGED <<clock, file, doc, hits, uptime, urlAttrs, pc, caller>>

(* The tail of the judgement: timelife is reckoned from the timestamp just *)
(* written or kept, and the next node follows.                             *)
Judged(verdict, since) ==
    /\ status' = [status EXCEPT ![cur] = verdict]
    /\ timestamp' = [timestamp EXCEPT ![cur] = since]
    /\ timelife' = [timelife EXCEPT ![cur] = now - since]
    /\ GoTo(cur + 1)
    /\ UNCHANGED <<clock, file, doc, hits, uptime, urlAttrs, pc, caller>>

(* A slip: a recovery does not restart the timestamp. *)
JudgeOnlineKeepingTime ==
    /\ Judging
    /\ error = 0
    /\ Judged("Online", IF status[cur] = NULL THEN now ELSE timestamp[cur])
    /\ UNCHANGED <<ocurrencies, mails>>

(* No probe of this round failed. *)
JudgeOnline ==
    /\ Judging
    /\ error = 0
    /\ Judged("Online", IF status[cur] \in {NULL, "Error"} THEN now ELSE timestamp[cur])
    /\ UNCHANGED <<ocurrencies, mails>>

(* A probe failed and the application was not known to be down. *)
FirstError ==
    /\ Judging
    /\ error # 0
    /\ status[cur] \in {NULL, "Online"}
    /\ Judged("Error", now)
    /\ UNCHANGED <<ocurrencies, mails>>

(* A slip: the head start of four is forgotten. *)
NextOcurrenciesFromZero(h, occ) == (IF occ = NULL THEN 0 ELSE occ) + 1

(* The counter after one more repeated error; it starts so that the fourth *)
(* repetition makes it a multiple of alerthits.                            *)
NextOcurrencies(h, occ) == (IF occ = NULL THEN h - 4 ELSE occ) + 1

(* A probe failed and the application was down already. *)
RepeatError ==
    /\ Judging
    /\ error # 0
    /\ status[cur] = "Error"
    /\ hits # 0
    /\ LET occ == NextOcurrencies(hits, ocurrencies[cur]) IN
         /\ ocurrencies' = [ocurrencies EXCEPT ![cur] = occ]
         /\ mails' = IF occ % hits = 0 THEN [mails EXCEPT ![cur] = @ + 1] ELSE mails
    /\ Judged("Error", timestamp[cur])

(* alerthits is 0: the remainder is a division by zero. *)
DivideByZero ==
    /\ Judging
    /\ error # 0
    /\ status[cur] = "Error"
    /\ hits = 0
    /\ Halt("crashed")

-----------------------------------------------------------------------------
(* handlerConnectionVerifier. *)
CheckConnection(ret) ==
    /\ pc = "scan" /\ cur \in Conns
    /\ status' = [status EXCEPT ![cur] = IF ret = 0 THEN "Ok" ELSE "Error"]
    /\ GoTo(cur + 1)
    /\ UNCHANGED <<clock, file, doc, hits, uptime, urlAttrs, timestamp, timelife,
                   ocurrencies, pc, caller, mails>>

(* Any other element: nothing to do. *)
OtherNode == /\ pc = "scan" /\ cur \in (1..N) \ (Apps \cup Conns)
             /\ GoTo(cur + 1)
             /\ UNCHANGED <<clock, file, doc, hits, uptime, urlAttrs, appAttrs,
                            pc, caller, mails>>

(* updateStatus returns; update_thread goes to sleep, a request does not. *)
EndRound == /\ pc = "scan" /\ cur = N + 1
            /\ pc' = "wait"
            /\ wakeAt' = IF caller = "updater" THEN now + WaitPeriod ELSE wakeAt
            /\ UNCHANGED <<now, file, doc, hits, uptime, urlAttrs, appAttrs,
                           caller, cur, inner, error, mails>>

-----------------------------------------------------------------------------
(* The steps of a round under way. *)
InRound == \/ SkipChild \/ StartProbe \/ (\E ret \in {0, -1} : EndProbe(ret))
           \/ JudgeOnline \/ FirstError \/ RepeatError \/ DivideByZero
           \/ (\E ret \in {0, 1} : CheckConnection(ret))
           \/ OtherNode
           \/ EndRound

Next == \/ Tick \/ EditFile \/ Reload
        \/ Woken /\ Begin("updater")
        \/ OnDemand
        \/ Unparsed
        \/ InRound
        \/ ProbeExits \/ ProbeHangs

(* A round under way goes on: its thread runs, its dialogues end (Dialogue), *)
(* and a probe ends too, or ends the process, or hangs (Probe says when).    *)
Fairness == WF_vars(InRound)

Spec == Init /\ [][Next]_vars /\ Fairness

-----------------------------------------------------------------------------
(* Types.  A duration is never negative, and whatever has a verdict has the *)
(* timestamp that the tail of the judgement hands to atol.                  *)
TypeOK ==
    /\ now \in Time /\ wakeAt \in Nat
    /\ file \in Files
    /\ doc \in {NULL, "tree"}
    /\ hits \in Nat
    /\ uptime \in Time
    /\ urlStatus \in [Urls -> {"Online", "Error", NULL}]
    /\ lastcheck \in [Urls -> Time \cup {NULL}]
    /\ status \in [Apps \cup Conns -> Verdicts \cup {NULL}]
    /\ timestamp \in [Apps -> Time \cup {NULL}]
    /\ timelife \in [Apps -> Time \cup {NULL}]
    /\ ocurrencies \in [Apps -> Int \cup {NULL}]
    /\ pc \in {"wait", "scan", "probe", "hung", "crashed"}
    /\ caller \in {"updater", "request"}
    /\ cur \in 1..(N + 1) /\ inner \in 1..(M + 1)
    /\ error \in {0, -1}
    /\ mails \in [Apps -> Nat]

(* The round in progress is between the first child of a and its judgement, *)
(* or has stopped there for good.                                           *)
Examining(a) == pc # "wait" /\ cur = a

UrlsOf(a) == {u \in Urls : u[1] = a}

(* No false alarm: an application shown in Error has a URL whose last probe *)
(* failed, whatever the intervals skip, however long ago it was judged and  *)
(* however often the configuration was reloaded meanwhile.                  *)
ErrorMeansUrlDown ==
    \A a \in Apps : status[a] = "Error" /\ ~Examining(a)
                        => \E u \in UrlsOf(a) : urlStatus[u] = "Error"

(* No missed outage, as far as the code goes: an application shown Online   *)
(* has no failing URL among those that are probed in every round.           *)
OnlineMeansNoUrlDown ==
    \A a \in Apps : status[a] = "Online" /\ ~Examining(a)
                        => \A u \in UrlsOf(a) : Interval[u] = NULL => urlStatus[u] # "Error"

(* A probe that fails is never lost: whatever the other URLs of the         *)
(* application answer in the same round, it ends up shown in Error, unless  *)
(* one of them hangs the round or ends the process.                         *)
FailureShown ==
    \A a \in Apps : cur = a /\ error = -1 ~> status[a] = "Error" \/ pc \in {"hung", "crashed"}

(* Until then it is not forgotten: the flag of updateStatus stays with the  *)
(* application, through its other URLs and whatever happens meanwhile, and  *)
(* only the verdict takes it away.                                          *)
FailureKept ==
    [][\A a \in Apps : cur = a /\ error = -1
                          => (cur' = a /\ error' = -1) \/ status'[a] = "Error"]_vars

(* What the help page says of the application status and its counter: any   *)
(* URL of an application in error makes the application one in error.  The  *)
(* code forgets a failure at the next round that skips the URL.             *)
AnyUrlDownMeansError ==
    \A a \in Apps : status[a] # NULL /\ ~Examining(a)
                        /\ (\E u \in UrlsOf(a) : urlStatus[u] = "Error")
                    => status[a] = "Error"

(* No check is overdue: between rounds, no URL was last checked more than   *)
(* its interval before the latest round began, and none of them was never   *)
(* checked.                                                                 *)
NothingOverdue ==
    pc = "wait" /\ doc # NULL =>
        \A u \in Urls : /\ urlStatus[u] # NULL
                        /\ Interval[u] # NULL => lastcheck[u] + Interval[u] >= uptime

(* The time shown for an application is that of its unbroken verdict: the   *)
(* timestamp moves, to the current time, exactly when the verdict changes,  *)
(* and is forgotten only with the verdict.                                  *)
TimestampFollowsVerdict ==
    [][\A a \in Apps :
         IF status'[a] = status[a] THEN timestamp'[a] = timestamp[a]
         ELSE timestamp'[a] = IF status'[a] = NULL THEN NULL ELSE now]_vars

(* The repeated errors left until the next mail, read off the counter.      *)
Countdown(h, occ) == IF h = 0 THEN 0
                     ELSE h - ((IF occ = NULL THEN h - 4 ELSE occ) % h)

(* The counter in the document implements a countdown that knows no         *)
(* remainders and no negative numbers: whatever alerthits is, the first     *)
(* mail of a configuration comes by the fourth repetition, the others every *)
(* alerthits repetitions after it, no recovery loses or adds one, and only  *)
(* reading the file starts anew.                                            *)
Alerts == INSTANCE OutageAlerts
            WITH NoVerdict <- NULL,
                 verdict <- [a \in Apps |-> status[a]],
                 period <- hits,
                 left <- [a \in Apps |-> Countdown(hits, ocurrencies[a])]
AlertsAsPromised == Alerts!Spec
=============================================================================
