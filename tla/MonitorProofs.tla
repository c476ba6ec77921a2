---------------------------- MODULE MonitorProofs ----------------------------
(***************************************************************************)
(* Monitor for every document, every interval and every sequence of probe  *)
(* results, edits and reloads.  Inv is the inductive core (types, and what *)
(* the attributes of an application imply about each other); the verdict   *)
(* and interval theorems add what a half-finished round has established    *)
(* about the children before the one it is at.                             *)
(***************************************************************************)
EXTENDS Monitor, TLAPS

(* An application has a timestamp exactly when it has a verdict, it is not  *)
(* in the future, and only a connection is ever "Ok".                       *)
Known == \A a \in Apps : /\ status[a] \in {"Online", "Error", NULL}
                         /\ (status[a] = NULL) <=> (timestamp[a] = NULL)
                         /\ timestamp[a] # NULL => timestamp[a] <= now

(* A probe is under way only for a child with a url. *)
Probing == /\ pc = "probe" => Visiting \in Urls
           /\ uptime <= now

Inv == TypeOK /\ Known /\ Probing

(* The steps that stop a round, or keep one from beginning, for good.       *)
Halting == Halt("crashed") \/ Halt("hung")

LEMMA Halts == Unparsed \/ DivideByZero \/ ProbeExits \/ ProbeHangs => Halting
  BY DEF Unparsed, DivideByZero, ProbeExits, ProbeHangs, Halting

LEMMA InitInv == Init => Inv
<1> SUFFICES ASSUME Init PROVE Inv
  OBVIOUS
<1>1. TypeOK
  BY SizeAssumption, TimeAssumption DEF Init, TypeOK, Time, Verdicts, Unchecked, Unjudged, NoStatus
<1>2. Known
  BY NodeAssumption DEF Init, Known, Unjudged, NoStatus
<1>3. Probing
  BY DEF Init, Probing
<1> QED
  BY <1>1, <1>2, <1>3 DEF Inv

(* What leaving a node for the next one needs of it. *)
LEMMA NextNode == ASSUME TypeOK, NEW n \in 1..N, GoTo(n + 1)
                  PROVE  cur' \in 1..(N + 1) /\ inner' \in 1..(M + 1) /\ error' \in {0, -1}
  BY SizeAssumption DEF GoTo

(* A judgement that keeps or renews a timestamp of the past keeps Inv. *)
LEMMA JudgedInv ==
    ASSUME Inv, Judging, NEW v \in {"Online", "Error"}, NEW since \in Time, since <= now,
           Judged(v, since),
           ocurrencies' \in [Apps -> Int \cup {NULL}],
           mails' \in [Apps -> Nat]
    PROVE  Inv'
<1>1. cur \in Apps /\ cur \in 1..N
  BY NodeAssumption DEF Judging
<1>2. now - since \in Time
  BY TimeAssumption DEF Inv, TypeOK, Time
<1>3. cur' \in 1..(N + 1) /\ inner' \in 1..(M + 1) /\ error' \in {0, -1}
  BY <1>1, NextNode DEF Judged, Inv
<1>4. TypeOK'
  BY <1>1, <1>2, <1>3 DEF Inv, TypeOK, Judged, Time, Verdicts, clock, urlAttrs
<1>5. Known'
  BY <1>1, NullAssumption, TimeAssumption DEF Inv, TypeOK, Known, Judged, Time, Verdicts, clock
<1>6. Probing'
  BY DEF Inv, Probing, Judging, Judged, clock
<1> QED
  BY <1>4, <1>5, <1>6 DEF Inv

LEMMA NextInv == Inv /\ [Next]_vars => Inv'
<1> SUFFICES ASSUME Inv, [Next]_vars PROVE Inv'
  OBVIOUS
<1> USE SizeAssumption, NodeAssumption, IntervalAssumption, FileAssumption, TimeAssumption, NullAssumption
<1> USE DEF Inv, TypeOK, Known, Probing, Time, Verdicts, clock, urlAttrs, appAttrs, round, Visiting
<1>1. CASE UNCHANGED vars
  BY <1>1 DEF vars
<1>2. CASE Tick
  BY <1>2 DEF Tick
<1>3. CASE EditFile
  BY <1>3 DEF EditFile
<1>4. CASE Reload
  BY <1>4 DEF Reload, Unchecked, Unjudged, NoStatus
<1>5. ASSUME NEW who \in {"updater", "request"}, Begin(who) PROVE Inv'
  BY <1>5 DEF Begin, UpdateConfig, GoTo
<1>6. CASE Halting
  BY <1>6 DEF Halting, Halt
<1>7. CASE SkipChild
  BY <1>7 DEF SkipChild, InChildren
<1>8. CASE StartProbe
  BY <1>8 DEF StartProbe, InChildren
<1>9. ASSUME NEW ret \in {0, -1}, EndProbe(ret) PROVE Inv'
  BY <1>9 DEF EndProbe
<1>10. CASE JudgeOnline
  <2> DEFINE since == IF status[cur] \in {NULL, "Error"} THEN now ELSE timestamp[cur]
  <2>1. since \in Time /\ since <= now
    BY <1>10 DEF JudgeOnline, Judging
  <2> HIDE DEF since
  <2> QED
    BY <1>10, <2>1, JudgedInv DEF JudgeOnline, since
<1>11. CASE FirstError
  BY <1>11, JudgedInv DEF FirstError
<1>12. CASE RepeatError
  <2>1. timestamp[cur] \in Time /\ timestamp[cur] <= now
    BY <1>12 DEF RepeatError, Judging
  <2>2. NextOcurrencies(hits, ocurrencies[cur]) \in Int
    BY <1>12 DEF RepeatError, Judging, NextOcurrencies
  <2>3. ocurrencies' \in [Apps -> Int \cup {NULL}]
    BY <1>12, <2>2 DEF RepeatError
  <2>4. mails' \in [Apps -> Nat]
    BY <1>12 DEF RepeatError, Judging
  <2> QED
    BY <1>12, <2>1, <2>3, <2>4, JudgedInv DEF RepeatError
<1>14. ASSUME NEW ret \in {0, 1}, CheckConnection(ret) PROVE Inv'
  <2>1. cur' \in 1..(N + 1) /\ inner' \in 1..(M + 1) /\ error' \in {0, -1}
    BY <1>14, NextNode DEF CheckConnection
  <2> QED
    BY <1>14, <2>1 DEF CheckConnection
<1>15. CASE OtherNode
  <2>1. cur' \in 1..(N + 1) /\ inner' \in 1..(M + 1) /\ error' \in {0, -1}
    BY <1>15, NextNode DEF OtherNode
  <2> QED
    BY <1>15, <2>1 DEF OtherNode
<1>16. CASE EndRound
  BY <1>16 DEF EndRound
<1> QED
  BY <1>1, <1>2, <1>3, <1>4, <1>5, <1>6, <1>7, <1>8, <1>9, <1>10, <1>11, <1>12,
     <1>14, <1>15, <1>16, Halts DEF Next, InRound, OnDemand

(* The attributes keep their types whatever the probes answer and whenever  *)
(* the file is edited or reloaded: no duration is negative, and atol is     *)
(* never handed an absent timestamp.                                        *)
THEOREM TypeCorrect == Spec => [](TypeOK /\ Known)
<1>1. Init => Inv
  BY InitInv
<1>2. Inv /\ [Next]_vars => Inv'
  BY NextInv
<1>3. Inv => TypeOK /\ Known
  BY DEF Inv
<1> QED
  BY <1>1, <1>2, <1>3, PTL DEF Spec

LEMMA SpecInv == Spec => []Inv
  BY InitInv, NextInv, PTL DEF Spec

-----------------------------------------------------------------------------
(* One step moves the timestamp as the verdict moves. *)
StampStep == \A a \in Apps :
                IF status'[a] = status[a] THEN timestamp'[a] = timestamp[a]
                ELSE timestamp'[a] = IF status'[a] = NULL THEN NULL ELSE now

LEMMA StampLemma == Inv /\ [Next]_vars => StampStep
<1> SUFFICES ASSUME Inv, [Next]_vars PROVE StampStep
  OBVIOUS
<1> USE NodeAssumption, NullAssumption DEF Inv, TypeOK, Known, Verdicts, StampStep, appAttrs
<1>1. CASE UNCHANGED <<status, timestamp>>
  BY <1>1
<1>2. CASE Reload
  BY <1>2 DEF Reload, Unjudged, NoStatus
<1>3. CASE JudgeOnline
  BY <1>3 DEF JudgeOnline, Judging, Judged
<1>4. CASE FirstError
  BY <1>4 DEF FirstError, Judging, Judged
<1>5. CASE RepeatError
  BY <1>5 DEF RepeatError, Judging, Judged
<1>6. ASSUME NEW ret \in {0, 1}, CheckConnection(ret) PROVE StampStep
  BY <1>6 DEF CheckConnection
<1>7. Tick \/ EditFile \/ Halting \/ SkipChild \/ StartProbe \/ OtherNode
        \/ EndRound \/ UNCHANGED vars => UNCHANGED <<status, timestamp>>
  BY DEF Tick, EditFile, Halting, Halt, SkipChild, StartProbe, OtherNode, EndRound, vars
<1>8. \A who \in {"updater", "request"} : Begin(who) => UNCHANGED <<status, timestamp>>
  BY DEF Begin, UpdateConfig
<1>9. \A ret \in {0, -1} : EndProbe(ret) => UNCHANGED <<status, timestamp>>
  BY DEF EndProbe
<1> QED
  BY <1>1, <1>2, <1>3, <1>4, <1>5, <1>6, <1>7, <1>8, <1>9, Halts DEF Next, InRound, OnDemand

(* The time shown for an application is that of its unbroken verdict, for   *)
(* any document and any outcome of the probes: updateStatus stamps at every *)
(* change of verdict and at nothing else.                                   *)
THEOREM TimestampCorrect == Spec => TimestampFollowsVerdict
<1>1. Inv /\ [Next]_vars => [StampStep]_vars
  BY StampLemma
<1> QED
  BY <1>1, SpecInv, PTL DEF Spec, TimestampFollowsVerdict, StampStep

-----------------------------------------------------------------------------
(* The children of the application under examination that this round has   *)
(* passed, and what its error flag says of them.                            *)
Passed(u) == u[1] = cur /\ u[2] < inner

FlagBacked ==
    pc \in {"scan", "probe"} =>
        /\ error # 0 => \E u \in Urls : Passed(u) /\ urlStatus[u] = "Error"
        /\ error = 0 => \A u \in Urls : Passed(u) /\ Interval[u] = NULL => urlStatus[u] # "Error"

VerdictInv == FlagBacked /\ ErrorMeansUrlDown /\ OnlineMeansNoUrlDown

(* A URL is a pair of a node and a child. *)
LEMMA UrlPair == ASSUME NEW u \in Urls
                 PROVE  /\ u[1] \in Apps /\ u[1] \in 1..N
                        /\ u[2] \in 1..M
                        /\ u = <<u[1], u[2]>>
<1>1. u[1] \in Apps /\ u[2] \in 1..M /\ u = <<u[1], u[2]>>
  BY NodeAssumption
<1> QED
  BY <1>1, NodeAssumption

(* Moving on by one child passes the child visited and no other. *)
LEMMA PassedNext == ASSUME inner \in Nat, cur' = cur, inner' = inner + 1, NEW u \in Urls
                    PROVE  Passed(u)' <=> Passed(u) \/ u = Visiting
  BY UrlPair DEF Passed, Visiting

LEMMA VerdictInit == Init => VerdictInv
  BY NodeAssumption, NullAssumption
  DEF Init, Verdicts, VerdictInv, FlagBacked, ErrorMeansUrlDown, OnlineMeansNoUrlDown, Unchecked, NoStatus

(* A step that ends in none of the applications being judged anew keeps     *)
(* VerdictInv if it keeps the results and the place in the round.           *)
LEMMA VerdictStep == Inv /\ Inv' /\ VerdictInv /\ [Next]_vars => VerdictInv'
<1> SUFFICES ASSUME Inv, Inv', VerdictInv, [Next]_vars PROVE VerdictInv'
  OBVIOUS
<1> USE SizeAssumption, NodeAssumption, IntervalAssumption, NullAssumption
<1> USE DEF Inv, TypeOK, Verdicts, VerdictInv, FlagBacked, ErrorMeansUrlDown, OnlineMeansNoUrlDown, Passed,
            Examining, UrlsOf, Visiting, clock, urlAttrs, appAttrs, round
<1>1. CASE UNCHANGED <<urlStatus, status, pc, cur, inner, error>>
  BY <1>1
<1>2. CASE Reload
  BY <1>2 DEF Reload, NoStatus
<1>3. ASSUME NEW who \in {"updater", "request"}, Begin(who) PROVE VerdictInv'
  BY <1>3 DEF Begin, UpdateConfig, GoTo
<1>4. CASE Halting
  BY <1>4 DEF Halting, Halt
<1>5. CASE SkipChild
  <2>1. /\ cur' = cur /\ inner' = inner + 1
        /\ pc = "scan" /\ UNCHANGED <<pc, error, urlStatus>>
    BY <1>5 DEF SkipChild, InChildren
  <2>2. \A u \in Urls : Passed(u)' <=> Passed(u) \/ u = Visiting
    BY <2>1, PassedNext
  <2>3. Visiting \in Urls => Interval[Visiting] # NULL
    BY <1>5 DEF SkipChild, Due
  <2>4. FlagBacked'
    BY <2>1, <2>2, <2>3
  <2>5. (ErrorMeansUrlDown /\ OnlineMeansNoUrlDown)'
    BY <1>5 DEF SkipChild, InChildren
  <2> QED
    BY <2>4, <2>5
<1>6. CASE StartProbe
  BY <1>6 DEF StartProbe, InChildren
<1>7. ASSUME NEW ret \in {0, -1}, EndProbe(ret) PROVE VerdictInv'
  <2>1. \A u \in Urls : Passed(u)' <=> Passed(u) \/ u = Visiting
    BY <1>7, PassedNext DEF EndProbe
  <2>2. Visiting \in Urls
    BY <1>7 DEF EndProbe, Probing
  <2>3. \A u \in Urls : u # Visiting => urlStatus'[u] = urlStatus[u]
    BY <1>7 DEF EndProbe
  <2>4. urlStatus'[Visiting] = IF ret = 0 THEN "Online" ELSE "Error"
    BY <1>7, <2>2 DEF EndProbe
  <2>5. FlagBacked'
    BY <1>7, <2>1, <2>2, <2>3, <2>4 DEF EndProbe
  <2>6. (ErrorMeansUrlDown /\ OnlineMeansNoUrlDown)'
    <3>1. \A a \in Apps : Examining(a)' <=> Examining(a)
      BY <1>7 DEF EndProbe
    <3>2. \A a \in Apps : ~Examining(a) => \A u \in UrlsOf(a) : urlStatus'[u] = urlStatus[u]
      BY <1>7, <2>3 DEF EndProbe
    <3> QED
      BY <1>7, <3>1, <3>2 DEF EndProbe
  <2> QED
    BY <2>5, <2>6
<1>8. CASE JudgeOnline
  BY <1>8 DEF JudgeOnline, Judging, Judged, GoTo
<1>9. CASE FirstError
  BY <1>9 DEF FirstError, Judging, Judged, GoTo
<1>10. CASE RepeatError
  BY <1>10 DEF RepeatError, Judging, Judged, GoTo
<1>12. ASSUME NEW ret \in {0, 1}, CheckConnection(ret) PROVE VerdictInv'
  BY <1>12 DEF CheckConnection, GoTo
<1>13. CASE OtherNode
  BY <1>13 DEF OtherNode, GoTo
<1>14. CASE EndRound
  BY <1>14 DEF EndRound
<1>15. Tick \/ EditFile \/ UNCHANGED vars => UNCHANGED <<urlStatus, status, pc, cur, inner, error>>
  BY DEF Tick, EditFile, vars
<1> QED
  BY <1>1, <1>2, <1>3, <1>4, <1>5, <1>6, <1>7, <1>8, <1>9, <1>10, <1>12, <1>13, <1>14, <1>15, Halts
  DEF Next, InRound, OnDemand

(* No false alarm: the error flag of updateStatus is carried from the       *)
(* probes to the verdict and from nowhere else.                             *)
THEOREM NoFalseAlarm == Spec => []ErrorMeansUrlDown
<1>1. Inv /\ [Next]_vars => Inv'
  BY NextInv
<1>2. VerdictInv => ErrorMeansUrlDown
  BY DEF VerdictInv
<1> QED
  BY <1>1, <1>2, SpecInv, VerdictInit, VerdictStep, PTL DEF Spec

(* Nor, among the URLs probed in every round, a missed failure.             *)
THEOREM NoMissedFailure == Spec => []OnlineMeansNoUrlDown
<1>1. Inv /\ [Next]_vars => Inv'
  BY NextInv
<1>2. VerdictInv => OnlineMeansNoUrlDown
  BY DEF VerdictInv
<1> QED
  BY <1>1, <1>2, SpecInv, VerdictInit, VerdictStep, PTL DEF Spec

(* The interval is the only thing that makes the help page wrong: with none *)
(* in the file, any URL in error makes its application one in error.  The   *)
(* run monitor_interval shows what a single interval does to that.          *)
THEOREM RightWithoutIntervals ==
    ASSUME \A u \in Urls : Interval[u] = NULL
    PROVE  Spec => []AnyUrlDownMeansError
<1>1. Inv /\ [Next]_vars => Inv'
  BY NextInv
<1>2. Inv /\ VerdictInv => AnyUrlDownMeansError
  <2> SUFFICES ASSUME Inv, OnlineMeansNoUrlDown,
                      NEW a \in Apps, status[a] # NULL, ~Examining(a),
                      NEW u \in UrlsOf(a), urlStatus[u] = "Error"
               PROVE  status[a] = "Error"
    BY DEF VerdictInv, AnyUrlDownMeansError
  <2>1. status[a] \in {"Online", "Error"}
    BY DEF Inv, Known
  <2>2. Interval[u] = NULL
    BY DEF UrlsOf
  <2>3. status[a] # "Online"
    BY <2>2 DEF OnlineMeansNoUrlDown
  <2> QED
    BY <2>1, <2>3
<1> QED
  BY <1>1, <1>2, SpecInv, VerdictInit, VerdictStep, PTL DEF Spec

-----------------------------------------------------------------------------
(* Outside a round no application is examined with its flag set.            *)
FlagDown == pc = "wait" => error = 0 \/ cur \notin Apps

FlagStep == \A a \in Apps : cur = a /\ error = -1
                               => (cur' = a /\ error' = -1) \/ status'[a] = "Error"

LEMMA FlagLemma == Inv /\ FlagDown /\ [Next]_vars => FlagDown' /\ FlagStep
<1> SUFFICES ASSUME Inv, FlagDown, [Next]_vars PROVE FlagDown' /\ FlagStep
  OBVIOUS
<1> USE SizeAssumption, NodeAssumption
<1> USE DEF Inv, TypeOK, Verdicts, FlagDown, FlagStep, clock, urlAttrs, appAttrs, round
<1>1. CASE UNCHANGED <<pc, cur, error>>
  BY <1>1
<1>2. ASSUME NEW who \in {"updater", "request"}, Begin(who) PROVE FlagDown' /\ FlagStep
  BY <1>2 DEF Begin, GoTo
<1>3. CASE Halting
  BY <1>3 DEF Halting, Halt
<1>4. CASE StartProbe
  BY <1>4 DEF StartProbe, InChildren
<1>5. ASSUME NEW ret \in {0, -1}, EndProbe(ret) PROVE FlagDown' /\ FlagStep
  BY <1>5 DEF EndProbe
<1>6. CASE JudgeOnline
  BY <1>6 DEF JudgeOnline, Judging, Judged, GoTo
<1>7. CASE FirstError \/ RepeatError
  BY <1>7 DEF FirstError, RepeatError, Judging, Judged, GoTo
<1>9. ASSUME NEW ret \in {0, 1}, CheckConnection(ret) PROVE FlagDown' /\ FlagStep
  BY <1>9 DEF CheckConnection, GoTo
<1>10. CASE OtherNode
  BY <1>10 DEF OtherNode, GoTo
<1>11. CASE EndRound
  BY <1>11 DEF EndRound
<1>12. Tick \/ EditFile \/ Reload \/ SkipChild \/ UNCHANGED vars => UNCHANGED <<pc, cur, error>>
  BY DEF Tick, EditFile, Reload, SkipChild, vars
<1> QED
  BY <1>1, <1>2, <1>3, <1>4, <1>5, <1>6, <1>7, <1>9, <1>10, <1>11, <1>12, Halts
  DEF Next, InRound, OnDemand

(* However many URLs and applications there are, a failed probe is never    *)
(* forgotten before its application is shown in Error: the half of          *)
(* FailureShown that needs no fairness.                                     *)
THEOREM NoFailureForgotten == Spec => FailureKept
<1>1. Init => FlagDown
  BY DEF Init, FlagDown
<1>2. FlagStep => [FlagStep]_vars
  OBVIOUS
<1> QED
  BY <1>1, <1>2, SpecInv, FlagLemma, PTL DEF Spec, FailureKept, FlagStep

-----------------------------------------------------------------------------
(* What a round has established about the URLs it has been through. *)
Behind(u) == u[1] < cur \/ Passed(u)

UpToDate(u) == /\ urlStatus[u] # NULL
               /\ Interval[u] # NULL => /\ lastcheck[u] # NULL
                                        /\ lastcheck[u] + Interval[u] >= uptime

(* A check that was started has left its time, and its result once it is   *)
(* over; every URL behind the round is up to date, and so is every URL when *)
(* no round runs on the document.                                           *)
CheckInv ==
    /\ \A u \in Urls : lastcheck[u] # NULL =>
            urlStatus[u] # NULL \/ pc \in {"hung", "crashed"} \/ (pc = "probe" /\ u = Visiting)
    /\ pc = "probe" /\ Interval[Visiting] # NULL =>
            lastcheck[Visiting] # NULL /\ lastcheck[Visiting] >= uptime
    /\ pc \in {"scan", "probe"} => \A u \in Urls : Behind(u) => UpToDate(u)
    /\ pc = "wait" /\ doc # NULL => \A u \in Urls : UpToDate(u)

LEMMA CheckInit == Init => CheckInv
  BY DEF Init, CheckInv, Unchecked

(* Entering the loop no URL is behind; moving to the next child leaves the  *)
(* visited one behind, and moving to the next node the whole node.          *)
LEMMA BehindFirst == ASSUME GoTo(1), NEW u \in Urls PROVE ~Behind(u)'
<1>1. u[1] \in 1..N /\ u[2] \in 1..M
  BY UrlPair
<1>2. ~(u[1] < 1) /\ ~(u[2] < 1)
  BY <1>1, SizeAssumption
<1> QED
  BY <1>2 DEF GoTo, Behind, Passed

LEMMA BehindNext == ASSUME inner \in Nat, cur' = cur, inner' = inner + 1, NEW u \in Urls
                    PROVE  Behind(u)' <=> Behind(u) \/ u = Visiting
  BY PassedNext DEF Behind

LEMMA BehindNode == ASSUME cur \in 1..N, cur \in Apps => inner = M + 1, GoTo(cur + 1), NEW u \in Urls
                    PROVE  Behind(u)' => Behind(u)
<1>1. u[1] \in 1..N /\ u[2] \in 1..M /\ u[1] \in Apps
  BY UrlPair, NodeAssumption
<1>2. Behind(u)' => u[1] < cur + 1
  BY <1>1, SizeAssumption DEF GoTo, Behind, Passed
<1>3. u[1] < cur + 1 => u[1] < cur \/ u[1] = cur
  BY <1>1, SizeAssumption
<1>4. u[1] = cur => u[2] < inner
  BY <1>1, SizeAssumption
<1> QED
  BY <1>2, <1>3, <1>4 DEF Behind, Passed

(* A step that leaves the results alone and puts no more URLs behind. *)
LEMMA CheckKept ==
    ASSUME CheckInv, UNCHANGED <<urlAttrs, uptime, pc, doc>>, pc # "probe",
           \A u \in Urls : Behind(u)' => Behind(u)
    PROVE  CheckInv'
  BY DEF CheckInv, UpToDate, urlAttrs

LEMMA CheckStep == Inv /\ CheckInv /\ [Next]_vars => CheckInv'
<1> SUFFICES ASSUME Inv, CheckInv, [Next]_vars PROVE CheckInv'
  OBVIOUS
<1> USE SizeAssumption, NodeAssumption, IntervalAssumption, NullAssumption
<1> USE DEF Inv, TypeOK, clock, urlAttrs, appAttrs, round
<1>1. CASE UNCHANGED <<urlAttrs, uptime, pc, doc, cur, inner>>
  BY <1>1 DEF CheckInv, UpToDate, Behind, Passed, Visiting
<1>2. CASE Reload
  BY <1>2 DEF Reload, CheckInv, Unchecked
<1>3. ASSUME NEW who \in {"updater", "request"}, Begin(who) PROVE CheckInv'
  <2>1. \A u \in Urls : ~Behind(u)'
    BY <1>3, BehindFirst DEF Begin, UpdateConfig
  <2> QED
    BY <1>3, <2>1 DEF Begin, UpdateConfig, CheckInv, Visiting
<1>4. CASE Halting
  BY <1>4 DEF Halting, Halt, CheckInv
<1>5. CASE SkipChild
  <2>1. /\ cur' = cur /\ inner' = inner + 1
        /\ pc = "scan" /\ UNCHANGED <<pc, doc, urlStatus, lastcheck, uptime>>
    BY <1>5 DEF SkipChild, InChildren
  <2>2. \A u \in Urls : Behind(u)' <=> Behind(u) \/ u = Visiting
    BY <2>1, BehindNext
  <2>3. Visiting \in Urls => UpToDate(Visiting)
    <3> SUFFICES ASSUME Visiting \in Urls PROVE UpToDate(Visiting)
      OBVIOUS
    <3>1. /\ Interval[Visiting] # NULL /\ lastcheck[Visiting] # NULL
          /\ ~(lastcheck[Visiting] + Interval[Visiting] < now)
      BY <1>5 DEF SkipChild, Due
    <3>2. urlStatus[Visiting] # NULL
      BY <2>1, <3>1 DEF CheckInv
    <3> QED
      BY <3>1, <3>2, TimeAssumption DEF UpToDate, Probing, Time
  <2> QED
    BY <2>1, <2>2, <2>3 DEF CheckInv, UpToDate
<1>6. CASE StartProbe
  <2>1. /\ pc = "scan" /\ pc' = "probe" /\ Visiting \in Urls
        /\ UNCHANGED <<cur, inner, urlStatus, uptime>>
    BY <1>6 DEF StartProbe, InChildren
  <2>2. lastcheck' = [lastcheck EXCEPT ![Visiting] = IF Interval[Visiting] = NULL THEN @ ELSE now]
    BY <1>6 DEF StartProbe
  <2>3. Visiting' = Visiting /\ \A u \in Urls : Behind(u)' <=> Behind(u)
    BY <2>1 DEF Visiting, Behind, Passed
  <2>4. ~Behind(Visiting)
    BY <2>1 DEF Visiting, Behind, Passed
  <2>5. \A u \in Urls : Behind(u) => UpToDate(u)'
    BY <2>1, <2>2, <2>4 DEF CheckInv, UpToDate
  <2>6. Interval[Visiting] # NULL => lastcheck'[Visiting] = now /\ now # NULL
    BY <2>1, <2>2, TimeAssumption DEF Time
  <2> QED
    BY <2>1, <2>2, <2>3, <2>5, <2>6 DEF CheckInv, Probing
<1>7. ASSUME NEW ret \in {0, -1}, EndProbe(ret) PROVE CheckInv'
  <2>1. /\ pc = "probe" /\ pc' = "scan" /\ Visiting \in Urls
        /\ cur' = cur /\ inner' = inner + 1 /\ UNCHANGED <<lastcheck, uptime>>
    BY <1>7 DEF EndProbe, Probing
  <2>2. \A u \in Urls : Behind(u)' <=> Behind(u) \/ u = Visiting
    BY <2>1, BehindNext
  <2>3. urlStatus'[Visiting] # NULL /\ \A u \in Urls : u # Visiting => urlStatus'[u] = urlStatus[u]
    BY <1>7, <2>1 DEF EndProbe, Verdicts
  <2>4. \A u \in Urls : u = Visiting => UpToDate(u)'
    <3> SUFFICES ASSUME NEW u \in Urls, u = Visiting PROVE UpToDate(u)'
      OBVIOUS
    <3>1. Interval[u] # NULL => lastcheck[u] # NULL /\ lastcheck[u] >= uptime
      BY <2>1 DEF CheckInv
    <3>2. Interval[u] # NULL => lastcheck[u] + Interval[u] >= uptime
      BY <3>1, TimeAssumption DEF Time
    <3> QED
      BY <2>1, <2>3, <3>1, <3>2 DEF UpToDate
  <2>5. \A u \in Urls : Behind(u) => UpToDate(u)'
    BY <2>1, <2>3 DEF CheckInv, UpToDate
  <2> QED
    BY <2>1, <2>2, <2>3, <2>4, <2>5 DEF CheckInv
<1>8. CASE JudgeOnline \/ FirstError \/ RepeatError
  BY <1>8, BehindNode, CheckKept DEF JudgeOnline, FirstError, RepeatError, Judging, Judged
<1>10. CASE (\E ret \in {0, 1} : CheckConnection(ret)) \/ OtherNode
  BY <1>10, BehindNode, CheckKept DEF CheckConnection, OtherNode
<1>11. CASE EndRound
  <2>1. \A u \in Urls : Behind(u)
    <3>1. cur = N + 1
      BY <1>11 DEF EndRound
    <3>2. \A u \in Urls : u[1] \in 1..N
      BY UrlPair
    <3> QED
      BY <3>1, <3>2 DEF Behind
  <2> QED
    BY <1>11, <2>1 DEF EndRound, CheckInv, UpToDate
<1>12. Tick \/ EditFile \/ UNCHANGED vars => UNCHANGED <<urlAttrs, uptime, pc, doc, cur, inner>>
  BY DEF Tick, EditFile, vars
<1> QED
  BY <1>1, <1>2, <1>3, <1>4, <1>5, <1>6, <1>7, <1>8, <1>10, <1>11, <1>12, Halts DEF Next, InRound, OnDemand

(* After a round no check is overdue, whatever the intervals, the time the  *)
(* probes take and the reloads in between.                                  *)
THEOREM ChecksOnTime == Spec => []NothingOverdue
<1>1. Inv /\ [Next]_vars => Inv'
  BY NextInv
<1>2. CheckInv => NothingOverdue
  BY DEF CheckInv, UpToDate, NothingOverdue
<1> QED
  BY <1>1, <1>2, SpecInv, CheckInit, CheckStep, PTL DEF Spec

-----------------------------------------------------------------------------
(* The countdown read off the counter. *)

(* Counting up by one runs the remainder round the clock of h. *)
LEMMA ModStep == ASSUME NEW h \in Nat, h # 0, NEW o \in Int
                 PROVE  /\ o % h \in 0..(h - 1)
                        /\ (o + 1) % h = IF o % h = h - 1 THEN 0 ELSE (o % h) + 1
<1>1. o % h \in 0..(h - 1) /\ o = h * (o \div h) + (o % h)
  OBVIOUS
<1>2. (o + 1) % h \in 0..(h - 1) /\ o + 1 = h * ((o + 1) \div h) + ((o + 1) % h)
  OBVIOUS
<1> DEFINE q == o \div h
           p == (o + 1) \div h
           r == o % h
           s == (o + 1) % h
<1>3. q \in Int /\ p \in Int
  OBVIOUS
<1> HIDE DEF q, p, r, s
<1>4. h * (p - q) = r + 1 - s
  BY <1>1, <1>2, <1>3 DEF q, p, r, s
<1> DEFINE k == p - q
<1>5. k \in Int /\ h * k = r + 1 - s
  BY <1>3, <1>4
<1> HIDE DEF k
<1>6. r \in 0..(h - 1) /\ s \in 0..(h - 1)
  BY <1>1, <1>2 DEF r, s
<1>7. k >= 0
  <2>1. k <= -1 => h * k <= -h
    BY <1>5
  <2> QED
    BY <2>1, <1>5, <1>6
<1>8. k <= 1
  <2>1. k >= 2 => h * k >= 2 * h
    BY <1>5
  <2> QED
    BY <2>1, <1>5, <1>6
<1>9. k = 0 \/ k = 1
  BY <1>5, <1>7, <1>8
<1>10. CASE k = 0
  BY <1>10, <1>5, <1>6 DEF r, s
<1>11. CASE k = 1
  BY <1>11, <1>5, <1>6 DEF r, s
<1> QED
  BY <1>9, <1>10, <1>11

(* The countdown that alerthits - 4 stands for, the value the counter       *)
(* starts from.                                                             *)
LEMMA CountdownFirst == ASSUME NEW h \in Nat
                        PROVE  Countdown(h, NULL) \in Alerts!FirstAlerts(h)
<1>1. h # 0 => h - ((h - 4) % h) = 1 + (3 % h) /\ 3 % h \in 0..3
  OBVIOUS
<1> QED
  BY <1>1 DEF Countdown, Alerts!FirstAlerts

(* One more repetition takes one off the countdown, or restarts it when the *)
(* counter becomes a multiple of alerthits.                                 *)
LEMMA CountdownStep ==
    ASSUME NEW h \in Nat, h # 0, NEW occ \in Int \cup {NULL}
    PROVE  LET c == Countdown(h, occ)
               n == NextOcurrencies(h, occ)
           IN  IF n % h = 0 THEN c = 1 /\ Countdown(h, n) = h
                            ELSE c > 1 /\ Countdown(h, n) = c - 1
<1> DEFINE o == IF occ = NULL THEN h - 4 ELSE occ
<1>1. o \in Int
  OBVIOUS
<1>2. Countdown(h, occ) = h - (o % h) /\ NextOcurrencies(h, occ) = o + 1
  BY DEF Countdown, NextOcurrencies
<1>3. Countdown(h, o + 1) = h - ((o + 1) % h)
  BY <1>1, NullAssumption DEF Countdown
<1> HIDE DEF o
<1>4. /\ o % h \in 0..(h - 1)
      /\ (o + 1) % h = IF o % h = h - 1 THEN 0 ELSE (o % h) + 1
  BY <1>1, ModStep
<1> QED
  BY <1>2, <1>3, <1>4

(* Without a document there is no attribute. *)
Forgotten == doc = NULL => /\ pc \in {"wait", "hung", "crashed"}
                           /\ status = NoStatus
                           /\ ocurrencies = Unjudged

LEMMA ForgottenInit == Init => Forgotten
  BY DEF Init, Forgotten

LEMMA ForgottenStep == Inv /\ Forgotten /\ [Next]_vars => Forgotten'
<1> SUFFICES ASSUME Inv, Forgotten, [Next]_vars PROVE Forgotten'
  OBVIOUS
<1> USE NullAssumption DEF Forgotten, NoStatus, Unjudged, appAttrs, round
<1>1. CASE UNCHANGED <<doc, pc, status, ocurrencies>>
  BY <1>1
<1>2. CASE Reload \/ Halting
  BY <1>2 DEF Reload, Halting, Halt
<1>3. ASSUME NEW who \in {"updater", "request"}, Begin(who) PROVE Forgotten'
  BY <1>3 DEF Begin, UpdateConfig
<1>4. CASE /\ doc' = doc /\ pc \in {"scan", "probe"}
  BY <1>4
<1>5. Tick \/ EditFile \/ UNCHANGED vars => UNCHANGED <<doc, pc, status, ocurrencies>>
  BY DEF Tick, EditFile, vars
<1>6. SkipChild \/ StartProbe \/ (\E ret \in {0, -1} : EndProbe(ret)) \/ JudgeOnline \/ FirstError
        \/ RepeatError \/ (\E ret \in {0, 1} : CheckConnection(ret)) \/ OtherNode \/ EndRound
      => doc' = doc /\ pc \in {"scan", "probe"}
  BY DEF SkipChild, InChildren, StartProbe, EndProbe, JudgeOnline, FirstError, RepeatError,
         Judging, Judged, CheckConnection, OtherNode, EndRound
<1> QED
  BY <1>1, <1>2, <1>3, <1>4, <1>5, <1>6, Halts DEF Next, InRound, OnDemand

-----------------------------------------------------------------------------
(* The abstract variables, written out. *)
Verdict == [a \in Apps |-> status[a]]
Left == [a \in Apps |-> Countdown(hits, ocurrencies[a])]

LEMMA AlertsNext == ASSUME NEW a \in Apps,
                           Alerts!Up(a) \/ Alerts!Down(a) \/ Alerts!StillDown(a) \/ Alerts!Alert(a)
                    PROVE  Alerts!Next
  BY DEF Alerts!Next

LEMMA AlertsInit == Init => Alerts!Init
  BY DEF Init, Alerts!Init, NoStatus, Unjudged, Countdown

LEMMA AlertsStep == Inv /\ Forgotten /\ [Next]_vars => [Alerts!Next]_Alerts!vars
<1> SUFFICES ASSUME Inv, Forgotten, [Next]_vars PROVE Alerts!Next \/ UNCHANGED Alerts!vars
  OBVIOUS
<1> USE NodeAssumption, NullAssumption DEF Inv, TypeOK, Verdicts, appAttrs, round
<1>1. UNCHANGED <<hits, status, ocurrencies, mails>> => UNCHANGED Alerts!vars
  BY DEF Alerts!vars
<1>2. CASE Reload
  <2>1. /\ hits' = hits /\ mails' = mails
        /\ Verdict' = [a \in Apps |-> NULL]
        /\ \A a \in Apps : ocurrencies'[a] = NULL
    BY <1>2 DEF Reload, NoStatus, Unjudged, Verdict
  <2>2. /\ Left' = [a \in Apps |-> Countdown(hits', NULL)]
        /\ Countdown(hits', NULL) \in Alerts!FirstAlerts(hits')
    BY <2>1, CountdownFirst DEF Left
  <2>3. Alerts!Load
    BY <2>1, <2>2 DEF Alerts!Load, Verdict, Left
  <2> QED
    BY <2>3 DEF Alerts!Next
<1>3. ASSUME NEW who \in {"updater", "request"}, Begin(who) PROVE Alerts!Next \/ UNCHANGED Alerts!vars
  <2>1. CASE doc # NULL
    BY <1>1, <1>3, <2>1 DEF Begin, UpdateConfig
  <2>2. CASE doc = NULL
    <3>1. /\ hits' \in Nat /\ mails' = mails
          /\ Verdict' = [a \in Apps |-> NULL]
          /\ \A a \in Apps : ocurrencies'[a] = NULL
      BY <1>3, <2>2, FileAssumption DEF Begin, UpdateConfig, Forgotten, NoStatus, Unjudged, Verdict
    <3>2. /\ Left' = [a \in Apps |-> Countdown(hits', NULL)]
          /\ Countdown(hits', NULL) \in Alerts!FirstAlerts(hits')
      BY <3>1, CountdownFirst DEF Left
    <3>3. Alerts!Load
      BY <3>1, <3>2 DEF Alerts!Load, Verdict, Left
    <3> QED
      BY <3>3 DEF Alerts!Next
  <2> QED
    BY <2>1, <2>2
<1>4. CASE JudgeOnline
  <2>1. /\ cur \in Apps
        /\ Verdict' = [Verdict EXCEPT ![cur] = "Online"]
        /\ UNCHANGED <<hits, ocurrencies, mails>>
    BY <1>4 DEF JudgeOnline, Judging, Judged, Verdict
  <2>2. PICK a \in Apps : a = cur
    BY <2>1
  <2>3. Alerts!Up(a)
    BY <2>1, <2>2 DEF Alerts!Up, Verdict, Left
  <2> QED
    BY <2>3, AlertsNext
<1>5. CASE FirstError
  <2>1. /\ cur \in Apps /\ status[cur] # "Error"
        /\ Verdict' = [Verdict EXCEPT ![cur] = "Error"]
        /\ UNCHANGED <<hits, ocurrencies, mails>>
    BY <1>5 DEF FirstError, Judging, Judged, Verdict
  <2>2. PICK a \in Apps : a = cur
    BY <2>1
  <2>3. Alerts!Down(a)
    BY <2>1, <2>2 DEF Alerts!Down, Verdict, Left
  <2> QED
    BY <2>3, AlertsNext
<1>6. CASE RepeatError
  <2> DEFINE n == NextOcurrencies(hits, ocurrencies[cur])
  <2>1. /\ cur \in Apps /\ status[cur] = "Error" /\ hits # 0
        /\ Verdict' = Verdict
        /\ hits' = hits
        /\ ocurrencies' = [ocurrencies EXCEPT ![cur] = n]
        /\ mails' = IF n % hits = 0 THEN [mails EXCEPT ![cur] = @ + 1] ELSE mails
    BY <1>6 DEF RepeatError, Judging, Judged, Verdict
  <2>2. LET c == Countdown(hits, ocurrencies[cur])
        IN  IF n % hits = 0 THEN c = 1 /\ Countdown(hits, n) = hits
                            ELSE c > 1 /\ Countdown(hits, n) = c - 1
    BY <2>1, CountdownStep
  <2> HIDE DEF n
  <2>3. Left' = [Left EXCEPT ![cur] = Countdown(hits, n)]
    BY <2>1 DEF Left
  <2>4. Left[cur] = Countdown(hits, ocurrencies[cur])
    BY <2>1 DEF Left
  <2>5. CASE n % hits = 0
    <3>1. Alerts!Alert(cur)
      BY <2>1, <2>2, <2>3, <2>4, <2>5 DEF Alerts!Alert, Verdict, Left
    <3> QED
      BY <2>1, <3>1, AlertsNext
  <2>6. CASE n % hits # 0
    <3>1. Alerts!StillDown(cur)
      BY <2>1, <2>2, <2>3, <2>4, <2>6 DEF Alerts!StillDown, Verdict, Left
    <3> QED
      BY <2>1, <3>1, AlertsNext
  <2> QED
    BY <2>5, <2>6
<1>7. ASSUME NEW ret \in {0, 1}, CheckConnection(ret) PROVE UNCHANGED Alerts!vars
  <2>1. \A a \in Apps : status'[a] = status[a]
    BY <1>7 DEF CheckConnection
  <2> QED
    BY <1>7, <2>1 DEF CheckConnection, Alerts!vars
<1>8. Tick \/ EditFile \/ Halting \/ SkipChild \/ StartProbe \/ OtherNode
        \/ EndRound \/ UNCHANGED vars => UNCHANGED <<hits, status, ocurrencies, mails>>
  BY DEF Tick, EditFile, Halting, Halt, SkipChild, StartProbe, OtherNode, EndRound, vars
<1>9. \A ret \in {0, -1} : EndProbe(ret) => UNCHANGED <<hits, status, ocurrencies, mails>>
  BY DEF EndProbe
<1> QED
  BY <1>1, <1>2, <1>3, <1>4, <1>5, <1>6, <1>7, <1>8, <1>9, Halts DEF Next, InRound, OnDemand

(* The mails of every application follow the countdown of OutageAlerts, for *)
(* every value of alerthits the file may have, every sequence of failures   *)
(* and recoveries and every reload.                                         *)
THEOREM AlertsImplemented == Spec => AlertsAsPromised
<1>1. Inv /\ [Next]_vars => Inv'
  BY NextInv
<1> QED
  BY <1>1, InitInv, ForgottenInit, ForgottenStep, AlertsInit, AlertsStep, PTL
  DEF Spec, AlertsAsPromised, Alerts!Spec
=============================================================================
