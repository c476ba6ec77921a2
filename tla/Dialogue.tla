------------------------------ MODULE Dialogue ------------------------------
(***************************************************************************)
(* The two dialogues a round holds over a plain socket: the TCP check of   *)
(* a URL (src/connection.cpp, checkConnection), one line and one answer,   *)
(* and the mail of an alert (src/email.cpp, sendmail, smtpdialog), a line  *)
(* at a time.  Both write to a non-blocking socket and go round a read     *)
(* until something has arrived, the peer is gone, or the time is over.     *)
(*                                                                         *)
(* A peer says pieces whenever it likes, or nothing, and may hang up; a    *)
(* read takes all that has arrived.  Of a mail server only the number of   *)
(* pieces matters, since nobody looks at what it says.  A line and what a  *)
(* peer says at a time are shorter than the 2048 bytes of buf.             *)
(*                                                                         *)
(* Time is counted in ticks from the start of a wait, and the loop of a    *)
(* wait goes round at least once in every tick.                            *)
(***************************************************************************)
EXTENDS Integers, Sequences, FiniteSets

CONSTANTS
    Chars,      \* what a mail list is made of, the semicolon too
    Lists,      \* mail lists: addresses, perhaps empty ones, between semicolons
    CheckLimit, \* the 20 seconds given to the answer of a check
    MailLimit,  \* the 10 seconds given to every answer of a mail server
    MaxAnswers, \* bound: pieces the peer of a check says
    MaxReplies  \* bound: pieces a mail server says

ASSUME ListAssumption == Lists \subseteq Seq(Chars) /\ "RCPT" \notin Chars
ASSUME LimitAssumption == CheckLimit \in Nat /\ MailLimit \in Nat
ASSUME BoundAssumption == MaxAnswers \in Nat /\ MaxReplies \in Nat

Semicolon == ";"

Tasks == [kind : {"check"}, mail : {<<>>}] \cup [kind : {"mail"}, mail : Lists]

(* The answer a check expects, its first part, the part that follows, and   *)
(* anything else.                                                           *)
Pieces == {"whole", "start", "rest", "other"}

Script(kind) ==
    IF kind = "check"
    THEN <<"msg">>
    ELSE <<"HELO", "MAIL", "RCPT", "DATA", "Subject", "Content-Type", "html", ".", "QUIT">>

VARIABLES
    task,    \* what is to be done
    pc,      \* where it is
    line,    \* the line of Script to write, or written and waited for
    aux2,    \* where the address of the RCPT line begins in the list
    aux1,    \* where it ends: at a semicolon, or after the list
    elapsed, \* the clock of the wait under way
    polled,  \* 1 when its loop has been round in this tick
    said,    \* what the peer has said
    ended,   \* the peer has closed its end
    taken,   \* pieces read
    fd,      \* the socket
    ret,
    named,   \* history: the RCPT lines written, each "RCPT" and its address
    waits,   \* history: lines written that are waited for
    spent    \* history: the time all waits took

peer == <<said, ended>>
place == <<line, aux2, aux1>>
time == <<elapsed, polled, spent>>
vars == <<task, pc, place, time, peer, taken, fd, ret, named, waits>>

Init == /\ task \in Tasks
        /\ pc = "connect"
        /\ line = 1 /\ aux2 = 1 /\ aux1 = 1
        /\ elapsed = 0 /\ polled = 0 /\ spent = 0
        /\ said = <<>> /\ ended = 0 /\ taken = 0
        /\ fd = "none"
        /\ ret = IF task.kind = "check" THEN 1 ELSE 0
        /\ named = <<>> /\ waits = 0

-----------------------------------------------------------------------------
(* The peer. *)
Say == /\ pc \in {"write", "wait"}
       /\ ended = 0
       /\ Len(said) < (IF task.kind = "check" THEN MaxAnswers ELSE MaxReplies)
       /\ \E piece \in (IF task.kind = "check" THEN Pieces ELSE {"other"}) :
            said' = Append(said, piece)
       /\ UNCHANGED <<task, pc, place, time, ended, taken, fd, ret, named, waits>>

Hangup == /\ pc \in {"write", "wait"}
          /\ ended = 0
          /\ ended' = 1
          /\ UNCHANGED <<task, pc, place, time, said, taken, fd, ret, named, waits>>

Tick == /\ pc = "wait"
        /\ polled = 1
        /\ elapsed' = elapsed + 1 /\ spent' = spent + 1 /\ polled' = 0
        /\ UNCHANGED <<task, pc, place, peer, taken, fd, ret, named, waits>>

-----------------------------------------------------------------------------
NoSocket == /\ pc = "connect"
            /\ pc' = "done" /\ ret' = -1
            /\ UNCHANGED <<task, place, time, peer, taken, fd, named, waits>>

(* Nobody closes the socket. *)
ConnectFails == /\ pc = "connect"
                /\ pc' = "done" /\ ret' = -1
                /\ fd' = "lost"
                /\ UNCHANGED <<task, place, time, peer, taken, named, waits>>

Connect == /\ pc = "connect"
           /\ pc' = "write"
           /\ fd' = "open"
           /\ UNCHANGED <<task, place, time, peer, taken, ret, named, waits>>

Text == Script(task.kind)[line]
LineCount == Len(Script(task.kind))

(* The subject, the type and the page are written in a row. *)
Waits == Text \notin {"Subject", "Content-Type", "html"}

(* The next line of the script. *)
NextLine == /\ UNCHANGED <<aux2, aux1>>
            /\ IF line < LineCount
               THEN pc' = "write" /\ line' = line + 1
               ELSE pc' = "close" /\ line' = line

(* RCPT again, for what follows the semicolon. *)
NextAddress == pc' = "write" /\ aux2' = aux1 + 1 /\ UNCHANGED <<line, aux1>>

(* A slip: a list that ends in a semicolon has no address after it. *)
AdvanceUnlessEmpty ==
    IF Text = "RCPT" /\ aux1 < Len(task.mail) THEN NextAddress ELSE NextLine

(* A slip: another RCPT after the last address. *)
AdvanceTooFar ==
    IF Text = "RCPT" /\ aux1 <= Len(task.mail) + 1 THEN NextAddress ELSE NextLine

(* The line after the one at hand: RCPT again while a semicolon was found.  *)
Advance ==
    IF Text = "RCPT" /\ aux1 <= Len(task.mail) THEN NextAddress ELSE NextLine

(* strstr: the first semicolon there is from aux2 on, or else the end. *)
EndsAddress(e) == /\ \A i \in aux2..(e - 1) : task.mail[i] # Semicolon
                  /\ e <= Len(task.mail) => task.mail[e] = Semicolon

(* A RCPT line names what stands between aux2 and aux1. *)
NameAddress == \E e \in aux2..(Len(task.mail) + 1) :
                  /\ EndsAddress(e)
                  /\ aux1' = e
                  /\ named' = named \o <<"RCPT">> \o SubSeq(task.mail, aux2, e - 1)

(* A line goes out, and a wait for its answer starts the clock. *)
WriteAndWait == /\ pc = "write" /\ Waits
                /\ IF Text = "RCPT" THEN NameAddress ELSE UNCHANGED <<aux1, named>>
                /\ pc' = "wait" /\ waits' = waits + 1
                /\ elapsed' = 0 /\ polled' = 0
                /\ UNCHANGED <<task, line, aux2, peer, taken, fd, ret, spent>>

(* A line goes out and the next one after it. *)
WriteOn == /\ pc = "write" /\ ~Waits
           /\ Advance
           /\ UNCHANGED <<task, time, peer, taken, fd, ret, named, waits>>

(* A slip: a mail whose line cannot be sent returns without closing, too. *)
WriteFailsReturning ==
    /\ pc = "write"
    /\ pc' = "done" /\ fd' = "lost"
    /\ UNCHANGED <<task, place, time, peer, taken, ret, named, waits>>

(* The socket fails: a check returns at once, and closes nothing. *)
WriteFails ==
    /\ pc = "write"
    /\ IF task.kind = "check"
       THEN pc' = "done" /\ fd' = "lost"
       ELSE pc' = "close" /\ fd' = fd
    /\ UNCHANGED <<task, place, time, peer, taken, ret, named, waits>>

-----------------------------------------------------------------------------
(* A slip: only as much is compared as has arrived. *)
PartExpected(s) == Len(s) > 0 /\ s[1] \in {"whole", "start"}

(* What has arrived begins with the expected message. *)
Expected(s) == Len(s) > 0 /\ (s[1] = "whole" \/ (Len(s) > 1 /\ s[1] = "start" /\ s[2] = "rest"))

(* read returns all that has arrived: the answer, whatever it says. *)
Read == /\ pc = "wait"
        /\ taken < Len(said)
        /\ taken' = Len(said)
        /\ IF task.kind = "check"
           THEN pc' = "close" /\ ret' = (IF Expected(said) THEN 0 ELSE 1) /\ UNCHANGED place
           ELSE Advance /\ ret' = ret
        /\ UNCHANGED <<task, time, peer, fd, named, waits>>

(* A slip: the end of the connection is taken for nothing to read, and the  *)
(* loop goes round without a look at the time.                              *)
EndOfFileSpinning ==
    /\ pc = "wait"
    /\ taken = Len(said) /\ ended = 1
    /\ UNCHANGED vars

(* The peer is gone.  A mail goes on as if it had been answered. *)
EndOfFile == /\ pc = "wait"
             /\ taken = Len(said) /\ ended = 1
             /\ IF task.kind = "check" THEN pc' = "close" /\ UNCHANGED place ELSE Advance
             /\ UNCHANGED <<task, time, peer, taken, fd, ret, named, waits>>

Limit == IF task.kind = "check" THEN CheckLimit ELSE MailLimit

(* A slip: the wait that is over counts as an answer. *)
NothingIsAnswer ==
    /\ pc = "wait"
    /\ taken = Len(said) /\ ended = 0
    /\ polled' = 1
    /\ IF elapsed > Limit THEN Advance ELSE pc' = pc /\ UNCHANGED place
    /\ UNCHANGED <<task, elapsed, spent, peer, taken, fd, ret, named, waits>>

(* A slip: the clock is started inside the loop. *)
NothingRestarts ==
    /\ pc = "wait"
    /\ taken = Len(said) /\ ended = 0
    /\ polled' = 1 /\ elapsed' = 0
    /\ pc' = IF elapsed > Limit THEN "close" ELSE pc
    /\ UNCHANGED <<task, place, spent, peer, taken, fd, ret, named, waits>>

(* EAGAIN: round again, unless the time is over. *)
Nothing == /\ pc = "wait"
           /\ taken = Len(said) /\ ended = 0
           /\ polled' = 1
           /\ pc' = IF elapsed > Limit THEN "close" ELSE pc
           /\ UNCHANGED <<task, place, elapsed, spent, peer, taken, fd, ret, named, waits>>

(* sendmail does not look at what smtpdialog returned. *)
Close == /\ pc = "close"
         /\ pc' = "done"
         /\ fd' = "closed"
         /\ UNCHANGED <<task, place, time, peer, taken, ret, named, waits>>

-----------------------------------------------------------------------------
Client == \/ NoSocket \/ ConnectFails \/ Connect
          \/ WriteAndWait \/ WriteOn \/ WriteFails
          \/ Read \/ EndOfFile \/ Nothing
          \/ Close

Next == Client \/ Tick \/ Say \/ Hangup

(* The thread of the round runs and time passes; the peer owes nothing. *)
Fairness == WF_vars(Client) /\ WF_vars(Tick)

Spec == Init /\ [][Next]_vars /\ Fairness

-----------------------------------------------------------------------------
TypeOK ==
    /\ task \in Tasks
    /\ pc \in {"connect", "write", "wait", "close", "done"}
    /\ line \in 1..LineCount
    /\ aux2 \in 1..(Len(task.mail) + 1) /\ aux1 \in 1..(Len(task.mail) + 1)
    /\ elapsed \in Nat /\ polled \in 0..1 /\ spent \in Nat
    /\ said \in Seq(Pieces) /\ ended \in 0..1
    /\ taken \in Nat /\ taken <= Len(said)
    /\ fd \in {"none", "open", "closed", "lost"}
    /\ ret \in (IF task.kind = "check" THEN {-1, 0, 1} ELSE {-1, 0})
    /\ named \in Seq(Chars \cup {"RCPT"}) /\ waits \in Nat

(* A URL passes its check only when what arrived first begins with the      *)
(* expected message: not on a connection that stays silent, is cut, or has  *)
(* brought but a part of it.                                                *)
PassedIsExpected ==
    pc = "done" /\ task.kind = "check" /\ ret = 0
    => taken > 0 /\ (said[1] # "whole" => taken > 1 /\ said[1] = "start" /\ said[2] = "rest")

(* While the mail server is there, a line is written only when the server   *)
(* has said as many things as lines were waited for: the dialogue never     *)
(* runs further ahead than the greeting, which is taken for the answer to   *)
(* HELO, puts it.                                                           *)
LockStep == pc = "write" /\ ended = 0 => taken >= waits

(* A mail whose text goes out goes to every address of the list, in its     *)
(* order and once, whatever the server answered to any of them: the RCPT    *)
(* lines are the list with a line begun before it and at every semicolon.   *)
EveryoneNamed ==
    task.kind = "mail" /\ pc \in {"write", "wait"} /\ line > 3 =>
        named = <<"RCPT">> \o [i \in 1..Len(task.mail) |->
                                 IF task.mail[i] = Semicolon THEN "RCPT" ELSE task.mail[i]]

(* A round is held up by a dialogue for no longer than its limit for every  *)
(* answer it waits for, a tick more at most for each: one for a check, five *)
(* and one for every address for a mail.                                    *)
Semicolons(n) == {i \in 1..n : task.mail[i] = Semicolon}
AddressCount == Cardinality(Semicolons(Len(task.mail))) + 1
InTime == spent <= (IF task.kind = "check" THEN 1 ELSE AddressCount + 5) * (Limit + 1)

(* Once it has waited for an answer, no dialogue loses its socket, wherever *)
(* in the script and in the list a line fails or an answer does not come: a *)
(* check can only have lost it before.                                      *)
SocketKept == waits > 0 => fd = (IF pc = "done" THEN "closed" ELSE "open")

(* A dialogue that got its connection and wrote a line ends and gives the   *)
(* socket back, though the peer may stop talking, or hang up, anywhere.     *)
SocketReturned == waits > 0 ~> pc = "done" /\ fd = "closed"
=============================================================================
