--------------------------- MODULE DialogueProofs ---------------------------
(***************************************************************************)
(* What Dialogue promises, for every mail list, every time limit and every *)
(* peer: no verdict without the expected answer, no line ahead of the      *)
(* server, nobody left out, and no more time than the limits add up to.    *)
(***************************************************************************)
EXTENDS Dialogue, FiniteSetTheorems, SequenceTheorems, TLAPS

(* Number of the address that begins at aux2. *)
To == Cardinality(Semicolons(aux2 - 1)) + 1

(* Lines waited for before the one at hand. *)
Before == IF line <= 3 THEN line + To - 2
          ELSE AddressCount + (IF line = 4 THEN 2 ELSE IF line < 9 THEN 3 ELSE 4)

(* Only the line of the addresses is written more than once. *)
PlaceInv ==
    /\ task.kind = "mail" /\ line < 3 => aux2 = 1
    /\ task.kind = "mail" /\ pc = "wait" /\ line = 3 => aux2 <= aux1 /\ EndsAddress(aux1)
    /\ pc = "wait" => Waits
    /\ pc = "connect" => line = 1 /\ waits = 0 /\ spent = 0
    /\ pc \in {"write", "wait"} => waits = Before + (IF pc = "wait" THEN 1 ELSE 0)
    /\ waits <= IF task.kind = "check" THEN 1 ELSE AddressCount + 5

(* Every wait that is over took its limit and a tick at most. *)
TimeInv ==
    /\ pc = "wait" => /\ waits > 0
                      /\ elapsed + polled <= Limit + 1
                      /\ spent <= (waits - 1) * (Limit + 1) + elapsed
    /\ pc # "wait" => spent <= waits * (Limit + 1)

(* Every wait that is over on a live connection took a piece. *)
PaceInv ==
    /\ pc = "connect" => taken = 0 /\ said = <<>>
    /\ pc = "write" => ended = 1 \/ taken >= waits
    /\ pc = "wait" => ended = 1 \/ taken >= waits - 1

(* What the RCPT lines make of the list, read from its beginning. *)
Named(i) == IF i = 1 \/ task.mail[i - 1] = Semicolon THEN "RCPT" ELSE task.mail[i - 1]

(* The addresses named are the first ones of the list. *)
NameInv ==
    task.kind = "mail" =>
        /\ pc = "connect" => named = <<>>
        /\ pc \in {"write", "wait"} =>
              /\ Len(named) = IF line < 3 THEN 0
                              ELSE IF line > 3 THEN Len(task.mail) + 1
                              ELSE IF pc = "write" THEN aux2 - 1 ELSE aux1
              /\ \A i \in 1..Len(named) : named[i] = Named(i)
        /\ pc = "write" /\ line = 3 => aux2 = 1 \/ task.mail[aux2 - 1] = Semicolon

(* A check that has passed has read the expected message. *)
Begins == taken > 0 /\ (said[1] # "whole" => taken > 1 /\ said[1] = "start" /\ said[2] = "rest")
VerdictInv ==
    task.kind = "check" =>
        /\ pc \in {"connect", "write", "wait"} => ret # 0
        /\ pc \in {"close", "done"} /\ ret = 0 => Begins

Inv == TypeOK /\ PlaceInv /\ TimeInv /\ PaceInv /\ NameInv /\ VerdictInv

-----------------------------------------------------------------------------
(* Semicolons are counted from the beginning of the list.                   *)
LEMMA SemicolonCount ==
  ASSUME NEW n \in Nat
  PROVE /\ IsFiniteSet(Semicolons(n)) /\ Cardinality(Semicolons(n)) \in Nat
        /\ \A m \in 0..n : Cardinality(Semicolons(m)) <= Cardinality(Semicolons(n))
<1>1. IsFiniteSet(Semicolons(n)) /\ Cardinality(Semicolons(n)) \in Nat
  <2>1. IsFiniteSet(1..n) BY FS_Interval
  <2>2. Semicolons(n) \subseteq 1..n BY DEF Semicolons
  <2> QED BY <2>1, <2>2, FS_Subset, FS_CardinalityType
<1>2. ASSUME NEW m \in 0..n PROVE Cardinality(Semicolons(m)) <= Cardinality(Semicolons(n))
  <2>1. Semicolons(m) \subseteq Semicolons(n) BY DEF Semicolons
  <2> QED BY <1>1, <2>1, FS_Subset
<1> QED BY <1>1, <1>2

(* Between the beginning of an address and its end there is none, and at    *)
(* the end one more.                                                        *)
LEMMA SemicolonNext ==
  ASSUME aux2 \in Nat \ {0}, aux1 \in Nat, aux2 <= aux1, EndsAddress(aux1)
  PROVE IF aux1 <= Len(task.mail)
        THEN Cardinality(Semicolons(aux1)) = Cardinality(Semicolons(aux2 - 1)) + 1
        ELSE Cardinality(Semicolons(aux1 - 1)) = Cardinality(Semicolons(aux2 - 1))
<1>1. CASE aux1 <= Len(task.mail)
  <2>1. Semicolons(aux1) = Semicolons(aux2 - 1) \cup {aux1}
    BY <1>1 DEF Semicolons, EndsAddress
  <2>2. aux1 \notin Semicolons(aux2 - 1) /\ IsFiniteSet(Semicolons(aux2 - 1))
    <3>1. aux2 - 1 \in Nat OBVIOUS
    <3>2. IsFiniteSet(Semicolons(aux2 - 1)) BY <3>1, SemicolonCount
    <3> QED BY <3>2 DEF Semicolons
  <2> QED BY <1>1, <2>1, <2>2, FS_AddElement
<1>2. CASE ~(aux1 <= Len(task.mail))
  <2>1. Semicolons(aux1 - 1) = Semicolons(aux2 - 1)
    BY DEF Semicolons, EndsAddress
  <2> QED BY <1>2, <2>1
<1> QED BY <1>1, <1>2

(* The task is one of a list, and the address at hand one of it.            *)
LEMMA Kinds ==
  ASSUME TypeOK
  PROVE /\ task \in Tasks /\ task.kind \in {"check", "mail"}
        /\ task.mail \in Seq(Chars) /\ Len(task.mail) \in Nat
        /\ task.kind = "check" => Len(task.mail) = 0
        /\ AddressCount \in Nat \ {0} /\ Limit \in Nat
        /\ To \in Nat \ {0} /\ To <= AddressCount
        /\ aux2 = 1 => To = 1
        /\ Cardinality(Semicolons(0)) = 0
        /\ Before \in Int
<1>1. /\ task \in Tasks /\ task.kind \in {"check", "mail"}
      /\ task.mail \in Seq(Chars) /\ Len(task.mail) \in Nat
      /\ task.kind = "check" => Len(task.mail) = 0
  <2>1. CASE task \in [kind : {"check"}, mail : {<<>>}]
    <3>1. task.kind = "check" /\ task.mail = <<>> BY <2>1
    <3>2. <<>> \in Seq(Chars) /\ Len(<<>>) = 0 OBVIOUS
    <3> QED BY <3>1, <3>2 DEF TypeOK
  <2>2. CASE task \in [kind : {"mail"}, mail : Lists]
    <3>1. task.kind = "mail" /\ task.mail \in Lists BY <2>2
    <3>2. task.mail \in Seq(Chars) BY <3>1, ListAssumption
    <3> QED BY <3>1, <3>2 DEF TypeOK
  <2> QED BY <2>1, <2>2 DEF TypeOK, Tasks
<1>2. aux2 - 1 \in 0..Len(task.mail)
  BY <1>1 DEF TypeOK
<1>3. /\ Cardinality(Semicolons(Len(task.mail))) \in Nat
      /\ Cardinality(Semicolons(aux2 - 1)) \in Nat
      /\ Cardinality(Semicolons(aux2 - 1)) <= Cardinality(Semicolons(Len(task.mail)))
  BY <1>1, <1>2, SemicolonCount
<1>4. Cardinality(Semicolons(0)) = 0
  <2>1. Semicolons(0) = {} BY DEF Semicolons
  <2> QED BY <2>1, FS_EmptySet
<1>5. aux2 = 1 => To = 1
  BY <1>4 DEF To
<1>6. Before \in Int
  <2>1. line \in Int
    <3>1. LineCount \in {1, 9} BY <1>1 DEF Script, LineCount
    <3> QED BY <3>1 DEF TypeOK
  <2> QED BY <1>3, <2>1 DEF AddressCount, To, Before
<1> QED
  BY <1>1, <1>3, <1>4, <1>5, <1>6, LimitAssumption DEF AddressCount, To, Limit

(* What the lines of either script are.                                     *)
LEMMA Lines ==
  ASSUME TypeOK
  PROVE /\ task.kind = "check" => LineCount = 1 /\ line = 1 /\ Waits /\ Text # "RCPT"
        /\ task.kind = "mail" => /\ LineCount = 9 /\ line \in 1..9
                                 /\ Text = "RCPT" <=> line = 3
                                 /\ Waits <=> line \notin 5..7
<1>0. line \in 1..LineCount BY DEF TypeOK
<1>1. CASE task.kind = "check"
  <2>1. LineCount = 1 BY <1>1 DEF Script, LineCount
  <2> QED BY <1>0, <1>1, <2>1 DEF Script, Text, Waits
<1>2. CASE task.kind = "mail"
  <2>1. LineCount = 9 BY <1>2 DEF Script, LineCount
  <2>2. line \in {1, 2, 3, 4, 5, 6, 7, 8, 9} BY <1>0, <2>1
  <2> QED BY <1>2, <2>1, <2>2 DEF Script, Text, Waits
<1> QED BY <1>1, <1>2, Kinds

(* Where the next line is.                                                  *)
LEMMA Advances ==
  ASSUME TypeOK, Advance, task' = task
  PROVE /\ pc' \in {"write", "close"}
        /\ line' \in 1..LineCount /\ aux1' = aux1 /\ aux2' \in 1..(Len(task.mail) + 1)
        /\ task.kind = "check" => pc' = "close" /\ line' = line /\ aux2' = aux2
        /\ task.kind = "mail" /\ line = 3 /\ aux1 <= Len(task.mail) =>
              pc' = "write" /\ line' = line /\ aux2' = aux1 + 1
        /\ task.kind = "mail" /\ (line # 3 \/ aux1 = Len(task.mail) + 1) =>
              /\ aux2' = aux2
              /\ line < 9 => pc' = "write" /\ line' = line + 1
              /\ line = 9 => pc' = "close" /\ line' = line
<1>1. /\ line \in 1..LineCount /\ Len(task.mail) \in Nat
      /\ aux1 \in 1..(Len(task.mail) + 1) /\ aux2 \in 1..(Len(task.mail) + 1)
  BY Kinds DEF TypeOK
<1>2. CASE task.kind = "check"
  <2>1. LineCount = 1 /\ line = 1 /\ Text # "RCPT" BY <1>2, Lines
  <2> QED BY <1>1, <1>2, <2>1 DEF Advance, NextLine
<1>3. CASE task.kind = "mail"
  <2>1. LineCount = 9 /\ line \in 1..9 /\ (Text = "RCPT" <=> line = 3)
    BY <1>3, Lines
  <2> QED BY <1>1, <1>3, <2>1 DEF Advance, NextLine, NextAddress
<1> QED BY <1>1, <1>2, <1>3, Kinds

(* Nothing changes the task.                                                *)
LEMMA TaskKept ==
  ASSUME Next
  PROVE /\ task' = task
        /\ LineCount' = LineCount /\ AddressCount' = AddressCount /\ Limit' = Limit
<1>1. task' = task
  BY DEF Next, Client, Say, Hangup, Tick, NoSocket, ConnectFails, Connect, WriteAndWait, WriteOn,
     WriteFails, Read, EndOfFile, Nothing, Close
<1> QED
  BY <1>1 DEF LineCount, AddressCount, Semicolons, Limit

(* What depends on the task and the place only.                             *)
LEMMA Same ==
  ASSUME UNCHANGED <<task, line, aux2>>
  PROVE /\ (Waits' <=> Waits) /\ Text' = Text /\ To' = To /\ Before' = Before
        /\ Limit' = Limit /\ LineCount' = LineCount /\ AddressCount' = AddressCount
        /\ aux1' = aux1 => (EndsAddress(aux1)' <=> EndsAddress(aux1))
  BY DEF Waits, Text, Before, To, Semicolons, Limit, LineCount, AddressCount, EndsAddress

(* The address of a RCPT line, after what has been named before.            *)
LEMMA Naming ==
  ASSUME TypeOK, NEW e \in aux2..(Len(task.mail) + 1), Len(named) = aux2 - 1
  PROVE LET more == named \o <<"RCPT">> \o SubSeq(task.mail, aux2, e - 1)
        IN  /\ Len(more) = e
            /\ \A i \in 1..e : more[i] = IF i < aux2 THEN named[i]
                                        ELSE IF i = aux2 THEN "RCPT" ELSE task.mail[i - 1]
<1>1. /\ task.mail \in Seq(Chars) /\ Len(task.mail) \in Nat
      /\ named \in Seq(Chars \cup {"RCPT"}) /\ aux2 \in 1..(Len(task.mail) + 1)
      /\ e \in 1..(Len(task.mail) + 1) /\ aux2 <= e
  BY Kinds DEF TypeOK
<1> DEFINE C == Chars \cup {"RCPT"}
           s == SubSeq(task.mail, aux2, e - 1)
           m == named \o <<"RCPT">>
<1>2. /\ s \in Seq(C) /\ Len(s) = e - aux2
      /\ \A i \in 1..(e - aux2) : s[i] = task.mail[aux2 + i - 1]
  <2>1. \A i \in aux2..(e - 1) : task.mail[i] \in C BY <1>1
  <2>2. aux2 \in Int /\ e - 1 \in Int /\ (e - 1) - aux2 + 1 = e - aux2 BY <1>1
  <2> HIDE DEF C
  <2>3. /\ s \in Seq(C) /\ Len(s) = IF aux2 <= e - 1 THEN (e - 1) - aux2 + 1 ELSE 0
        /\ \A i \in 1..((e - 1) - aux2 + 1) : s[i] = task.mail[aux2 + i - 1]
    BY <2>1, <2>2, SubSeqProperties
  <2> HIDE DEF s
  <2> QED BY <1>1, <2>2, <2>3
<1> HIDE DEF s
<1>3. /\ m \in Seq(C) /\ Len(m) = aux2
      /\ \A i \in 1..aux2 : m[i] = IF i < aux2 THEN named[i] ELSE "RCPT"
  BY <1>1
<1> HIDE DEF C, m
<1>4. /\ Len(m \o s) = Len(m) + Len(s)
      /\ \A i \in 1..(Len(m) + Len(s)) : (m \o s)[i] = IF i <= Len(m) THEN m[i] ELSE s[i - Len(m)]
  BY <1>2, <1>3, ConcatProperties
<1>5. Len(m \o s) = e
  BY <1>1, <1>2, <1>3, <1>4
<1>6. ASSUME NEW i \in 1..e
      PROVE (m \o s)[i] = IF i < aux2 THEN named[i] ELSE IF i = aux2 THEN "RCPT" ELSE task.mail[i - 1]
  <2>1. (m \o s)[i] = IF i <= aux2 THEN m[i] ELSE s[i - aux2]
    <3>1. i \in 1..(Len(m) + Len(s)) BY <1>1, <1>2, <1>3
    <3>2. (m \o s)[i] = IF i <= Len(m) THEN m[i] ELSE s[i - Len(m)] BY <1>4, <3>1
    <3> QED BY <1>3, <3>2
  <2>2. CASE i <= aux2
    BY <1>1, <1>3, <2>1, <2>2
  <2>3. CASE ~(i <= aux2)
    <3>1. i - aux2 \in 1..(e - aux2) /\ aux2 + (i - aux2) - 1 = i - 1
      BY <1>1, <2>3
    <3> QED BY <1>1, <1>2, <2>1, <2>3, <3>1
  <2> QED BY <2>2, <2>3
<1> QED
  BY <1>5, <1>6 DEF m, s

(* Types are kept by every step.                                            *)
LEMMA TypeNext == ASSUME TypeOK, Next PROVE TypeOK'
<1>0. /\ task' = task /\ LineCount' = LineCount
      /\ Len(task.mail) \in Nat /\ task.kind \in {"check", "mail"}
  BY TaskKept, Kinds
<1>a. Advance => /\ pc' \in {"write", "close"}
                 /\ line' \in 1..LineCount /\ aux1' = aux1 /\ aux2' \in 1..(Len(task.mail) + 1)
  BY <1>0, Advances
<1> USE <1>0, <1>a DEF TypeOK, peer, place, time
<1>1. CASE Say BY <1>1 DEF Say, Pieces
<1>2. CASE Hangup BY <1>2 DEF Hangup
<1>3. CASE Tick BY <1>3 DEF Tick
<1>4. CASE NoSocket BY <1>4 DEF NoSocket
<1>5. CASE ConnectFails BY <1>5 DEF ConnectFails
<1>6. CASE Connect BY <1>6 DEF Connect
<1>7. CASE WriteAndWait
  <2>1. named' \in Seq(Chars \cup {"RCPT"}) /\ aux1' \in 1..(Len(task.mail) + 1)
    <3>1. CASE Text = "RCPT"
      <4>1. PICK e \in aux2..(Len(task.mail) + 1) :
                aux1' = e /\ named' = named \o <<"RCPT">> \o SubSeq(task.mail, aux2, e - 1)
        BY <1>7, <3>1 DEF WriteAndWait, NameAddress
      <4>2. SubSeq(task.mail, aux2, e - 1) \in Seq(Chars \cup {"RCPT"})
        <5>1. task.mail \in Seq(Chars) BY Kinds
        <5>2. \A i \in aux2..(e - 1) : task.mail[i] \in Chars \cup {"RCPT"} BY <5>1
        <5>3. aux2 \in Int /\ e - 1 \in Int OBVIOUS
        <5> QED BY <5>2, <5>3, SubSeqProperties
      <4> HIDE <1>a
      <4>3. named' \in Seq(Chars \cup {"RCPT"})
        BY <4>1, <4>2
      <4> QED BY <4>1, <4>3
    <3>2. CASE Text # "RCPT" BY <1>7, <3>2 DEF WriteAndWait
    <3> QED BY <3>1, <3>2
  <2> QED BY <1>7, <2>1 DEF WriteAndWait
<1>b. CASE WriteOn BY <1>b DEF WriteOn
<1>8. CASE WriteFails BY <1>8 DEF WriteFails
<1>9. CASE Read BY <1>9 DEF Read
<1>10. CASE EndOfFile BY <1>10 DEF EndOfFile
<1>11. CASE Nothing BY <1>11 DEF Nothing
<1>12. CASE Close BY <1>12 DEF Close
<1> QED
  BY <1>1, <1>2, <1>3, <1>4, <1>5, <1>6, <1>7, <1>b, <1>8, <1>9, <1>10, <1>11, <1>12
  DEF Next, Client

(* The place in the script after an answer that was waited for.             *)
LEMMA PlaceAdvance ==
  ASSUME TypeOK, PlaceInv, pc = "wait", Advance, task' = task, UNCHANGED <<waits, spent>>
  PROVE PlaceInv'
<1>1. /\ line \in 1..LineCount /\ waits \in Nat /\ Len(task.mail) \in Nat
      /\ aux1 \in 1..(Len(task.mail) + 1) /\ aux2 \in 1..(Len(task.mail) + 1)
      /\ task.kind \in {"check", "mail"} /\ AddressCount \in Nat /\ To \in Nat
      /\ AddressCount' = AddressCount
  BY Kinds DEF TypeOK, AddressCount, Semicolons
<1>2. CASE task.kind = "check"
  BY <1>1, <1>2, Advances DEF PlaceInv
<1>3. CASE task.kind = "mail"
  <2>1. line \in 1..9 /\ line \notin 5..7 /\ waits = Before + 1 /\ waits <= AddressCount + 5
    BY <1>1, <1>3, Lines DEF PlaceInv
  <2>2. CASE line = 3 /\ aux1 <= Len(task.mail)
    <3>1. pc' = "write" /\ line' = line /\ aux2' = aux1 + 1
      BY <1>3, <2>2, Advances
    <3>2. Cardinality(Semicolons(aux1)) = Cardinality(Semicolons(aux2 - 1)) + 1
      BY <1>1, <1>3, <2>2, SemicolonNext DEF PlaceInv
    <3>3. To' = To + 1
      <4>1. aux2' - 1 = aux1 BY <1>1, <3>1
      <4>2. To' = Cardinality(Semicolons(aux1)) + 1 BY <4>1 DEF To, Semicolons
      <4> QED BY <3>2, <4>2 DEF To
    <3>4. Before' = Before + 1
      BY <1>1, <2>2, <3>1, <3>3 DEF Before
    <3> QED BY <1>1, <1>3, <2>1, <2>2, <3>1, <3>4 DEF PlaceInv
  <2>3. CASE line = 3 /\ aux1 = Len(task.mail) + 1
    <3>1. pc' = "write" /\ line' = 4 /\ aux2' = aux2
      BY <1>1, <1>3, <2>3, Advances
    <3>2. Cardinality(Semicolons(aux1 - 1)) = Cardinality(Semicolons(aux2 - 1))
      BY <1>1, <1>3, <2>3, SemicolonNext DEF PlaceInv
    <3>3. To = AddressCount
      <4>1. aux1 - 1 = Len(task.mail) BY <1>1, <2>3
      <4> QED BY <3>2, <4>1 DEF To, AddressCount
    <3>4. Before' = waits
      BY <1>1, <2>1, <2>3, <3>1, <3>3 DEF Before
    <3> QED BY <1>1, <1>3, <2>1, <3>1, <3>4 DEF PlaceInv
  <2>4. CASE line # 3
    <3>1. CASE line = 9
      BY <1>1, <1>3, <2>1, <2>4, <3>1, Advances DEF PlaceInv
    <3>2. CASE line < 9
      <4>1. pc' = "write" /\ line' = line + 1 /\ aux2' = aux2
        BY <1>3, <2>4, <3>2, Advances
      <4>2. To' = To BY <4>1 DEF To, Semicolons
      <4>3. Before' = waits
        BY <1>1, <2>1, <2>4, <3>2, <4>1, <4>2 DEF Before
      <4> QED BY <1>1, <1>3, <2>1, <2>4, <3>2, <4>1, <4>3 DEF PlaceInv
    <3> QED BY <2>1, <3>1, <3>2
  <2> QED BY <1>1, <2>2, <2>3, <2>4
<1> QED BY <1>1, <1>2, <1>3

(* The place in the script is kept.                                         *)
LEMMA PlaceNext == ASSUME TypeOK, PlaceInv, Next PROVE PlaceInv'
<1>0. /\ task' = task /\ AddressCount' = AddressCount
      /\ line \in 1..LineCount /\ waits \in Nat /\ spent \in Nat /\ Len(task.mail) \in Nat
      /\ aux1 \in 1..(Len(task.mail) + 1) /\ aux2 \in 1..(Len(task.mail) + 1)
      /\ task.kind \in {"check", "mail"} /\ AddressCount \in Nat
      /\ To \in Nat \ {0} /\ To <= AddressCount /\ (aux2 = 1 => To = 1)
      /\ (task.kind = "check" => Len(task.mail) = 0) /\ Before \in Int
  BY TaskKept, Kinds DEF TypeOK
<1>a. UNCHANGED <<line, aux2, aux1, waits, spent>> /\ (pc' = pc \/ pc' \notin {"connect", "write", "wait"})
        => PlaceInv'
  BY <1>0, Same DEF PlaceInv
<1>b. ASSUME pc' = "close" \/ pc' = "done", UNCHANGED <<waits, line, aux2>> PROVE PlaceInv'
  BY <1>0, <1>b DEF PlaceInv
<1>1. CASE Say \/ Hangup
  BY <1>a, <1>1 DEF Say, Hangup, place, time
<1>3. CASE Tick
  BY <1>0, <1>3, Same DEF Tick, PlaceInv, place
<1>4. CASE NoSocket \/ ConnectFails
  BY <1>b, <1>4 DEF NoSocket, ConnectFails, place
<1>6. CASE Connect
  <2>1. pc = "connect" /\ pc' = "write" /\ UNCHANGED <<line, aux2, aux1, waits, spent>>
    BY <1>6 DEF Connect, place, time
  <2>2. line = 1 /\ waits = 0 /\ aux2 = 1
    BY <1>0, <2>1 DEF PlaceInv
  <2>3. Before' = 0
    BY <1>0, <2>1, <2>2, Same DEF Before
  <2> QED BY <1>0, <2>1, <2>2, <2>3 DEF PlaceInv
<1>7. CASE WriteAndWait
  <2>1. UNCHANGED <<task, line, aux2>> /\ pc = "write" /\ pc' = "wait" /\ waits' = waits + 1 /\ Waits
    BY <1>7 DEF WriteAndWait
  <2>2. Waits' /\ Before' = Before /\ To' = To BY <2>1, Same
  <2>3. waits = Before BY <1>0, <2>1 DEF PlaceInv
  <2>4. waits' <= IF task.kind = "check" THEN 1 ELSE AddressCount + 5
    <3>1. CASE task.kind = "check"
      <4>1. line = 1 /\ aux2 = 1 BY <1>0, <3>1, Lines
      <4> QED BY <1>0, <2>1, <2>3, <3>1, <4>1 DEF Before
    <3>2. CASE task.kind = "mail"
      <4>1. line \in 1..9 BY <3>2, Lines
      <4> QED BY <1>0, <2>1, <2>3, <3>2, <4>1 DEF Before
    <3> QED BY <1>0, <3>1, <3>2
  <2>5. waits' = Before' + 1 BY <2>1, <2>2, <2>3
  <2>6. task.kind = "mail" /\ line = 3 => aux2' <= aux1' /\ EndsAddress(aux1)'
    <3> SUFFICES ASSUME task.kind = "mail", line = 3 PROVE aux2' <= aux1' /\ EndsAddress(aux1)'
      OBVIOUS
    <3>1. Text = "RCPT" BY Lines
    <3>2. PICK e \in aux2..(Len(task.mail) + 1) : EndsAddress(e) /\ aux1' = e
      BY <1>7, <3>1 DEF WriteAndWait, NameAddress
    <3> QED BY <1>0, <2>1, <3>2 DEF EndsAddress
  <2> QED BY <1>0, <2>1, <2>2, <2>4, <2>5, <2>6 DEF PlaceInv
<1>c. CASE WriteOn
  <2>1. ~Waits /\ Advance /\ waits' = waits /\ pc = "write"
    BY <1>c DEF WriteOn
  <2>2. task.kind = "mail" /\ line \in 5..7
    BY <1>0, <2>1, Lines
  <2>3. pc' = "write" /\ line' = line + 1 /\ aux2' = aux2
    BY <1>0, <2>1, <2>2, Advances
  <2>4. waits = Before /\ waits <= AddressCount + 5
    BY <1>0, <2>1, <2>2 DEF PlaceInv
  <2> QED BY <1>0, <2>1, <2>2, <2>3, <2>4 DEF PlaceInv, Before
<1>8. CASE WriteFails
  BY <1>b, <1>8 DEF WriteFails, place
<1>9. CASE Read
  <2>1. CASE task.kind = "check" BY <1>b, <1>9, <2>1 DEF Read, place
  <2>2. CASE task.kind = "mail" BY <1>9, <2>2, PlaceAdvance DEF Read, time
  <2> QED BY <1>0, <2>1, <2>2
<1>10. CASE EndOfFile
  <2>1. CASE task.kind = "check" BY <1>b, <1>10, <2>1 DEF EndOfFile, place
  <2>2. CASE task.kind = "mail" BY <1>10, <2>2, PlaceAdvance DEF EndOfFile, time
  <2> QED BY <1>0, <2>1, <2>2
<1>11. CASE Nothing
  BY <1>a, <1>11 DEF Nothing, place
<1>12. CASE Close
  BY <1>b, <1>12 DEF Close, place
<1> QED
  BY <1>1, <1>3, <1>4, <1>6, <1>7, <1>c, <1>8, <1>9, <1>10, <1>11, <1>12 DEF Next, Client

(* The time of one more wait.                                               *)
LEMMA OneMore ==
  ASSUME NEW n \in Nat, NEW m \in Nat, n > 0
  PROVE /\ n * m = (n - 1) * m + m /\ n * m \in Nat /\ (n - 1) * m \in Nat
        /\ (n + 1) * m = n * m + m
  OBVIOUS

(* So are the bounds of the clock.                                          *)
LEMMA TimeNext == ASSUME TypeOK, PlaceInv, TimeInv, Next PROVE TimeInv'
<1>0. Limit \in Nat /\ UNCHANGED task /\ Limit' = Limit BY Kinds, TaskKept
<1>a. waits > 0 => /\ waits * (Limit + 1) = (waits - 1) * (Limit + 1) + (Limit + 1)
                   /\ waits * (Limit + 1) \in Nat /\ (waits - 1) * (Limit + 1) \in Nat
  BY <1>0, OneMore DEF TypeOK
<1>b. Advance => pc' \in {"write", "close"}
  BY <1>0, Advances
<1> USE <1>0, <1>b DEF TypeOK, TimeInv, peer, place, time
<1>1. CASE Say BY <1>1 DEF Say
<1>2. CASE Hangup BY <1>2 DEF Hangup
<1>3. CASE Tick BY <1>3 DEF Tick
<1>4. CASE NoSocket BY <1>4 DEF NoSocket
<1>5. CASE ConnectFails BY <1>5 DEF ConnectFails
<1>6. CASE Connect BY <1>6 DEF Connect
<1>7. CASE WriteAndWait
  <2>1. waits' = waits + 1 /\ spent' = spent /\ elapsed' = 0 /\ polled' = 0 /\ pc' = "wait"
    BY <1>7 DEF WriteAndWait
  <2>2. spent <= waits * (Limit + 1) BY <1>7 DEF WriteAndWait
  <2> QED BY <2>1, <2>2
<1>c. CASE WriteOn BY <1>c DEF WriteOn
<1>8. CASE WriteFails BY <1>8 DEF WriteFails
<1>9. CASE Read BY <1>9, <1>a DEF Read
<1>10. CASE EndOfFile BY <1>10, <1>a DEF EndOfFile
<1>11. CASE Nothing BY <1>11, <1>a DEF Nothing
<1>12. CASE Close BY <1>12 DEF Close
<1> QED
  BY <1>1, <1>2, <1>3, <1>4, <1>5, <1>6, <1>7, <1>c, <1>8, <1>9, <1>10, <1>11, <1>12 DEF Next, Client

(* The dialogue does not run ahead.                                         *)
LEMMA PaceNext == ASSUME TypeOK, PlaceInv, PaceInv, Next PROVE PaceInv'
<1>0. Advance /\ task' = task => pc' \in {"write", "close"}
  BY Advances
<1> USE <1>0 DEF TypeOK, PaceInv, PlaceInv, peer, place, time
<1>1. CASE Say BY <1>1 DEF Say
<1>2. CASE Hangup BY <1>2 DEF Hangup
<1>3. CASE Tick BY <1>3 DEF Tick
<1>4. CASE NoSocket BY <1>4 DEF NoSocket
<1>5. CASE ConnectFails BY <1>5 DEF ConnectFails
<1>6. CASE Connect BY <1>6 DEF Connect
<1>7. CASE WriteAndWait BY <1>7 DEF WriteAndWait
<1>b. CASE WriteOn BY <1>b DEF WriteOn
<1>8. CASE WriteFails BY <1>8 DEF WriteFails
<1>9. CASE Read BY <1>9 DEF Read
<1>10. CASE EndOfFile BY <1>10 DEF EndOfFile
<1>11. CASE Nothing BY <1>11 DEF Nothing
<1>12. CASE Close BY <1>12 DEF Close
<1> QED
  BY <1>1, <1>2, <1>3, <1>4, <1>5, <1>6, <1>7, <1>b, <1>8, <1>9, <1>10, <1>11, <1>12 DEF Next, Client

(* The addresses named after an answer that was waited for.                 *)
LEMMA NameAdvance ==
  ASSUME TypeOK, PlaceInv, NameInv, pc \in {"write", "wait"}, pc = "write" => ~Waits,
         Advance, task' = task, named' = named
  PROVE NameInv'
<1> SUFFICES ASSUME task.kind = "mail" PROVE NameInv'
  BY DEF NameInv
<1>1. /\ line \in 1..9 /\ (pc = "write" => line \in 5..7) /\ Len(task.mail) \in Nat
      /\ aux1 \in 1..(Len(task.mail) + 1) /\ Len(named) \in Nat
  BY Lines, Kinds DEF TypeOK
<1>2. \A i : Named(i)' = Named(i)
  BY DEF Named
<1>3. pc' \in {"write", "close"} /\ \A i \in 1..Len(named) : named[i] = Named(i)
  BY Advances DEF NameInv
<1>4. CASE line = 3 /\ aux1 <= Len(task.mail)
  <2>1. pc' = "write" /\ line' = line /\ aux2' = aux1 + 1
    BY <1>4, Advances
  <2>2. Len(named) = aux1 /\ task.mail[aux1] = Semicolon
    BY <1>1, <1>4 DEF NameInv, PlaceInv, EndsAddress
  <2> QED BY <1>1, <1>2, <1>3, <1>4, <2>1, <2>2 DEF NameInv
<1>5. CASE line = 3 /\ aux1 = Len(task.mail) + 1
  <2>1. pc' = "write" /\ line' = 4
    BY <1>5, Advances
  <2>2. Len(named) = Len(task.mail) + 1
    BY <1>1, <1>5 DEF NameInv
  <2> QED BY <1>1, <1>2, <1>3, <2>1, <2>2 DEF NameInv
<1>6. CASE line # 3
  <2>1. /\ aux2' = aux2 /\ (line < 9 => pc' = "write" /\ line' = line + 1)
        /\ (line = 9 => pc' = "close")
    BY <1>6, Advances
  <2>2. line < 3 => aux2 = 1
    BY DEF PlaceInv
  <2>3. Len(named) = IF line < 3 THEN 0 ELSE Len(task.mail) + 1
    BY <1>1, <1>6 DEF NameInv
  <2> QED BY <1>1, <1>2, <1>3, <1>6, <2>1, <2>2, <2>3 DEF NameInv
<1> QED BY <1>1, <1>4, <1>5, <1>6

(* The addresses are named one after another.                               *)
LEMMA NameNext == ASSUME TypeOK, PlaceInv, NameInv, Next PROVE NameInv'
<1>0. task' = task /\ task.kind \in {"check", "mail"} /\ Len(task.mail) \in Nat
  BY TaskKept, Kinds
<1>a. \A i : Named(i)' = Named(i)
  BY <1>0 DEF Named
<1>b. UNCHANGED <<line, aux2, aux1, named>> /\ (pc' = pc \/ pc' \notin {"connect", "write", "wait"})
        => NameInv'
  BY <1>0, <1>a DEF NameInv
<1>1. CASE Say \/ Hangup \/ Tick
  BY <1>b, <1>1 DEF Say, Hangup, Tick, place
<1>4. CASE NoSocket \/ ConnectFails \/ WriteFails \/ Nothing \/ Close
  BY <1>b, <1>4 DEF NoSocket, ConnectFails, WriteFails, Nothing, Close, place
<1>6. CASE Connect
  <2> SUFFICES ASSUME task.kind = "mail" PROVE NameInv'
    BY <1>0 DEF NameInv
  <2>1. pc' = "write" /\ line' = 1 /\ named' = <<>>
    BY <1>6 DEF Connect, place, PlaceInv, NameInv
  <2> QED BY <2>1 DEF NameInv
<1>7. CASE WriteAndWait
  <2> SUFFICES ASSUME task.kind = "mail" PROVE NameInv'
    BY <1>0 DEF NameInv
  <2>1. UNCHANGED <<line, aux2>> /\ pc = "write" /\ pc' = "wait"
    BY <1>7 DEF WriteAndWait
  <2>2. CASE line = 3
    <3>1. Text = "RCPT" /\ aux2 \in 1..(Len(task.mail) + 1)
      BY <2>2, Lines DEF TypeOK
    <3>2. PICK e \in aux2..(Len(task.mail) + 1) :
              /\ EndsAddress(e) /\ aux1' = e
              /\ named' = named \o <<"RCPT">> \o SubSeq(task.mail, aux2, e - 1)
      BY <1>7, <3>1 DEF WriteAndWait, NameAddress
    <3>3. /\ Len(named) = aux2 - 1 /\ (aux2 = 1 \/ task.mail[aux2 - 1] = Semicolon)
          /\ \A i \in 1..Len(named) : named[i] = Named(i)
      BY <2>1, <2>2 DEF NameInv
    <3>4. /\ Len(named') = e
          /\ \A i \in 1..e : named'[i] = IF i < aux2 THEN named[i]
                                        ELSE IF i = aux2 THEN "RCPT" ELSE task.mail[i - 1]
      BY <3>2, <3>3, Naming
    <3>5. ASSUME NEW i \in 1..e PROVE named'[i] = Named(i)
      <4>1. CASE i < aux2 BY <3>1, <3>3, <3>4, <4>1
      <4>2. CASE i = aux2 BY <3>1, <3>3, <3>4, <4>2 DEF Named
      <4>3. CASE i > aux2
        <5>1. i - 1 \in aux2..(e - 1) /\ i # 1 BY <3>1, <4>3
        <5>2. task.mail[i - 1] # Semicolon BY <3>2, <5>1 DEF EndsAddress
        <5> QED BY <3>1, <3>4, <4>3, <5>1, <5>2 DEF Named
      <4> QED BY <3>1, <4>1, <4>2, <4>3
    <3>6. Len(named') = aux1' /\ \A i \in 1..Len(named') : named'[i] = Named(i)'
      BY <1>a, <3>2, <3>4, <3>5
    <3> QED BY <1>0, <2>1, <2>2, <3>6 DEF NameInv
  <2>3. CASE line # 3
    <3>1. named' = named
      BY <1>7, <2>3, Lines DEF WriteAndWait
    <3>2. \A i \in 1..Len(named') : named'[i] = Named(i)'
      BY <1>a, <2>1, <3>1 DEF NameInv
    <3>3. Len(named) = IF line < 3 THEN 0 ELSE IF line > 3 THEN Len(task.mail) + 1 ELSE aux2 - 1
      BY <2>1 DEF NameInv
    <3>4. line \in 1..9 BY Lines
    <3> QED BY <1>0, <2>1, <2>3, <3>1, <3>2, <3>3, <3>4 DEF NameInv
  <2> QED BY <2>2, <2>3
<1>c. CASE WriteOn
  BY <1>0, <1>c, NameAdvance DEF WriteOn
<1>9. CASE Read
  <2>1. CASE task.kind = "check" BY <1>0, <2>1 DEF NameInv
  <2>2. CASE task.kind = "mail" BY <1>0, <1>9, <2>2, NameAdvance DEF Read
  <2> QED BY <1>0, <2>1, <2>2
<1>10. CASE EndOfFile
  <2>1. CASE task.kind = "check" BY <1>0, <2>1 DEF NameInv
  <2>2. CASE task.kind = "mail" BY <1>0, <1>10, <2>2, NameAdvance DEF EndOfFile
  <2> QED BY <1>0, <2>1, <2>2
<1> QED
  BY <1>1, <1>4, <1>6, <1>7, <1>c, <1>9, <1>10 DEF Next, Client

(* The verdict of a check is that of what it read.                          *)
LEMMA VerdictNext == ASSUME TypeOK, VerdictInv, Next PROVE VerdictInv'
<1> USE Kinds, Advances DEF TypeOK, VerdictInv, Begins, peer, place, time
<1>1. CASE Say BY <1>1 DEF Say
<1>2. CASE Hangup BY <1>2 DEF Hangup
<1>3. CASE Tick BY <1>3 DEF Tick
<1>4. CASE NoSocket BY <1>4 DEF NoSocket
<1>5. CASE ConnectFails BY <1>5 DEF ConnectFails
<1>6. CASE Connect BY <1>6 DEF Connect
<1>7. CASE WriteAndWait BY <1>7 DEF WriteAndWait
<1>b. CASE WriteOn BY <1>b, Lines DEF WriteOn
<1>8. CASE WriteFails BY <1>8 DEF WriteFails
<1>9. CASE Read BY <1>9 DEF Read, Expected
<1>10. CASE EndOfFile BY <1>10 DEF EndOfFile
<1>11. CASE Nothing BY <1>11 DEF Nothing
<1>12. CASE Close BY <1>12 DEF Close
<1> QED
  BY <1>1, <1>2, <1>3, <1>4, <1>5, <1>6, <1>7, <1>b, <1>8, <1>9, <1>10, <1>11, <1>12 DEF Next, Client

(* The whole invariant holds throughout.                                    *)
LEMMA Invariant == Spec => []Inv
<1>1. Init => Inv
  <2> SUFFICES ASSUME Init PROVE Inv OBVIOUS
  <2>1. task \in Tasks /\ task.kind \in {"check", "mail"} /\ Len(task.mail) \in Nat
    BY ListAssumption DEF Init, Tasks
  <2>2. TypeOK
    <3>1. LineCount \in {1, 9} BY <2>1 DEF Script, LineCount
    <3> QED BY <2>1, <3>1 DEF Init, TypeOK
  <2>3. PlaceInv
    BY <2>1, <2>2, Kinds DEF Init, PlaceInv
  <2>4. TimeInv /\ PaceInv /\ NameInv /\ VerdictInv
    BY <2>2, Kinds DEF Init, TimeInv, PaceInv, NameInv, VerdictInv
  <2> QED BY <2>2, <2>3, <2>4 DEF Inv
<1>2. Inv /\ Next => Inv'
  BY TypeNext, PlaceNext, TimeNext, PaceNext, NameNext, VerdictNext DEF Inv
<1>3. Inv /\ UNCHANGED vars => Inv'
  <2> SUFFICES ASSUME Inv, UNCHANGED vars PROVE Inv' OBVIOUS
  <2> USE Same DEF Inv, vars, peer, place, time
  <2>1. TypeOK' BY DEF TypeOK
  <2>2. PlaceInv' BY DEF PlaceInv
  <2>3. TimeInv' BY DEF TimeInv
  <2>4. PaceInv' /\ NameInv' BY DEF PaceInv, NameInv, Named
  <2>5. VerdictInv' BY DEF VerdictInv, Begins
  <2> QED BY <2>1, <2>2, <2>3, <2>4, <2>5
<1> QED BY <1>1, <1>2, <1>3, PTL DEF Spec

-----------------------------------------------------------------------------
(* Types, for every peer.                                                   *)
THEOREM TypeCorrect == Spec => []TypeOK
<1>1. Inv => TypeOK BY DEF Inv
<1> QED BY Invariant, <1>1, PTL

(* No check passes without the message it expects at the start of what      *)
(* arrived first.                                                           *)
THEOREM CheckPassedIsExpected == Spec => []PassedIsExpected
<1>1. Inv => PassedIsExpected BY DEF Inv, VerdictInv, Begins, PassedIsExpected
<1> QED BY Invariant, <1>1, PTL

(* No mail server that is there is written more lines to than it has said   *)
(* things.                                                                  *)
THEOREM InLockStep == Spec => []LockStep
<1>1. Inv => LockStep BY DEF Inv, TypeOK, PaceInv, LockStep
<1> QED BY Invariant, <1>1, PTL

(* Whatever the length of the list, the text of a mail goes out only after  *)
(* all its addresses, in their order.                                       *)
THEOREM NobodyForgotten == Spec => []EveryoneNamed
<1>1. Inv => EveryoneNamed
  <2> SUFFICES ASSUME Inv, task.kind = "mail", pc \in {"write", "wait"}, line > 3
               PROVE EveryoneNamed
    BY DEF EveryoneNamed
  <2> DEFINE C == Chars \cup {"RCPT"}
             list == [i \in 1..Len(task.mail) |-> IF task.mail[i] = Semicolon THEN "RCPT" ELSE task.mail[i]]
  <2>1. named \in Seq(C) /\ task.mail \in Seq(Chars) /\ Len(task.mail) \in Nat
    BY Kinds DEF Inv, TypeOK
  <2>2. Len(named) = Len(task.mail) + 1 /\ \A i \in 1..Len(named) : named[i] = Named(i)
    BY DEF Inv, TypeOK, NameInv
  <2>3. list \in Seq(C) /\ Len(list) = Len(task.mail)
    <3>1. \A i \in 1..Len(task.mail) : list[i] \in C BY <2>1
    <3> QED BY <2>1, <3>1
  <2>4. /\ <<"RCPT">> \o list \in Seq(C) /\ Len(<<"RCPT">> \o list) = Len(task.mail) + 1
        /\ \A i \in 1..(Len(task.mail) + 1) :
              (<<"RCPT">> \o list)[i] = IF i = 1 THEN "RCPT" ELSE list[i - 1]
    <3>1. <<"RCPT">> \in Seq(C) /\ Len(<<"RCPT">>) = 1 /\ <<"RCPT">>[1] = "RCPT" OBVIOUS
    <3> HIDE DEF C, list
    <3>2. /\ <<"RCPT">> \o list \in Seq(C)
          /\ Len(<<"RCPT">> \o list) = Len(<<"RCPT">>) + Len(list)
          /\ \A i \in 1..(Len(<<"RCPT">>) + Len(list)) :
                (<<"RCPT">> \o list)[i] =
                    IF i <= Len(<<"RCPT">>) THEN <<"RCPT">>[i] ELSE list[i - Len(<<"RCPT">>)]
      BY <2>3, <3>1, ConcatProperties
    <3> QED BY <2>1, <2>3, <3>1, <3>2
  <2>5. ASSUME NEW i \in 1..Len(named) PROVE named[i] = (<<"RCPT">> \o list)[i]
    <3>1. i \in 1..(Len(task.mail) + 1) BY <2>2
    <3>2. i # 1 => list[i - 1] = IF task.mail[i - 1] = Semicolon THEN "RCPT" ELSE task.mail[i - 1]
      BY <2>1, <3>1
    <3> HIDE DEF list
    <3> QED BY <2>2, <2>4, <3>1, <3>2 DEF Named
  <2> HIDE DEF C, list
  <2>6. named = <<"RCPT">> \o list
    BY <2>1, <2>2, <2>4, <2>5, SeqEqual
  <2> QED BY <2>6 DEF EveryoneNamed, list
<1> QED BY Invariant, <1>1, PTL

(* However a peer behaves, all the waits of a dialogue together take no     *)
(* more than their limits and a tick each.                                  *)
THEOREM DialogueInTime == Spec => []InTime
<1>1. Inv => InTime
  <2> SUFFICES ASSUME Inv PROVE InTime OBVIOUS
  <2>0. Limit \in Nat /\ AddressCount \in Nat /\ task.kind \in {"check", "mail"}
    BY Kinds DEF Inv
  <2> DEFINE most == IF task.kind = "check" THEN 1 ELSE AddressCount + 5
  <2>1. waits \in Nat /\ spent \in Nat /\ most \in Nat /\ waits <= most
    BY <2>0 DEF Inv, TypeOK, PlaceInv
  <2>2. spent <= waits * (Limit + 1)
    <3>1. CASE pc = "wait"
      <4>1. waits * (Limit + 1) = (waits - 1) * (Limit + 1) + (Limit + 1)
        BY <2>0, <2>1, <3>1, OneMore DEF Inv, TimeInv
      <4> QED BY <2>0, <2>1, <3>1, <4>1 DEF Inv, TypeOK, TimeInv
    <3>2. CASE pc # "wait" BY <3>2 DEF Inv, TimeInv
    <3> QED BY <3>1, <3>2
  <2>3. waits * (Limit + 1) <= most * (Limit + 1)
    <3> HIDE DEF most
    <3> QED BY <2>0, <2>1
  <2>4. waits * (Limit + 1) \in Nat /\ most * (Limit + 1) \in Nat
    <3> HIDE DEF most
    <3> QED BY <2>0, <2>1
  <2> HIDE DEF most
  <2>5. spent <= most * (Limit + 1) BY <2>1, <2>2, <2>3, <2>4
  <2> QED BY <2>5 DEF InTime, most
<1> QED BY Invariant, <1>1, PTL
-----------------------------------------------------------------------------
(* The socket is open from the connection to the close, and the return that *)
(* closes nothing is that of a check that has not waited.                   *)
SocketInv == /\ pc \in {"write", "wait", "close"} => fd = "open"
             /\ pc = "done" /\ waits > 0 => fd = "closed"

LEMMA SocketNext == Inv /\ SocketInv /\ [Next]_vars => SocketInv'
<1> SUFFICES ASSUME Inv, SocketInv, [Next]_vars PROVE SocketInv'
  OBVIOUS
<1> USE DEF SocketInv
<1>1. CASE UNCHANGED <<pc, fd, waits>>
  BY <1>1
<1>2. CASE NoSocket \/ ConnectFails
  <2>1. waits = 0 /\ waits' = waits /\ pc' = "done"
    BY <1>2 DEF NoSocket, ConnectFails, Inv, PlaceInv
  <2> QED
    BY <2>1
<1>3. CASE Connect \/ Close
  BY <1>3 DEF Connect, Close
<1>4. CASE WriteAndWait \/ WriteOn \/ Read \/ EndOfFile
  <2>1. pc' \in {"write", "wait", "close"}
    BY <1>4 DEF WriteAndWait, WriteOn, Read, EndOfFile, Advance, NextLine, NextAddress
  <2>2. pc \in {"write", "wait"} /\ fd' = fd
    BY <1>4 DEF WriteAndWait, WriteOn, Read, EndOfFile
  <2> QED
    BY <2>1, <2>2
<1>5. CASE WriteFails
  <2>1. CASE task.kind = "check"
    <3>1. TypeOK
      BY DEF Inv
    <3>2. line = 1 /\ To = 1
      BY <2>1, <3>1, Lines, Kinds DEF TypeOK
    <3>3. waits = 0
      BY <1>5, <3>2 DEF WriteFails, Inv, PlaceInv, Before
    <3> QED
      BY <1>5, <2>1, <3>3 DEF WriteFails
  <2>2. CASE task.kind # "check"
    BY <1>5, <2>2 DEF WriteFails
  <2> QED
    BY <2>1, <2>2
<1>6. CASE Nothing
  BY <1>6 DEF Nothing
<1>7. Tick \/ Say \/ Hangup \/ UNCHANGED vars => UNCHANGED <<pc, fd, waits>>
  BY DEF Tick, Say, Hangup, vars
<1> QED
  BY <1>1, <1>2, <1>3, <1>4, <1>5, <1>6, <1>7 DEF Next, Client

(* However long the list and whatever the peer does, a socket that has been *)
(* waited on is given back: the half of SocketReturned that needs no        *)
(* fairness.                                                                *)
THEOREM NoSocketLost == Spec => []SocketKept
<1>1. Init => SocketInv
  BY DEF Init, SocketInv
<1>2. Inv /\ SocketInv => SocketKept
  <2> SUFFICES ASSUME Inv, SocketInv, waits > 0
               PROVE fd = (IF pc = "done" THEN "closed" ELSE "open")
    BY DEF SocketKept
  <2>1. pc \in {"connect", "write", "wait", "close", "done"} /\ (pc = "connect" => waits = 0)
    BY DEF Inv, TypeOK, PlaceInv
  <2> QED
    BY <2>1 DEF SocketInv
<1> QED
  BY Invariant, <1>1, <1>2, SocketNext, PTL DEF Spec
=============================================================================
