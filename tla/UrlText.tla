------------------------------- MODULE UrlText -------------------------------
(***************************************************************************)
(* The text of a URL and of a chunk's length, taken apart as src/https.cpp *)
(* does: parseURL with getIndexOf, and atoh.  A text is a sequence of      *)
(* characters, those between "http" and the path being of any kind; what   *)
(* parseURL finds depends on the places of a few of them only: the fifth   *)
(* one, the slashes, and the colon.                                        *)
(*                                                                         *)
(* A behaviour takes one input apart.  The inputs are the URLs and lengths *)
(* that parts and digits make up, so that what should be found is known.   *)
(***************************************************************************)
EXTENDS Integers, Sequences, FiniteSetsExt, SequencesExt

CONSTANTS
    Chars,  \* characters
    Hosts,  \* hosts
    Ports,  \* ports, <<>> for none given
    Paths,  \* paths, <<>> for none given
    Blanks, \* what may precede a length
    Tails,  \* what may follow it
    Digits, \* characters the digits of a length are taken from
    MaxDigits,
    Modulus \* how many values an unsigned int has

(* What a digit counts, in either case. *)
Numerals == <<"0", "1", "2", "3", "4", "5", "6", "7", "8", "9", "a", "b", "c", "d", "e", "f">>
Capitals == <<"A", "B", "C", "D", "E", "F">>
Value == [c \in Range(Numerals) \cup Range(Capitals) |->
            IF c \in Range(Capitals) THEN 9 + CHOOSE i \in 1..6 : Capitals[i] = c
            ELSE (CHOOSE i \in 1..16 : Numerals[i] = c) - 1]

IsDigit(c, base) == c \in DOMAIN Value /\ Value[c] < base

Spaces == {" ", "\t"}

ASSUME CharAssumption == DOMAIN Value \cup Spaces \cup {"h", "t", "p", "s", ":", "/", "x", "X"} \subseteq Chars

(* A host has neither slash nor colon, a port is made of decimal digits (as *)
(* many as port[10] in parseURL holds), and a path begins with a slash.     *)
ASSUME UrlAssumption ==
    /\ \A h \in Hosts : h \in Seq(Chars) /\ \A i \in 1..Len(h) : h[i] \notin {"/", ":"}
    /\ \A p \in Ports : /\ p \in Seq(Chars) /\ Len(p) <= 9
                       /\ \A i \in 1..Len(p) : IsDigit(p[i], 10)
    /\ \A p \in Paths : p \in Seq(Chars) /\ (p # <<>> => p[1] = "/")

(* What follows a length does not go on like one.                           *)
ASSUME LengthAssumption ==
    /\ \A b \in Blanks : b \in Seq(Chars) /\ \A i \in 1..Len(b) : b[i] \in Spaces
    /\ \A t \in Tails : t \in Seq(Chars) /\ (t # <<>> => ~IsDigit(t[1], 16) /\ t[1] \notin {"x", "X"})
    /\ Digits \subseteq DOMAIN Value
    /\ MaxDigits \in Nat /\ Modulus \in Nat \ {0}

Protocols == {<<"h", "t", "t", "p">>, <<"h", "t", "t", "p", "s">>}

Urls == [kind : {"url"}, proto : Protocols, host : Hosts, port : Ports, path : Paths]
Lengths == [kind : {"length"}, blank : Blanks, prefix : {<<>>, <<"0", "x">>, <<"0", "X">>},
            digits : BoundedSeq(Digits, MaxDigits) \ {<<>>}, tail : Tails]

VARIABLES
    input,
    output \* <<>>, then what was found
vars == <<input, output>>

Init == input \in Urls \cup Lengths /\ output = <<>>

-----------------------------------------------------------------------------
(* The text of an input. *)
Text(i) == IF i.kind = "url"
           THEN i.proto \o <<":", "/", "/">> \o i.host
                  \o (IF i.port = <<>> THEN <<>> ELSE <<":">> \o i.port) \o i.path
           ELSE i.blank \o i.prefix \o i.digits \o i.tail

(* A slip: the count is tested before this character counts. *)
GetIndexOfLate(text, d, times) ==
    LET before(i) == Cardinality({j \in 1..i - 1 : text[j] = d})
        found == {i \in 1..Len(text) : before(i) = times}
    IN  IF found = {} THEN -1 ELSE Min(found) - 1

(* The index, from 0, by which d has occurred so many times; -1 if never. *)
GetIndexOf(text, d, times) ==
    LET sofar(i) == Cardinality({j \in 1..i : text[j] = d})
        found == {i \in 1..Len(text) : sofar(i) = times}
    IN  IF found = {} THEN -1 ELSE Min(found) - 1

(* The longest beginning whose characters are all digits of that base. *)
Leading(text, base) ==
    SubSeq(text, 1, Max({n \in 0..Len(text) : \A i \in 1..n : IsDigit(text[i], base)}))

(* n after the loop over the digits, each of which makes a Step. *)
Accumulate(digits, Step(_, _)) ==
    LET n[i \in 0..Len(digits)] == IF i = 0 THEN 0 ELSE Step(n[i - 1], Value[digits[i]])
    IN  n[Len(digits)]

Atoi(text) == Accumulate(Leading(text, 10), LAMBDA n, v : n * 10 + v)

(* The host ends at the third slash, or with the text; a colon in it is     *)
(* that of the port.                                                        *)
ParseURL(text) ==
    LET fslash == IF text[5] = "s" THEN 5 ELSE 4
        third == GetIndexOf(text, "/", 3)
        slash == IF third = -1 THEN Len(text) ELSE third
        host == SubSeq(text, fslash + 4, slash)
        colon == GetIndexOf(host, ":", 1)
    IN  [host |-> IF colon = -1 THEN host ELSE SubSeq(host, 1, colon),
         port |-> IF colon # -1 THEN Atoi(SubSeq(host, colon + 2, Len(host)))
                  ELSE IF fslash = 5 THEN 443 ELSE 80,
         path |-> IF third = -1 THEN <<"/">> ELSE SubSeq(text, slash + 1, Len(text))]

(* Where the first character that is not blank stands. *)
Start(text) == Min({i \in 1..Len(text) + 1 : i > Len(text) \/ text[i] \notin Spaces})

(* A slip: the 0x is not skipped, and its x ends the number. *)
AtohPlain(text) ==
    Accumulate(Leading(SubSeq(text, Start(text), Len(text)), 16), LAMBDA n, v : (n * 16 + v) % Modulus)

(* Blanks and an 0x are skipped; n is an unsigned int.                      *)
Atoh(text) ==
    LET start == Start(text)
        prefixed == start < Len(text) /\ text[start] = "0" /\ text[start + 1] \in {"x", "X"}
        digits == SubSeq(text, IF prefixed THEN start + 2 ELSE start, Len(text))
    IN  Accumulate(Leading(digits, 16), LAMBDA n, v : (n * 16 + v) % Modulus)

-----------------------------------------------------------------------------
ParseUrl == /\ output = <<>> /\ input.kind = "url"
            /\ output' = <<ParseURL(Text(input))>>
            /\ input' = input

ParseLength == /\ output = <<>> /\ input.kind = "length"
               /\ output' = <<Atoh(Text(input))>>
               /\ input' = input

Next == ParseUrl \/ ParseLength

Spec == Init /\ [][Next]_vars

-----------------------------------------------------------------------------
(* The number that digits stand for: from the last to the first, each is   *)
(* worth its place.                                                         *)
NumberOf(digits, base) ==
    LET place[k \in 0..Len(digits)] == IF k = 0 THEN 1 ELSE place[k - 1] * base
        sum[k \in 0..Len(digits)] ==
            IF k = 0 THEN 0 ELSE sum[k - 1] + Value[digits[Len(digits) + 1 - k]] * place[k - 1]
    IN  sum[Len(digits)]

(* The probe goes to the host, the port and the path the URL was made of,   *)
(* whatever slashes and colons the path has: the port of the protocol when  *)
(* none is given, and the root when there is no path.                       *)
UrlUnderstood ==
    output # <<>> /\ input.kind = "url" =>
        output[1] = [host |-> input.host,
                     port |-> IF input.port # <<>> THEN NumberOf(input.port, 10)
                              ELSE IF Len(input.proto) = 5 THEN 443 ELSE 80,
                     path |-> IF input.path = <<>> THEN <<"/">> ELSE input.path]

(* The length of a chunk is the number its hexadecimal digits stand for, in *)
(* either case and up to the width of an unsigned int, whatever stands      *)
(* before and after them.                                                   *)
LengthUnderstood ==
    output # <<>> /\ input.kind = "length" =>
        output[1] = NumberOf(input.digits, 16) % Modulus
=============================================================================
