---------------------------- MODULE OutageAlerts ----------------------------
(***************************************************************************)
(* When the operators get an e-mail about an application that stays down:  *)
(* a first one after some repeated failures, and from then on one each     *)
(* time the application has been found down as often as the configuration  *)
(* says.  A countdown says it: each verdict "Error" that repeats the one   *)
(* before takes one step, the last step sends the mail and starts the      *)
(* countdown anew.  A recovery neither sends a mail nor touches the        *)
(* countdown; only loading the configuration again does.                   *)
(*                                                                         *)
(* The help page (bin/eclsshelp.xsl:181) has the first mail when the       *)
(* counter reaches 3, a comment (handler.cpp:550) at each fourth time; the *)
(* countdown may begin anywhere up to the later of the two.                *)
(***************************************************************************)
EXTENDS Integers

CONSTANTS Apps,     \* the monitored applications
          NoVerdict \* an application not judged since the configuration was read

VARIABLES verdict,  \* the last verdict on each application
          period,   \* "alerthits" of the configuration in force
          left,     \* repeated errors until the next mail
          mails     \* mails sent about each application

vars == <<verdict, period, left, mails>>

(* Repetitions until the first mail, none with no period. *)
FirstAlerts(p) == IF p = 0 THEN {0} ELSE 1..4

Init == /\ verdict = [a \in Apps |-> NoVerdict]
        /\ period = 0
        /\ left = [a \in Apps |-> 0]
        /\ mails = [a \in Apps |-> 0]

(* The configuration is read or dropped: nothing is known any more. *)
Load == /\ verdict' = [a \in Apps |-> NoVerdict]
        /\ period' \in Nat
        /\ \E first \in FirstAlerts(period') : left' = [a \in Apps |-> first]
        /\ UNCHANGED mails

Up(a) == /\ verdict' = [verdict EXCEPT ![a] = "Online"]
         /\ UNCHANGED <<period, left, mails>>

Down(a) == /\ verdict[a] # "Error"
           /\ verdict' = [verdict EXCEPT ![a] = "Error"]
           /\ UNCHANGED <<period, left, mails>>

StillDown(a) ==
    /\ verdict[a] = "Error"
    /\ left[a] > 1
    /\ left' = [left EXCEPT ![a] = @ - 1]
    /\ UNCHANGED <<verdict, period, mails>>

Alert(a) == /\ verdict[a] = "Error"
            /\ left[a] = 1
            /\ left' = [left EXCEPT ![a] = period]
            /\ mails' = [mails EXCEPT ![a] = @ + 1]
            /\ UNCHANGED <<verdict, period>>

Next == \/ Load
        \/ \E a \in Apps : Up(a) \/ Down(a) \/ StillDown(a) \/ Alert(a)

Spec == Init /\ [][Next]_vars
=============================================================================
