-------------------------------- MODULE Rpc --------------------------------
(***************************************************************************)
(* What clients that wait are promised: what each asks is done in the      *)
(* order asked, each command once, and it asks again only when it has an   *)
(* answer.                                                                 *)
(***************************************************************************)
EXTENDS Naturals, Sequences

CONSTANTS Callers, Requests

VARIABLES
  asked,    \* what each caller has asked
  done,     \* what has been done of it
  answered  \* the answers it has

callVars == <<asked, done, answered>>

Init ==
  /\ asked = [c \in Callers |-> <<>>]
  /\ done = [c \in Callers |-> <<>>]
  /\ answered = [c \in Callers |-> 0]

Ask(c, request) ==
  /\ answered[c] = Len(asked[c])
  /\ asked' = [asked EXCEPT ![c] = Append(@, request)]
  /\ UNCHANGED <<done, answered>>

Do(c) ==
  /\ Len(done[c]) < Len(asked[c])
  /\ done' = [done EXCEPT ![c] = Append(@, asked[c][Len(@) + 1])]
  /\ UNCHANGED <<asked, answered>>

Answer(c) ==
  /\ answered[c] < Len(done[c])
  /\ answered' = [answered EXCEPT ![c] = @ + 1]
  /\ UNCHANGED <<asked, done>>

(* The connection ends.                                                     *)
HangUp(c) ==
  /\ asked' = [asked EXCEPT ![c] = <<>>]
  /\ done' = [done EXCEPT ![c] = <<>>]
  /\ answered' = [answered EXCEPT ![c] = 0]

Next ==
  \E c \in Callers :
    Do(c) \/ Answer(c) \/ HangUp(c) \/ \E request \in Requests : Ask(c, request)

Spec == Init /\ [][Next]_callVars

=============================================================================
