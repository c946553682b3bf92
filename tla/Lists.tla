------------------------------- MODULE Lists --------------------------------
(***************************************************************************)
(* What the models say of the contents of a sequence, be it a channel or a *)
(* page of releases.                                                       *)
(***************************************************************************)
EXTENDS Naturals, Sequences

(***************************************************************************)
(* A receiver at region current knows r once it has drained the messages   *)
(* of the given type it has been sent.                                     *)
(***************************************************************************)
WillKnow(messages, type, current, r) ==
  \/ /\ current = r
     /\ \A i \in 1..Len(messages) : messages[i].type # type
  \/ \E i \in 1..Len(messages) :
       /\ messages[i].type = type
       /\ messages[i].region = r
       /\ \A j \in i+1..Len(messages) : messages[j].type # type

\* What is kept of the first n elements of s when only those in S are.
Kept(s, S) ==
  LET kept[n \in 0..Len(s)] ==
        IF n = 0 THEN <<>>
        ELSE IF s[n] \in S THEN Append(kept[n - 1], s[n]) ELSE kept[n - 1]
  IN kept

\* The elements of s that are in S, in their order.
Filter(s, S) == Kept(s, S)[Len(s)]
=============================================================================
