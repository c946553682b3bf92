----------------------------- MODULE MCProcess ------------------------------
(***************************************************************************)
(* The beta channel of version 2, with pages of two: updates, releases     *)
(* that miss one condition each, and enough of them for three pages.  The  *)
(* tasks and callers of the server move while no release is out but one    *)
(* update; otherwise, and when a command runs, they are kept still.        *)
(***************************************************************************)
EXTENDS Process

MCRelease(version, pre, asset) == [version |-> version, pre |-> pre, asset |-> asset]

MCBeta == [name |-> "beta", plain |-> TRUE]
MCBeta1 == [name |-> "beta", plain |-> FALSE]
MCOther == [name |-> None, plain |-> TRUE]

MCCurrentPre == <<MCOther, MCBeta>>

MCReleases ==
  {MCRelease(6, <<MCBeta>>, TRUE), MCRelease(4, <<MCOther, MCBeta1>>, TRUE),
   MCRelease(1, <<MCBeta>>, TRUE), MCRelease(3, <<MCBeta>>, FALSE),
   MCRelease(5, <<>>, TRUE)}

MCStill ==
  /\ status = [t \in T!TaskNames |-> "running"]
  /\ \A c \in Callers : calls[c] = "idle"
  /\ ~shutdown

MCUpdate == MCRelease(6, <<MCBeta>>, TRUE)

MCBound == (Range(published) \subseteq {MCUpdate} /\ Serving) \/ MCStill

MCSpec == Init /\ [][Next /\ MCBound']_all_vars /\ Fairness
=============================================================================
