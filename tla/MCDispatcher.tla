---------------------------- MODULE MCDispatcher ----------------------------
(***************************************************************************)
(* The dispatcher with two OUIs on two routers.  The second routing update *)
(* moves o1 from u1 to u2 and changes o2 in place, so every branch of the  *)
(* update is taken: a new entry, an entry updated, and an entry whose uri  *)
(* is no longer listed.                                                    *)
(***************************************************************************)
EXTENDS Dispatcher, TLC

CONSTANTS o1, o2, u1, u2, p1, r1, r2

MCRoutingAt ==
  << <<[oui |-> o1, uris |-> {u1}, accepts |-> {p1}],
       [oui |-> o2, uris |-> {u1}, accepts |-> {p1}]>>,
     <<[oui |-> o1, uris |-> {u2}, accepts |-> {}],
       [oui |-> o2, uris |-> {u1}, accepts |-> {}]>> >>

MCRegionAt == <<r2, r1>>

\* For liveness: one update of each kind, on one router.
MCOneRouting == << <<[oui |-> o1, uris |-> {u1}, accepts |-> {p1}]>> >>

MCOneRegion == <<MCRegionAt[1]>>
=============================================================================
