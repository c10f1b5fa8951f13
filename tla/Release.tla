------------------------------- MODULE Release -------------------------------
(***************************************************************************)
(* What the release path promises, without saying how: a release bundle    *)
(* becomes complete once and for all, and a target's pointer (the file a   *)
(* client reads first, metadata.json or the manifest) names a bundle that  *)
(* is complete and, once it names one, names it for ever.                  *)
(* ReleasePipeline implements this with files, uploads and retries.        *)
(***************************************************************************)
CONSTANTS Bundles,  \* release bundles a build can produce
          Targets,  \* publish targets
          Slots,    \* names a pointer can be stored under at one target
          None

VARIABLES complete, \* bundles whose manifest vouches for their other files
          live      \* target, slot -> the bundle its pointer names, or None

vars == <<complete, live>>

TypeOK == /\ complete \subseteq Bundles
          /\ live \in [Targets -> [Slots -> Bundles \cup {None}]]

Init == /\ complete = {}
        /\ live = [t \in Targets |-> [s \in Slots |-> None]]

(* A build completes a bundle. *)
Complete(b) == /\ complete' = complete \cup {b}
               /\ b \notin complete
               /\ UNCHANGED live

(* A publish points a free slot of a target to a complete bundle. *)
Publish(t, s) == /\ live[t][s] = None
                 /\ \E b \in complete : live' = [live EXCEPT ![t][s] = b]
                 /\ UNCHANGED complete

Next == \/ \E b \in Bundles : Complete(b)
        \/ \E t \in Targets, s \in Slots : Publish(t, s)

Spec == Init /\ [][Next]_vars
==============================================================================
