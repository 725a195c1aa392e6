----------------------------- MODULE LatestBuild -----------------------------
(***************************************************************************)
(* What the build service promises, whatever its clients post and however  *)
(* its tasks interleave: the latest accepted build is the only live one,   *)
(* accepting a build or a cancellation revokes the live one for good, and  *)
(* every accepted build is answered exactly once, revoked or not.          *)
(* BuildService.tla implements it.                                         *)
(***************************************************************************)
CONSTANTS Builds, NoLive

VARIABLES
    accepted,   \* the builds whose request was accepted
    answered,   \* those that were answered
    live,       \* the accepted build nobody revoked yet, or NoLive
    revoked     \* the builds that lost their token

vars == <<accepted, answered, live, revoked>>

Init == /\ accepted = {}
        /\ answered = {}
        /\ live = NoLive
        /\ revoked = {}

Revoked(b) == revoked' = revoked \cup ({b} \ {NoLive})

Accept(b) == /\ b \notin accepted
             /\ accepted' = accepted \cup {b}
             /\ live' = b
             /\ Revoked(live)
             /\ UNCHANGED answered

Revoke == /\ live # NoLive
          /\ live' = NoLive
          /\ Revoked(live)
          /\ UNCHANGED <<accepted, answered>>

Answer(b) == /\ b \in accepted \ answered
             /\ answered' = answered \cup {b}
             /\ UNCHANGED <<accepted, live, revoked>>

Next == \/ \E b \in Builds : Accept(b) \/ Answer(b)
        \/ Revoke

Spec == /\ Init
        /\ [][Next]_vars
        /\ \A b \in Builds : WF_vars(Answer(b))
=============================================================================
