---------------------------- MODULE LandRegistry ----------------------------
(* What occupying land promises, with nothing of how: claims are granted one at
   a time, each to a user without land on a cell without owner, next to land
   already granted.  Only a pioneer, admitted while there was no land at all,
   may settle away from it. *)
EXTENDS HexGeometry

CONSTANTS Users, Coordinates, Requests

VARIABLES
  land,          \* granted claims
  pioneers,      \* requests admitted while there was no land
  acknowledged   \* claims whose user was told so

registryVars == <<land, pioneers, acknowledged>>

Claim == [userId : Users, at : Coordinates]

Init ==
  /\ land = {}
  /\ pioneers = {}
  /\ acknowledged = {}

Free(claim) ==
  /\ SumIsZero(claim.at)
  /\ \A g \in land : g.userId # claim.userId /\ g.at # claim.at

\* Several requests may be admitted before the first of them is granted.
Admit(r) ==
  /\ land = {}
  /\ pioneers' = pioneers \cup {r}
  /\ UNCHANGED <<land, acknowledged>>

\* Pioneers give up: refused, failed, or gone with a crash.
Withdraw ==
  /\ pioneers' \in SUBSET pioneers
  /\ UNCHANGED <<land, acknowledged>>

Found(r, claim) ==
  /\ r \in pioneers
  /\ Free(claim)
  /\ land' = land \cup {claim}
  /\ pioneers' = pioneers \ {r}
  /\ UNCHANGED acknowledged

Settle(claim) ==
  /\ Free(claim)
  /\ \E g \in land : Near(claim.at, g.at)
  /\ land' = land \cup {claim}
  /\ UNCHANGED <<pioneers, acknowledged>>

Acknowledge(claim) ==
  /\ claim \in land
  /\ acknowledged' = acknowledged \cup {claim}
  /\ UNCHANGED <<land, pioneers>>

Next ==
  \/ \E r \in Requests : Admit(r) \/ \E claim \in Claim : Found(r, claim)
  \/ Withdraw
  \/ \E claim \in Claim : Settle(claim) \/ Acknowledge(claim)

Spec == Init /\ [][Next]_registryVars
=============================================================================
