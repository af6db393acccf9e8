-------------------------- MODULE MCVRHostController --------------------------
(***************************************************************************)
(* Instances of VRHostController for TLC: hosts and capsules are model     *)
(* values, interchangeable among themselves.  What the controller learned  *)
(* since its last start does not survive a broken connection of an agent   *)
(* (see the hazards in the README), hence the condition lost = {}.         *)
(***************************************************************************)
EXTENDS VRHostController

\* A seat is given to one user at a time, whatever the order in which hosts
\* report and capsules ask and whenever the controller is restarted, as long
\* as no agent loses its connection to a controller that goes on running.
SeatExclusiveUnlessLost == lost = {} => SeatExclusive

\* Under the same condition the controller has who sits where, from its memory
\* or, after a restart, from the file ("rebuild the mapping of SeatNumber and
\* UserID of the VR host object from the UserSeatMap table").
RebuiltUnlessLost == lost = {} => RebuiltFromTable

\* Until the first restart (which loses what is on its way) the agent of a bound
\* host knows its user or is about to, also when its connection breaks, comes
\* back under a new link id and the old entry is deleted late; but for a link on
\* which a user id has overtaken an older one, for nothing tells their order.
AgentKnowsUnlessRestarted == restarts = 0 => AgentKnowsItsUser

Symmetry == Permutations(Agents) \union Permutations(Capsules)
=============================================================================
