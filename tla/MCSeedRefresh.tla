---------------------------- MODULE MCSeedRefresh ----------------------------
(* Model-checking instances of SeedRefresh. *)
EXTENDS SeedRefresh

\* The second release changes the channel there is and adds one; the third takes
\* the first channel back and changes its mapping.
ThreeReleases ==
  << [providers |-> <<1>>, models |-> <<>>, channels |-> <<1>>, modelMappings |-> <<1>>],
     [channels |-> <<2, 2>>],
     [channels |-> <<1>>, modelMappings |-> <<2>>] >>

=============================================================================
