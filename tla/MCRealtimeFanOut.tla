-------------------------- MODULE MCRealtimeFanOut --------------------------
(***************************************************************************)
(* The hub's fan-out for TLC, in one of two surroundings chosen at the     *)
(* start: streams and POSTs with joins and leaves, or a socket beside one  *)
(* stream and one POST.                                                    *)
(***************************************************************************)
EXTENDS MCRealtimeHub, FiniteSets

VARIABLE scene

Begun(pc) == {x \in DOMAIN pc : pc[x] # "idle"}
Posts == {m \in Messages : ViaOf[m] = None}

\* What a scene leaves out stays as it begins.
InScene ==
  /\ scene = "streams" => UNCHANGED sockVars
  /\ scene = "sockets" => /\ UNCHANGED member
                          /\ Cardinality(Begun(spc')) <= 1
                          /\ Cardinality(Begun(mpc') \cap Posts) <= 1

FanOutInit == Init /\ scene \in {"streams", "sockets"}

FanOutNext == Next /\ InScene /\ UNCHANGED scene

FanOutSpec == FanOutInit /\ [][FanOutNext]_<<vars, scene>>

\* Streams of one user are interchangeable, and so are messages by POST.
FanOutSymmetry == Permutations(Streams) \cup Permutations({m1, m3})
=============================================================================
