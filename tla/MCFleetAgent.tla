---------------------------- MODULE MCFleetAgent ----------------------------
(* FleetAgent with two backends: a machine moves from one to the other.    *)
EXTENDS FleetAgent, TLC

CONSTANTS b1, b2, g1, g2, z1

MCBackends == {b1, b2}
MCNames == {g1, g2, z1}
MCEnrollFlags == {NoFlags, <<g1, z1>>, <<g2, Omitted>>, <<None, Omitted>>}
BackendSymmetry == Permutations(MCBackends)

\* Backends that assign what they are asked for; and, in MCResolve, a second
\* one that has moved the nodes of g1 to g2 and knows no zone without a group.
AsRequested == [b \in MCBackends |-> [p \in Placements |-> p]]

MCResolve ==
  [AsRequested EXCEPT ![b2] =
     [p \in Placements |-> CASE p[1] = g1 -> <<g2, z1>>
                             [] p[1] = None -> <<None, None>>
                             [] OTHER -> p]]

Plain(ws, n) ==
  [workflows |-> ws, targets |-> MCBackends, flags |-> {NoFlags}, commands |-> n]

\* Each of the loops beside the exporter.
MCConfigurations ==
  {Plain({"exporter", "attestation"}, 2), Plain({"exporter", "loop"}, 2)}

\* The workflows that store tokens, and the one that stores placements under
\* an operator who keeps changing them.  A single enroll may as well be with b2:
\* the machine is enrolled with either before, or with none.
MCWriters ==
  {[Plain({"exporter", "attestation"}, 1) EXCEPT !.targets = {b2}],
   [Plain({"loop"}, 2) EXCEPT !.flags = MCEnrollFlags]}

MCUnenrolled == {Plain({"exporter", "attestation"}, 1), Plain({"exporter", "loop"}, 1)}
=============================================================================
