---------------------------- MODULE MCAdmission ----------------------------
(***************************************************************************)
(* An instance of Admission for TLC: two senders inside the allowed        *)
(* network and one outside, one trusted proxy, and a relay of somebody     *)
(* else's.                                                                 *)
(***************************************************************************)
EXTENDS Admission, TLC

CONSTANTS a1, a2, outsider, proxy, relay, token, guess, cli, alice, bob, w1, w2

MCAddresses == {a1, a2, outsider, proxy, relay}
MCPaths == {<<a1>>, <<a1, proxy, proxy>>, <<a2, proxy>>, <<outsider>>,
            <<outsider, proxy>>, <<a2, relay, proxy>>}
MCForged == {<<>>, <<a1>>, <<a2, proxy>>}
MCClientID == token :> cli

Symmetry == Permutations(Hints) \cup Permutations(Workers)
=============================================================================
