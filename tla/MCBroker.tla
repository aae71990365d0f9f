------------------------------ MODULE MCBroker ------------------------------
(***************************************************************************)
(* Instances of Broker for TLC.  The constants with structure are given    *)
(* here; the rest are in the .cfg files.                                   *)
(***************************************************************************)
EXTENDS Broker, TLC

CONSTANTS s1, s2, w1, w2, b1, b2, v1, v2, alice, mallory

\* Two spellings of one account and a different account (defaultNormalizer
\* lower-cases and trims).
MCNames == {"alice", "Alice ", "mallory"}
MCNormalize == [alice |-> "alice", mallory |-> "mallory"] @@ ("Alice " :> "alice")

\* A code, the same code as a user may type it, and a wrong one.
MCTypedCodes == {"ABCD-2345", "abcd 2345", "ZZZZ-9999"}
MCUserCodes == {"ABCD-2345"}
MCNormalizeUserCode ==
    ("ABCD-2345" :> "ABCD2345") @@ ("abcd 2345" :> "ABCD2345")
        @@ ("ZZZZ-9999" :> "ZZZZ9999")

\* Two accounts and two codes, for the larger instances.
TwoNames == {alice, mallory}
TwoNormalize == [n \in TwoNames |-> n]
TwoTypedCodes == {"ABCD-2345", "ZZZZ-9999"}
TwoNormalizeUserCode == ("ABCD-2345" :> "ABCD2345") @@ ("ZZZZ-9999" :> "ZZZZ9999")

Symmetry ==
    UNION {Permutations(Workers), Permutations(Browsers),
           Permutations(Sessions), Permutations(Verifiers), Permutations(TwoNames)}
=============================================================================
