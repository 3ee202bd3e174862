--------------------------- MODULE MCVersionStore ---------------------------
(* Small instances of VersionStore.                                         *)
EXTENDS VersionStoreInv, TLC

CONSTANTS h1, h2, b1, b2

MCPayload == {[hash |-> h1, blob |-> b1], [hash |-> h2, blob |-> b2]}

MCLimits == {[keep |-> 1, expire |-> TRUE, keepArchive |-> FALSE],
             [keep |-> 1, expire |-> FALSE, keepArchive |-> TRUE]}

MCOneLimit == {[keep |-> 2, expire |-> TRUE, keepArchive |-> FALSE]}

\* The two contents can be exchanged, each with its blob.
MCSwap == h1 :> h2 @@ h2 :> h1 @@ b1 :> b2 @@ b2 :> b1

MCSymmetry == Permutations(Requests) \cup Permutations(FileId) \cup {MCSwap}
=============================================================================
