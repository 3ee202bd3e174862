----------------------------- MODULE MCFileStore -----------------------------
(* Small instances of FileStore.                                            *)
EXTENDS FileStore, TLC

CONSTANTS h1, h2, b1, b2

MCPayload == {[hash |-> h1, blob |-> b1], [hash |-> h2, blob |-> b2]}

\* One payload; fix_hash can still make the stored hash differ from it.
MCOnePayload == {[hash |-> h1, blob |-> b1]}

MCLimits == {[keep |-> 1, expire |-> FALSE, keepArchive |-> FALSE]}

\* The two payloads may be exchanged.
Exchange == h1 :> h2 @@ h2 :> h1 @@ b1 :> b2 @@ b2 :> b1

MCSymmetry == Permutations(Requests) \cup {Exchange}
=============================================================================
