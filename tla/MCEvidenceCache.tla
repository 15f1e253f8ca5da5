-------------------------- MODULE MCEvidenceCache --------------------------
(* Values for EvidenceCache: one file the scanner reads, one in a vendored  *)
(* directory that looks like a key file, and two texts they may hold.       *)
EXTENDS EvidenceCache, TLC

CONSTANTS a, b

MCKind == a :> "text" @@ b :> "text"
MCMarks == <<{}, {"vendored", "sensitive"}>>
MCSymmetry == Permutations(Scanners) \cup Permutations(Settings) \cup Permutations({a, b})
=============================================================================
