------------------------------ MODULE MCExport ------------------------------
(***************************************************************************)
(* A small relay for TLC whose tables are exported: two contributors, a    *)
(* domain name (rawA, and rawB with capitals and spaces around, which is   *)
(* trimB without them), an IPv4 address (rawC), the last day of a year,    *)
(* the end of February in a year that is no leap year, and a day that is   *)
(* none.                                                                   *)
(***************************************************************************)
EXTENDS Export

CONSTANTS s1, s2, i1, i2, rawA, rawB, trimB, rawC, root, issuer

MCSecrets == {s1, s2}
MCIndicators == {i1, i2}
MCRaws == {rawA, rawB, trimB, rawC}
MCHashOf == [r \in MCRaws |-> IF r = rawC THEN i2 ELSE i1]
MCTrimmed == [r \in MCRaws |-> IF r = rawB THEN trimB ELSE r]
MCPasses ==
    [r \in MCRaws |-> CASE r \in {rawA, trimB} -> {"domain"}
                       [] r = rawB -> {}
                       [] r = rawC -> {"ipv4", "domain"}]
MCEpochs == {21000228, 20231231, 20260231}
MCIssued == [c \in {issuer} |-> {<<s1, 1>>, <<s2, 0>>}]
MCRootsFile == {FrToHex(issuer)}

Submission(s, i, e, tier, raw) ==
    LET st == [indicator_hash |-> i, epoch |-> e, root |-> root,
               nullifier |-> Nullifier(s, i, e), min_tier |-> tier,
               credential_root |-> issuer]
    IN  [indicator_hash |-> FrToHex(i), epoch |-> e, root |-> FrToHex(root),
         nullifier |-> FrToHex(st.nullifier), min_tier |-> tier,
         credential_root |-> FrToHex(issuer), indicator |-> raw, proof |-> st]

MCRequests == {
    Submission(s1, i1, 21000228, 1, NoRaw),
    Submission(s2, i1, 21000228, 0, rawA),
    Submission(s1, i1, 20231231, 0, rawB),
    Submission(s2, i1, 20231231, 0, NoRaw),
    Submission(s2, i2, 20231231, 0, NoRaw),
    Submission(s1, i2, 20260231, 0, rawC) }

\* Two observations of one key may be too much for the counter.
MCWeights == [t \in 0..3 |-> IF t = 0 THEN 1 ELSE MaxU32]

\* epoch_validity_window against the reference, over whole years.
ASSUME WindowsAreDays ==
    \A y \in {1970, 1999, 2000, 2023, 2024, 2100, 2400, 9999} : YearIsRight(y)

=============================================================================
