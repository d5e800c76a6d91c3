------------------------------- MODULE MCSetup -------------------------------
(***************************************************************************)
(* Three contributors and the circuit w * w = t, t * w = y for TLC;        *)
(* exponents modulo 97.  The two constraints and the two instance          *)
(* variables fill a domain of four.                                        *)
(***************************************************************************)
EXTENDS SetupProperties

CONSTANTS c1, c2, c3

Prime == 97
MCScalars == 0..(Prime - 1)
MCMul(a, b) == (a * b) % Prime
MCAdd(a, b) == (a + b) % Prime
MCSub(a, b) == (a + Prime - b) % Prime
MCInverses == [a \in 1..(Prime - 1) |-> CHOOSE b \in 1..(Prime - 1) : (a * b) % Prime = 1]
MCInv(a) == MCInverses[a]
MCRoot(m) == CASE m = 4 -> 22
MCFromNat(n) == n % Prime

\* The variables are 1, y, w and t.
Row(ones) == [v \in 0..3 |-> IF v \in ones THEN 1 ELSE 0]
MCMatrices ==
    [a |-> [j \in 0..1 |-> IF j = 0 THEN Row({2}) ELSE Row({3})],
     b |-> [j \in 0..1 |-> Row({2})],
     c |-> [j \in 0..1 |-> IF j = 0 THEN Row({3}) ELSE Row({1})]]
MCAssignment(w) ==
    [v \in 0..3 |-> CASE v = 0 -> 1 [] v = 1 -> (w * w * w) % Prime
                      [] v = 2 -> w [] v = 3 -> (w * w) % Prime]
MCAssignments == {MCAssignment(3), MCAssignment(5)}
MCBlinds == {<<0, 0>>, <<4, 6>>}

\* No product of the taus is in the domain, 1, 22, 96 and 75.
MCSecrets == [c \in Contributors |->
    CASE c = c1 -> [tau |-> 2, alpha |-> 3, beta |-> 5, delta |-> 11]
      [] c = c2 -> [tau |-> 7, alpha |-> 11, beta |-> 13, delta |-> 6]
      [] c = c3 -> [tau |-> 19, alpha |-> 8, beta |-> 17, delta |-> 9]]
MCPoints == [c \in Contributors |->
    CASE c = c1 -> [tau |-> 23, alpha |-> 29, beta |-> 31, delta |-> 37]
      [] c = c2 -> [tau |-> 41, alpha |-> 43, beta |-> 47, delta |-> 53]
      [] c = c3 -> [tau |-> 59, alpha |-> 61, beta |-> 67, delta |-> 71]]

\* The draws above are good ones: what EachSecretCountsOnce rests on for any contributors.
ASSUME MCIndependent == IndependentSecrets

\* And what BridgedHopVerifies rests on.
ASSUME MCLiveKeys == LiveKeys

=============================================================================
