----------------------------- MODULE Deployment -----------------------------
(***************************************************************************)
(* The two key files that the command-line tools pass to each other:       *)
(* umbra-relay-keygen writes umbra.pk and then umbra.vk, umbra-relay reads *)
(* umbra.vk once, when it starts, umbra-relay-prove reads umbra.pk for     *)
(* each proof, and verify-ceremony-params reads the one and then the other *)
(* and tries a proof (relay/src/bin, proof-of-observation/src/bin).        *)
(*                                                                         *)
(* Every run of keygen draws a key of its own, the number of the run.  It  *)
(* may be killed anywhere, and is run again; two runs do not overlap.  A   *)
(* file is created empty and then written: until it is whole, or when it   *)
(* is missing, whoever reads it panics.                                    *)
(***************************************************************************)
EXTENDS Naturals

CONSTANTS
    Servers,        \* relays that read umbra.vk
    Provers,        \* contributors that read umbra.pk
    MaxRuns,        \* bound: runs of keygen
    Torn            \* a file that is missing, empty or cut short

ASSUME RunsAssumption == MaxRuns \in Nat /\ Torn \notin Nat

VARIABLES
    umbra_pk, umbra_vk,     \* the two files: a key, or Torn
    keygen,                 \* where the run of keygen is
    runs,                   \* the runs of keygen so far
    finished,               \* history: the runs that came to their end
    server,                 \* the verifying key each relay holds, and when it was read
    proof,                  \* the key of each contributor's last proof, and when it was read
    check                   \* the run of verify-ceremony-params

vars == <<umbra_pk, umbra_vk, keygen, runs, finished, server, proof, check>>

Keys == 1..MaxRuns

\* A time at which no run of keygen is at work is named after the last run; 0 is any other.
Quiet == IF keygen = "idle" THEN runs ELSE 0

\* A reader's key and when it read it, before it has read any.
Nothing == [key |-> Torn, at |-> 0]
Read(file) == [key |-> file, at |-> Quiet]

\* History: the key that both files hold, if they do.
PairOnDisk == IF umbra_pk = umbra_vk THEN {umbra_pk} \ {Torn} ELSE {}
NotePair == check' = [check EXCEPT !.together = @ \cup PairOnDisk']

Init ==
    /\ umbra_pk = Torn /\ umbra_vk = Torn
    /\ keygen = "idle" /\ runs = 0 /\ finished = {}
    /\ server = [s \in Servers |-> Nothing]
    /\ proof = [c \in Provers |-> Nothing]
    /\ check = [step |-> "none", pk |-> Nothing, at |-> 0, together |-> {}]

----------------------------------------------------------------------------
(* umbra-relay-keygen                                                      *)

readers == <<server, proof>>

\* circuit_specific_setup
RunKeygen ==
    /\ keygen = "idle"
    /\ runs < MaxRuns
    /\ keygen' = "made"
    /\ runs' = runs + 1
    /\ UNCHANGED <<umbra_pk, umbra_vk, finished, readers, check>>

\* fs::write(&pk_path, ..): the file is created, then written.
CreatePk ==
    /\ keygen = "made"
    /\ keygen' = "pk created"
    /\ umbra_pk' = Torn
    /\ UNCHANGED <<umbra_vk, runs, finished, readers>>
    /\ NotePair

WritePk ==
    /\ keygen = "pk created"
    /\ keygen' = "pk written"
    /\ umbra_pk' = runs
    /\ UNCHANGED <<umbra_vk, runs, finished, readers>>
    /\ NotePair

\* MUTANT: a verifying key that is there already is kept.
CreateVkIfMissing ==
    /\ keygen = "pk written"
    /\ IF umbra_vk = Torn
       THEN keygen' = "vk created" /\ UNCHANGED finished
       ELSE keygen' = "idle" /\ finished' = finished \cup {runs}
    /\ UNCHANGED <<umbra_pk, umbra_vk, runs, readers, check>>

\* fs::write(&vk_path, ..)
CreateVk ==
    /\ keygen = "pk written"
    /\ keygen' = "vk created"
    /\ umbra_vk' = Torn
    /\ UNCHANGED <<umbra_pk, runs, finished, readers>>
    /\ NotePair

WriteVk ==
    /\ keygen = "vk created"
    /\ keygen' = "idle"
    /\ umbra_vk' = runs
    /\ finished' = finished \cup {runs}
    /\ UNCHANGED <<umbra_pk, runs, readers>>
    /\ NotePair

\* The run is killed, or panics on an error of the disk.
KillKeygen ==
    /\ keygen # "idle"
    /\ keygen' = "idle"
    /\ UNCHANGED <<umbra_pk, umbra_vk, runs, finished, readers, check>>

Keygen == RunKeygen \/ CreatePk \/ WritePk \/ CreateVk \/ WriteVk \/ KillKeygen

----------------------------------------------------------------------------
(* The tools that read.                                                    *)

\* umbra-relay starts, or panics; it keeps what it read until it ends.
StartServer(s) ==
    /\ server[s] = Nothing
    /\ umbra_vk # Torn
    /\ server' = [server EXCEPT ![s] = Read(umbra_vk)]
    /\ UNCHANGED <<umbra_pk, umbra_vk, keygen, runs, finished, proof, check>>

EndServer(s) ==
    /\ server[s] # Nothing
    /\ server' = [server EXCEPT ![s] = Nothing]
    /\ UNCHANGED <<umbra_pk, umbra_vk, keygen, runs, finished, proof, check>>

\* umbra-relay-prove makes a proof that can be submitted from then on, or panics.
Prove(c) ==
    /\ umbra_pk # Torn
    /\ proof' = [proof EXCEPT ![c] = Read(umbra_pk)]
    /\ UNCHANGED <<umbra_pk, umbra_vk, keygen, runs, finished, server, check>>

\* Groth16::verify of a proof made with one key against another one.
Verifies(pk, vk) == pk = vk

\* MUTANT: that both keys can be read is enough.
WellFormed(pk, vk) == IF pk = Torn \/ vk = Torn THEN "panic" ELSE "ok"

\* What verify-ceremony-params makes of what it read.
Verdict(pk, vk) ==
    IF pk = Torn \/ vk = Torn THEN "panic" ELSE IF Verifies(pk, vk) THEN "ok" ELSE "mismatch"

CheckPk ==
    /\ check.step # "vk next"
    /\ check' = [step |-> "vk next", pk |-> Read(umbra_pk), at |-> 0, together |-> PairOnDisk]
    /\ UNCHANGED <<umbra_pk, umbra_vk, keygen, runs, finished, readers>>

CheckVk ==
    /\ check.step = "vk next"
    /\ check' = [check EXCEPT
            !.step = Verdict(check.pk.key, umbra_vk),
            !.at = IF check.pk.at = Quiet THEN Quiet ELSE 0]
    /\ UNCHANGED <<umbra_pk, umbra_vk, keygen, runs, finished, readers>>

Next ==
    \/ Keygen
    \/ \E s \in Servers : StartServer(s) \/ EndServer(s)
    \/ \E c \in Provers : Prove(c)
    \/ CheckPk \/ CheckVk

Spec == Init /\ [][Next]_vars

----------------------------------------------------------------------------
(* What the tools can be relied on for.                                    *)

\* A pair that verify-ceremony-params found OK was on the disk, whole and of one run, at
\* some moment of its check: it never puts together a pair of its own from the two reads,
\* with keygen at work or killed between them.
OkMeansPair == check.step = "ok" => check.pk.key \in check.together

\* The relay accepts the contributor's last proof.
Accepts(s, c) == Verifies(proof[c].key, server[s].key)

\* A relay started and a proof made in one quiet time, with no run of keygen at work or
\* between them: the proof is accepted if the last run of keygen came to its end, and if
\* it was killed, exactly when a check in that time says OK.
ServiceIsPredictable ==
    \A s \in Servers, c \in Provers :
        LET at == server[s].at
        IN  at # 0 /\ proof[c].at = at =>
                /\ at \in finished => Accepts(s, c)
                /\ check.at = at => (check.step = "ok" <=> Accepts(s, c))

=============================================================================
