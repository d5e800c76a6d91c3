------------------------------ MODULE Ceremony ------------------------------
(***************************************************************************)
(* A phase 2 ceremony run with the command-line tools on one parameters    *)
(* file: ceremony-init writes a starting point, ceremony-contribute reads  *)
(* the file, applies one contribution and writes it back in place.  The    *)
(* tools are processes of their own: nothing keeps two of them from        *)
(* running at once, and each may be killed at any point.                   *)
(*                                                                         *)
(* The coordinator keeps the last parameters found good and takes over     *)
(* those of the file when MPCParameters::verify accepts them.              *)
(*                                                                         *)
(* The file is a sequence of chunks, read and written one after the other  *)
(* (every point is a call of its own; a chunk is a run of calls that no    *)
(* check tells apart).                                                     *)
(***************************************************************************)
EXTENDS Phase2, Functions, FiniteSetsExt

Seqs == INSTANCE SequencesExt

CONSTANTS
    Contributors,       \* runs of ceremony-contribute
    Initialisers,       \* runs of ceremony-init, after the ceremony has started
    Coordinator,        \* whoever verifies the file
    Secret,             \* [Contributors -> the delta each one draws]
    Nonce,              \* [Contributors -> the point s each one draws]
    FirstSetup,         \* the starting point the ceremony started with
    SetupOf,            \* [Initialisers -> the starting point each one draws]
    Crews,              \* bound: the sets of tools run in one ceremony
    Hole,               \* a chunk of zero bytes, where no tool has written
    NoParams            \* no parameters in memory

Writers == Contributors \cup Initialisers
Readers == Contributors \cup {Coordinator}
Actors == Writers \cup Readers

ASSUME ActorsAssumption == Coordinator \notin Writers
ASSUME SecretAssumption == Secret \in [Contributors -> Scalars \ {Zero}]
ASSUME NonceAssumption == Nonce \in [Contributors -> Scalars \ {Zero}]
ASSUME CrewsAssumption == Crews \subseteq SUBSET Writers
ASSUME SetupAssumption == FirstSetup \in Setups /\ SetupOf \in [Initialisers -> Setups]

VARIABLES
    file,           \* the chunks of the parameters file
    pc,             \* where each tool is
    got,            \* the chunks a tool has read so far
    mem,            \* the parameters a tool has in memory
    at,             \* the chunks a tool has written so far
    accepted,       \* the coordinator's parameters
    orderly         \* history: tools have run one at a time, and none re-initialised

vars == <<file, pc, got, mem, at, accepted, orderly>>

HeaderChunks == 5

\* MPCParameters::write: the verifying key, the rest of the proving key with its two
\* scaled queries last, the hash, the number of contributions, the contributions.
Serialized(p) ==
    << [fixed |-> p.fixed_vk, delta |-> p.delta_g2],
       [fixed |-> p.fixed_pk, delta |-> p.delta_g1],
       p.h_query,
       p.l_query,
       [cs_hash |-> p.cs_hash, count |-> Len(p.contributions)] >> \o p.contributions

Init ==
    /\ file = Serialized(NewPlaceholder(FirstSetup))
    /\ \E crew \in Crews :
        pc = [a \in Actors |-> IF a \in crew \cup {Coordinator} THEN "idle" ELSE "absent"]
    /\ got = [a \in Actors |-> << >>]
    /\ mem = [a \in Actors |-> NoParams]
    /\ at = [a \in Actors |-> 0]
    /\ accepted = NewPlaceholder(FirstSetup)
    /\ orderly = TRUE

----------------------------------------------------------------------------
(* MPCParameters::read                                                     *)

\* Where a query, or the number of contributions, is read from zero bytes: it is 0,
\* and so is everything read after it, from the rest of the hole.
BlankFrom(chunks) == {i \in 3..HeaderChunks : i <= Len(chunks) /\ chunks[i] = Hole}

\* MUTANT: takes the number of contributions it finds for the number it was told.
ChunksNeededLeniently(chunks) ==
    IF BlankFrom(chunks) # {} THEN Min(BlankFrom(chunks)) ELSE HeaderChunks

\* How many chunks the reader asks for, given those it has.
ChunksNeeded(chunks) ==
    IF BlankFrom(chunks) # {} THEN Min(BlankFrom(chunks))
    ELSE IF Len(chunks) < HeaderChunks THEN HeaderChunks
    ELSE HeaderChunks + chunks[HeaderChunks].count

\* Zero bytes are no point of G1, and no public key.
Undecodable(chunk, i) == chunk = Hole /\ i \notin 3..HeaderChunks

Decode(chunks) ==
    LET blank == BlankFrom(chunks)
        Reads(i) == \A j \in blank : i < j
    IN  [fixed_vk |-> chunks[1].fixed, delta_g2 |-> chunks[1].delta,
         fixed_pk |-> chunks[2].fixed, delta_g1 |-> chunks[2].delta,
         h_query |-> IF Reads(3) THEN chunks[3] ELSE << >>,
         l_query |-> IF Reads(4) THEN chunks[4] ELSE << >>,
         cs_hash |-> IF Reads(5) THEN chunks[5].cs_hash ELSE ZeroHash,
         contributions |-> SubSeq(chunks, HeaderChunks + 1, Len(chunks))]

\* What a reader gets that has the file to itself.
CanRead(chunks) ==
    /\ ChunksNeeded(chunks) <= Len(chunks)
    /\ \A i \in 1..ChunksNeeded(chunks) : ~ Undecodable(chunks[i], i)
Read(chunks) == Decode(SubSeq(chunks, 1, ChunksNeeded(chunks)))

----------------------------------------------------------------------------
(* Steps of the tools.                                                     *)

GoTo(a, where) == pc' = [pc EXCEPT ![a] = where]
Over == {"absent", "idle", "ended", "failed", "killed"}
Running(a) == pc[a] \notin Over

\* A tool starts that is to write the file, perhaps while another one runs.
Starts(a) ==
    /\ pc[a] = "idle"
    /\ orderly' = (orderly /\ a \notin Initialisers /\ \A b \in Writers : ~ Running(b))

\* ceremony-contribute opens the file.
Open(c) ==
    /\ Starts(c)
    /\ GoTo(c, "reading")
    /\ UNCHANGED <<file, got, mem, at, accepted>>

\* The coordinator opens the file.
Inspect(a) ==
    /\ pc[a] = "idle"
    /\ GoTo(a, "reading")
    /\ UNCHANGED <<file, got, mem, at, accepted, orderly>>

\* ceremony-init builds a starting point of its own.
Initialise(a) ==
    /\ Starts(a)
    /\ mem' = [mem EXCEPT ![a] = NewPlaceholder(SetupOf[a])]
    /\ GoTo(a, "creating")
    /\ UNCHANGED <<file, got, at, accepted>>

Reading(a) == pc[a] = "reading" /\ Len(got[a]) < ChunksNeeded(got[a])

\* The next chunk is there and decodes.
ReadChunk(a) ==
    /\ Reading(a)
    /\ LET i == Len(got[a]) + 1
       IN  /\ i <= Len(file)
           /\ ~ Undecodable(file[i], i)
           /\ got' = [got EXCEPT ![a] = Append(@, file[i])]
    /\ UNCHANGED <<file, pc, mem, at, accepted, orderly>>

\* read fails at the end of the file or at what does not decode: the tool panics; the
\* coordinator may try again later.
FailReading(a) ==
    /\ Reading(a)
    /\ LET i == Len(got[a]) + 1
       IN  i <= Len(file) => Undecodable(file[i], i)
    /\ got' = [got EXCEPT ![a] = << >>]
    /\ GoTo(a, IF a = Coordinator THEN "idle" ELSE "failed")
    /\ UNCHANGED <<file, mem, at, accepted, orderly>>

HasRead(a) == pc[a] = "reading" /\ Len(got[a]) >= ChunksNeeded(got[a])

\* The contributor applies its secret to what it has read.
ApplySecret(c) ==
    /\ HasRead(c)
    /\ mem' = [mem EXCEPT ![c] = Contribute(Decode(got[c]), Secret[c], Nonce[c])]
    /\ got' = [got EXCEPT ![c] = << >>]
    /\ GoTo(c, "creating")
    /\ UNCHANGED <<file, at, accepted, orderly>>

\* The coordinator verifies the hop from the parameters it has to those it has read,
\* and takes these over if it is good; a panic, like an error, leaves it as it was.
CheckHop(a) ==
    /\ HasRead(a)
    /\ accepted' =
        IF Verify(accepted, Decode(got[a])) = "ok" THEN Decode(got[a]) ELSE accepted
    /\ got' = [got EXCEPT ![a] = << >>]
    /\ GoTo(a, "idle")
    /\ UNCHANGED <<file, mem, at, orderly>>

\* File::create empties the file.
Create(w) ==
    /\ pc[w] = "creating"
    /\ file' = << >>
    /\ GoTo(w, "writing")
    /\ UNCHANGED <<got, mem, at, accepted, orderly>>

\* The file with a chunk written at place i, zero bytes before it if it is shorter.
Overwritten(chunk, i) ==
    [j \in DOMAIN file \cup 1..i |->
        IF j = i THEN chunk ELSE IF j \in DOMAIN file THEN file[j] ELSE Hole]

\* The next chunk goes where this writer's last one ended.
WriteChunk(w) ==
    /\ pc[w] = "writing"
    /\ at[w] < Len(Serialized(mem[w]))
    /\ file' = Overwritten(Serialized(mem[w])[at[w] + 1], at[w] + 1)
    /\ at' = [at EXCEPT ![w] = @ + 1]
    /\ UNCHANGED <<pc, got, mem, accepted, orderly>>

\* All is written; a contributor prints the hash of its contribution.
Attest(w) ==
    /\ pc[w] = "writing"
    /\ at[w] = Len(Serialized(mem[w]))
    /\ GoTo(w, "ended")
    /\ UNCHANGED <<file, got, mem, at, accepted, orderly>>

\* A tool is killed while it writes.  (One that is killed before leaves no trace: it is
\* as if it had not been started.)
Kill(w) ==
    /\ pc[w] = "writing"
    /\ GoTo(w, "killed")
    /\ mem' = [mem EXCEPT ![w] = NoParams]
    /\ at' = [at EXCEPT ![w] = 0]
    /\ UNCHANGED <<file, got, accepted, orderly>>

Next ==
    \/ \E c \in Contributors : Open(c) \/ ApplySecret(c)
    \/ \E i \in Initialisers : Initialise(i)
    \/ Inspect(Coordinator) \/ CheckHop(Coordinator)
    \/ \E a \in Readers : ReadChunk(a) \/ FailReading(a)
    \/ \E w \in Writers : Create(w) \/ WriteChunk(w) \/ Attest(w) \/ Kill(w)

Spec == Init /\ [][Next]_vars

----------------------------------------------------------------------------
(* Properties.                                                             *)

\* What a proving key owes its circuit: one delta in both groups, and the queries
\* divided by it.
Usable(p) ==
    /\ p.delta_g2 = OverG2(p.delta_g1)
    /\ p.fixed_vk = p.cs_hash /\ p.fixed_pk = p.cs_hash
    /\ ScaledBy(p.h_query, p.delta_g1) = HQuery
    /\ ScaledBy(p.l_query, p.delta_g1) = LQuery

\* Everything the coordinator takes over is a proving key of the circuit the ceremony
\* started with, delta and queries agree, and the history explains the delta, whatever
\* the tools did to the file while it was read (MPCParameters::verify: "checking every
\* invariant").
AcceptedIsUsable ==
    /\ Usable(accepted)
    /\ accepted.cs_hash = FirstSetup
    /\ TranscriptVerifies(FirstSetup, accepted.contributions)
    /\ accepted.contributions # << >> => DeltaIsLast(accepted)

\* A contribution once accepted stays where it is in the history: a contributor who has
\* seen the own hash in the output of verify need not look again.
NothingWithdrawn ==
    [][Seqs!IsPrefix(accepted.contributions, accepted'.contributions)]_accepted

AttestationOf(w) == mem[w].contributions[Len(mem[w].contributions)]
Attested == {AttestationOf(c) : c \in {d \in Contributors : pc[d] = "ended"}}

\* While the tools take turns: the file reads back unless one of them is writing or was
\* killed; what reads back holds every contribution that was attested or accepted, can
\* prove, and is a hop the coordinator would accept.  A torn file never passes for whole.
TurnsKeepTheCeremony ==
    orderly =>
        /\ CanRead(file) \/ \E c \in Contributors : pc[c] \in {"writing", "killed"}
        /\ CanRead(file) =>
            LET p == Read(file)
            IN  /\ Usable(p)
                /\ Attested \subseteq Range(p.contributions)
                /\ Seqs!IsPrefix(accepted.contributions, p.contributions)
                /\ p.contributions # << >> => Verify(accepted, p) = "ok"

\* ceremony-verify (bin/verify.rs): "this checks a whole finished chain from one
\* file - the shape a real coordinator's final published output takes".  It calls
\* verify_transcript on the history and looks at nothing else.
ToolSaysValid(p) == p.contributions # << >> /\ TranscriptVerifies(p.cs_hash, p.contributions)

\* A file that no tool is working on and that this one calls valid holds the parameters
\* its history leads to.
ValidMeansUsable ==
    /\ \A w \in Writers : ~ Running(w)
    /\ CanRead(file)
    /\ ToolSaysValid(Read(file))
    => Usable(Read(file)) /\ DeltaIsLast(Read(file))

=============================================================================
