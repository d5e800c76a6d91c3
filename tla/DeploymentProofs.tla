-------------------------- MODULE DeploymentProofs --------------------------
(***************************************************************************)
(* What the two key files can be relied on for, for every number of        *)
(* relays, contributors and runs of keygen.                                *)
(***************************************************************************)
EXTENDS Deployment, TLAPS

Files == Nat \cup {Torn}
Readings == [key : Files, at : Nat]

TypeOK ==
    /\ umbra_pk \in Files /\ umbra_vk \in Files
    /\ keygen \in {"idle", "made", "pk created", "pk written", "vk created"}
    /\ runs \in Nat /\ finished \subseteq Nat
    /\ server \in [Servers -> Readings]
    /\ proof \in [Provers -> Readings]
    /\ check \in [step : {"none", "vk next", "panic", "ok", "mismatch"}, pk : Readings,
                  at : Nat, together : SUBSET Nat]

\* The proving key on the disk is the run's own from the moment it is written.
PkIsTheRuns == keygen \in {"pk written", "vk created"} => umbra_pk = runs

\* A check that is about to read a key like the one it has has seen the pair: either it was
\* there from the start, or this run of keygen completed it.
AboutToAgree ==
    (check.step = "vk next" /\ umbra_vk = check.pk.key /\ umbra_vk # Torn)
        => check.pk.key \in check.together

PairInv == TypeOK /\ PkIsTheRuns /\ AboutToAgree /\ OkMeansPair

\* A quiet time is over once keygen runs again.
NotOver(at) == at <= runs /\ (at = runs /\ at # 0 => keygen = "idle")

\* In a quiet time nothing on the disk changes, so what was read in it is still there.
ReadsAreCurrent ==
    /\ \A s \in Servers : LET r == server[s] IN
        /\ NotOver(r.at)
        /\ r.at # 0 => r.key # Torn
        /\ r.at # 0 /\ r.at = runs => r.key = umbra_vk
    /\ \A c \in Provers : LET r == proof[c] IN
        /\ NotOver(r.at)
        /\ r.at # 0 => r.key # Torn
        /\ r.at # 0 /\ r.at = runs => r.key = umbra_pk
    /\ NotOver(check.pk.at)
    /\ check.pk.at # 0 /\ check.pk.at = runs => check.pk.key = umbra_pk
    /\ NotOver(check.at)
    /\ check.at # 0 /\ check.at = runs => check.step = Verdict(umbra_pk, umbra_vk)

\* A run that came to its end left its own pair, until the next one starts.
FinishedLeavesPair ==
    /\ \A run \in finished : run <= runs
    /\ runs \in finished => keygen = "idle" /\ umbra_pk = runs /\ umbra_vk = runs

ServiceInv ==
    TypeOK /\ PkIsTheRuns /\ ReadsAreCurrent /\ FinishedLeavesPair /\ ServiceIsPredictable

----------------------------------------------------------------------------
LEMMA TypeInit == Init => TypeOK
BY RunsAssumption DEF Init, TypeOK, Files, Readings, Nothing

LEMMA ReadIsReading == ASSUME TypeOK, NEW file \in Files PROVE Read(file) \in Readings
BY DEF TypeOK, Read, Readings, Quiet

LEMMA PairIsKeys == ASSUME TypeOK PROVE PairOnDisk \subseteq Nat
BY DEF TypeOK, PairOnDisk, Files

\* What a step of keygen does to the variables one by one.
LEMMA KeygenTypes ==
    ASSUME TypeOK, Keygen
    PROVE  /\ umbra_pk' \in Files /\ umbra_vk' \in Files
           /\ keygen' \in {"idle", "made", "pk created", "pk written", "vk created"}
           /\ runs' \in Nat /\ finished' \subseteq Nat
           /\ UNCHANGED readers
           /\ UNCHANGED check \/ NotePair
<1> USE DEF readers, Files
<1>0. /\ umbra_pk \in Nat \cup {Torn} /\ umbra_vk \in Nat \cup {Torn}
      /\ runs \in Nat /\ finished \subseteq Nat
    BY DEF TypeOK
<1>1. CASE RunKeygen
    BY <1>0, <1>1 DEF RunKeygen
<1>2. CASE CreatePk
    BY <1>0, <1>2 DEF CreatePk
<1>3. CASE WritePk
    BY <1>0, <1>3 DEF WritePk
<1>4. CASE CreateVk
    BY <1>0, <1>4 DEF CreateVk
<1>5. CASE WriteVk
    BY <1>0, <1>5 DEF WriteVk
<1>6. CASE KillKeygen
    BY <1>0, <1>6 DEF KillKeygen
<1> QED BY <1>1, <1>2, <1>3, <1>4, <1>5, <1>6 DEF Keygen

LEMMA TypeNext == TypeOK /\ [Next]_vars => TypeOK'
<1> SUFFICES ASSUME TypeOK, [Next]_vars PROVE TypeOK'
    OBVIOUS
<1> USE DEF TypeOK
<1>2. CASE Keygen
    <2>1. PairOnDisk' \subseteq Nat
        BY <1>2, KeygenTypes DEF PairOnDisk, Files
    <2>2. check' \in [step : {"none", "vk next", "panic", "ok", "mismatch"}, pk : Readings,
                      at : Nat, together : SUBSET Nat]
        BY <1>2, <2>1, KeygenTypes DEF NotePair
    <2>3. server' = server /\ proof' = proof
        BY <1>2, KeygenTypes DEF readers
    <2> QED BY <1>2, <2>2, <2>3, KeygenTypes
<1>3. CASE \E s \in Servers : StartServer(s) \/ EndServer(s)
    <2>1. Read(umbra_vk) \in Readings /\ Nothing \in Readings
        BY ReadIsReading DEF Nothing, Readings, Files
    <2>2. server' \in [Servers -> Readings]
        BY <1>3, <2>1 DEF StartServer, EndServer
    <2> QED BY <1>3, <2>2 DEF StartServer, EndServer
<1>4. CASE \E c \in Provers : Prove(c)
    BY <1>4, ReadIsReading DEF Prove
<1>5. CASE CheckPk
    BY <1>5, ReadIsReading, PairIsKeys DEF CheckPk, readers
<1>6. CASE CheckVk
    <2>1. Verdict(check.pk.key, umbra_vk) \in {"panic", "ok", "mismatch"}
        BY DEF Verdict
    <2>2. (IF check.pk.at = Quiet THEN Quiet ELSE 0) \in Nat
        BY DEF Quiet
    <2>3. check' \in [step : {"none", "vk next", "panic", "ok", "mismatch"}, pk : Readings,
                      at : Nat, together : SUBSET Nat]
        BY <1>6, <2>1, <2>2 DEF CheckVk
    <2> QED BY <1>6, <2>3 DEF CheckVk, readers
<1>7. CASE UNCHANGED vars
    BY <1>7 DEF vars
<1> QED BY <1>2, <1>3, <1>4, <1>5, <1>6, <1>7 DEF Next

----------------------------------------------------------------------------
(* The check.                                                              *)

LEMMA PkStaysTheRuns == PkIsTheRuns /\ [Next]_vars => PkIsTheRuns'
<1> SUFFICES ASSUME PkIsTheRuns, [Next]_vars PROVE PkIsTheRuns'
    OBVIOUS
<1> USE DEF PkIsTheRuns
<1>1. CASE Keygen
    <2>1. CASE RunKeygen
        BY <2>1 DEF RunKeygen
    <2>2. CASE CreatePk
        BY <2>2 DEF CreatePk
    <2>3. CASE WritePk
        BY <2>3 DEF WritePk
    <2>4. CASE CreateVk
        BY <2>4 DEF CreateVk
    <2>5. CASE WriteVk
        BY <2>5 DEF WriteVk
    <2>6. CASE KillKeygen
        BY <2>6 DEF KillKeygen
    <2> QED BY <1>1, <2>1, <2>2, <2>3, <2>4, <2>5, <2>6 DEF Keygen
<1>2. CASE UNCHANGED <<umbra_pk, keygen, runs>>
    BY <1>2
<1> QED BY <1>1, <1>2 DEF Next, StartServer, EndServer, Prove, CheckPk, CheckVk, vars

\* keygen only adds to what a check has seen together.
LEMMA KeygenKeepsCheck ==
    ASSUME TypeOK, Keygen
    PROVE  /\ check'.step = check.step /\ check'.pk = check.pk /\ check'.at = check.at
           /\ check.together \subseteq check'.together
           /\ NotePair => PairOnDisk' \subseteq check'.together
<1>1. UNCHANGED check \/ NotePair
    BY KeygenTypes
<1>2. check \in [step : {"none", "vk next", "panic", "ok", "mismatch"}, pk : Readings,
                 at : Nat, together : SUBSET Nat]
    BY DEF TypeOK
<1> QED BY <1>1, <1>2 DEF NotePair

LEMMA PairNext == PairInv /\ [Next]_vars => PairInv'
<1> SUFFICES ASSUME PairInv, [Next]_vars PROVE AboutToAgree' /\ OkMeansPair'
    BY TypeNext, PkStaysTheRuns DEF PairInv
<1>0. TypeOK /\ PkIsTheRuns /\ AboutToAgree /\ OkMeansPair
    BY DEF PairInv
<1> USE DEF AboutToAgree, OkMeansPair
<1>1. CASE Keygen
    <2>1. OkMeansPair'
        BY <1>0, <1>1, KeygenKeepsCheck
    <2>2. CASE umbra_vk' = umbra_vk
        BY <1>0, <1>1, <2>2, KeygenKeepsCheck
    <2>3. CASE CreateVk
        BY <2>1, <2>3 DEF CreateVk
    <2>4. CASE WriteVk
        <3>1. umbra_vk' = runs /\ umbra_pk' = runs /\ runs # Torn
            BY <1>0, <2>4, RunsAssumption DEF WriteVk, PkIsTheRuns, TypeOK
        <3>2. runs \in check'.together
            BY <1>0, <1>1, <2>4, <3>1, KeygenKeepsCheck DEF WriteVk, PairOnDisk
        <3> QED BY <2>1, <3>1, <3>2
    <2> QED BY <1>1, <2>1, <2>2, <2>3, <2>4
            DEF Keygen, RunKeygen, CreatePk, WritePk, KillKeygen
<1>2. CASE CheckPk
    <2>1. check' = [step |-> "vk next", pk |-> Read(umbra_pk), at |-> 0,
                    together |-> PairOnDisk]
        BY <1>2 DEF CheckPk
    <2>2. Read(umbra_pk).key = umbra_pk /\ check'.pk = Read(umbra_pk)
        BY <2>1 DEF Read
    <2>3. umbra_vk' = umbra_vk
        BY <1>2 DEF CheckPk
    <2> QED BY <2>1, <2>2, <2>3 DEF PairOnDisk
<1>3. CASE CheckVk
    <2>1. /\ check.step = "vk next"
          /\ check'.step = Verdict(check.pk.key, umbra_vk)
          /\ check'.pk = check.pk /\ check'.together = check.together
        BY <1>0, <1>3 DEF CheckVk, TypeOK
    <2>2. check'.step = "ok" => umbra_vk # Torn /\ umbra_vk = check.pk.key
        BY <2>1 DEF Verdict, Verifies
    <2>3. check'.step # "vk next"
        BY <2>1 DEF Verdict
    <2> QED BY <1>0, <2>1, <2>2, <2>3
<1>4. CASE UNCHANGED <<umbra_pk, umbra_vk, check>>
    BY <1>0, <1>4
<1> QED BY <1>1, <1>2, <1>3, <1>4 DEF Next, StartServer, EndServer, Prove, vars

\* verify-ceremony-params says OK only of a pair that was on the disk at a moment of its
\* check, wherever keygen is at work or is killed between the two reads.
THEOREM OkIsSound == Spec => []OkMeansPair
<1>1. Init => PairInv
    BY TypeInit DEF Init, PairInv, PkIsTheRuns, AboutToAgree, OkMeansPair
<1>2. PairInv => OkMeansPair
    BY DEF PairInv
<1> QED BY <1>1, <1>2, PairNext, PTL DEF Spec

----------------------------------------------------------------------------
(* The service.                                                            *)

\* What ServiceIsPredictable says of one relay and one contributor.
Predictable(s, c) ==
    LET at == server[s].at
    IN  /\ at \in finished => Accepts(s, c)
        /\ check.at = at => (check.step = "ok" <=> Accepts(s, c))

\* ... in the quiet time that it is now.
PredictableNow == \A s \in Servers, c \in Provers :
    (server[s].at # 0 /\ server[s].at = runs /\ proof[c].at = runs) => Predictable(s, c)

\* What was read in this quiet time is what is on the disk, so both sides of the promise are
\* about the files.
LEMMA NowIsPredictable == TypeOK /\ ReadsAreCurrent /\ FinishedLeavesPair => PredictableNow
<1> SUFFICES ASSUME TypeOK, ReadsAreCurrent, FinishedLeavesPair,
                    NEW s \in Servers, NEW c \in Provers,
                    server[s].at # 0, server[s].at = runs, proof[c].at = runs
             PROVE  Predictable(s, c)
    BY DEF PredictableNow
<1>1. server[s].key = umbra_vk /\ umbra_vk # Torn
    BY DEF ReadsAreCurrent
<1>2. proof[c].key = umbra_pk /\ umbra_pk # Torn
    BY DEF ReadsAreCurrent
<1>3. Accepts(s, c) <=> umbra_pk = umbra_vk
    BY <1>1, <1>2 DEF Accepts, Verifies
<1>4. runs \in finished => umbra_pk = umbra_vk
    BY DEF FinishedLeavesPair
<1>5. check.at = runs => check.step = Verdict(umbra_pk, umbra_vk)
    BY DEF ReadsAreCurrent
<1>6. Verdict(umbra_pk, umbra_vk) = "ok" <=> umbra_pk = umbra_vk
    BY <1>1, <1>2 DEF Verdict, Verifies
<1> QED BY <1>3, <1>4, <1>5, <1>6 DEF Predictable

\* While keygen is at work, and once it runs again, what was read before is of a time that
\* is over.
LEMMA KeygenEndsTimes ==
    ASSUME TypeOK, Keygen, NEW at \in Nat, NotOver(at)
    PROVE  /\ at = 0 \/ at < runs'
           /\ NotOver(at)'
<1>1. runs \in Nat
    BY DEF TypeOK
<1>2. CASE RunKeygen
    BY <1>1, <1>2 DEF RunKeygen, NotOver
<1>3. CASE keygen # "idle" /\ runs' = runs
    BY <1>1, <1>3 DEF NotOver
<1>4. CASE CreatePk
    BY <1>3, <1>4 DEF CreatePk
<1>5. CASE WritePk
    BY <1>3, <1>5 DEF WritePk
<1>6. CASE CreateVk
    BY <1>3, <1>6 DEF CreateVk
<1>7. CASE WriteVk
    BY <1>3, <1>7 DEF WriteVk
<1>8. CASE KillKeygen
    BY <1>3, <1>8 DEF KillKeygen
<1> QED BY <1>2, <1>4, <1>5, <1>6, <1>7, <1>8 DEF Keygen

LEMMA FinishedNext ==
    ASSUME TypeOK, PkIsTheRuns, FinishedLeavesPair, [Next]_vars
    PROVE  FinishedLeavesPair'
<1> USE DEF FinishedLeavesPair
<1>0. runs \in Nat /\ finished \subseteq Nat
    BY DEF TypeOK
<1>1. CASE RunKeygen
    BY <1>0, <1>1 DEF RunKeygen
<1>2. CASE CreatePk
    BY <1>0, <1>2 DEF CreatePk
<1>3. CASE WritePk
    BY <1>0, <1>3 DEF WritePk
<1>4. CASE CreateVk
    BY <1>0, <1>4 DEF CreateVk
<1>5. CASE WriteVk
    <2>1. /\ keygen' = "idle" /\ umbra_vk' = runs /\ umbra_pk' = runs
          /\ runs' = runs /\ finished' = finished \cup {runs}
        BY <1>5 DEF WriteVk, PkIsTheRuns
    <2> QED BY <1>0, <2>1
<1>6. CASE KillKeygen
    BY <1>0, <1>6 DEF KillKeygen
<1>7. CASE UNCHANGED <<umbra_pk, umbra_vk, keygen, runs, finished>>
    BY <1>0, <1>7
<1> QED BY <1>1, <1>2, <1>3, <1>4, <1>5, <1>6, <1>7
        DEF Next, Keygen, StartServer, EndServer, Prove, CheckPk, CheckVk, vars

\* A reading is current when it is made.
LEMMA QuietIsNow ==
    ASSUME TypeOK
    PROVE  Quiet \in Nat /\ NotOver(Quiet) /\ (Quiet # 0 => Quiet = runs)
<1>1. runs \in Nat
    BY DEF TypeOK
<1>2. CASE keygen = "idle"
    BY <1>1, <1>2 DEF Quiet, NotOver
<1>3. CASE keygen # "idle"
    BY <1>1, <1>3 DEF Quiet, NotOver
<1> QED BY <1>2, <1>3

LEMMA ReadsNext ==
    ASSUME TypeOK, ReadsAreCurrent, [Next]_vars
    PROVE  ReadsAreCurrent'
<1>0. /\ \A s \in Servers : server[s].at \in Nat
      /\ \A c \in Provers : proof[c].at \in Nat
      /\ check.at \in Nat /\ check.pk.at \in Nat /\ runs \in Nat
    BY DEF TypeOK, Readings
<1>1. CASE Keygen
    <2>1. UNCHANGED <<server, proof>> /\ runs' \in Nat
        BY <1>1, KeygenTypes DEF readers
    <2>2. check'.step = check.step /\ check'.pk = check.pk /\ check'.at = check.at
        BY <1>1, KeygenKeepsCheck
    <2>3. ASSUME NEW s \in Servers
          PROVE  /\ NotOver(server[s].at)' /\ (server[s].at = 0 \/ server[s].at < runs')
                 /\ server[s].at # 0 => server[s].key # Torn
        BY <1>0, <1>1, <2>1, KeygenEndsTimes DEF ReadsAreCurrent, NotOver
    <2>4. ASSUME NEW c \in Provers
          PROVE  /\ NotOver(proof[c].at)' /\ (proof[c].at = 0 \/ proof[c].at < runs')
                 /\ proof[c].at # 0 => proof[c].key # Torn
        BY <1>0, <1>1, <2>1, KeygenEndsTimes DEF ReadsAreCurrent, NotOver
    <2>5. NotOver(check.pk.at)' /\ (check.pk.at = 0 \/ check.pk.at < runs')
        BY <1>0, <1>1, <2>2, KeygenEndsTimes DEF ReadsAreCurrent, NotOver
    <2>6. NotOver(check.at)' /\ (check.at = 0 \/ check.at < runs')
        BY <1>0, <1>1, <2>2, KeygenEndsTimes DEF ReadsAreCurrent, NotOver
    <2> QED BY <1>0, <2>1, <2>2, <2>3, <2>4, <2>5, <2>6 DEF ReadsAreCurrent
<1>2. ASSUME NEW s \in Servers, StartServer(s)
      PROVE  ReadsAreCurrent'
    <2>1. /\ umbra_vk # Torn /\ server' = [server EXCEPT ![s] = Read(umbra_vk)]
          /\ UNCHANGED <<umbra_pk, umbra_vk, keygen, runs, proof, check>>
        BY <1>2 DEF StartServer
    <2>2. \A t \in Servers : server'[t] = IF t = s THEN Read(umbra_vk) ELSE server[t]
        BY <2>1 DEF TypeOK
    <2>3. Read(umbra_vk).key = umbra_vk /\ Read(umbra_vk).at = Quiet
        BY DEF Read
    <2> QED BY <2>1, <2>2, <2>3, QuietIsNow DEF ReadsAreCurrent, NotOver
<1>3. ASSUME NEW s \in Servers, EndServer(s)
      PROVE  ReadsAreCurrent'
    <2>1. /\ server' = [server EXCEPT ![s] = Nothing]
          /\ UNCHANGED <<umbra_pk, umbra_vk, keygen, runs, proof, check>>
        BY <1>3 DEF EndServer
    <2>2. \A t \in Servers : server'[t] = IF t = s THEN Nothing ELSE server[t]
        BY <2>1 DEF TypeOK
    <2>3. Nothing.at = 0
        BY DEF Nothing
    <2> QED BY <1>0, <2>1, <2>2, <2>3 DEF ReadsAreCurrent, NotOver
<1>4. ASSUME NEW c \in Provers, Prove(c)
      PROVE  ReadsAreCurrent'
    <2>1. /\ umbra_pk # Torn /\ proof' = [proof EXCEPT ![c] = Read(umbra_pk)]
          /\ UNCHANGED <<umbra_pk, umbra_vk, keygen, runs, server, check>>
        BY <1>4 DEF Prove
    <2>2. \A d \in Provers : proof'[d] = IF d = c THEN Read(umbra_pk) ELSE proof[d]
        BY <2>1 DEF TypeOK
    <2>3. Read(umbra_pk).key = umbra_pk /\ Read(umbra_pk).at = Quiet
        BY DEF Read
    <2> QED BY <2>1, <2>2, <2>3, QuietIsNow DEF ReadsAreCurrent, NotOver
<1>5. CASE CheckPk
    <2>1. /\ check' = [step |-> "vk next", pk |-> Read(umbra_pk), at |-> 0,
                       together |-> PairOnDisk]
          /\ UNCHANGED <<umbra_pk, umbra_vk, keygen, runs, server, proof>>
        BY <1>5 DEF CheckPk, readers
    <2>2. check'.pk.key = umbra_pk /\ check'.pk.at = Quiet /\ check'.at = 0
        BY <2>1 DEF Read
    <2>3. NotOver(check.pk.at)' /\ NotOver(check.at)'
        <3>1. Quiet \in Nat /\ Quiet <= runs /\ (Quiet = runs /\ Quiet # 0 => keygen = "idle")
            BY QuietIsNow DEF NotOver
        <3>2. keygen' = keygen /\ runs' = runs
            BY <2>1
        <3>3. NotOver(check.pk.at)'
            BY <2>2, <3>1, <3>2 DEF NotOver
        <3>4. NotOver(check.at)'
            BY <1>0, <2>2, <3>2 DEF NotOver
        <3> QED BY <3>3, <3>4
    <2>4. /\ \A s \in Servers : NotOver(server[s].at)'
          /\ \A c \in Provers : NotOver(proof[c].at)'
        BY <2>1 DEF ReadsAreCurrent, NotOver
    <2> QED BY <1>0, <2>1, <2>2, <2>3, <2>4 DEF ReadsAreCurrent
<1>6. CASE CheckVk
    <2>1. /\ check'.step = Verdict(check.pk.key, umbra_vk) /\ check'.pk = check.pk
          /\ check'.at = IF check.pk.at = Quiet THEN Quiet ELSE 0
          /\ UNCHANGED <<umbra_pk, umbra_vk, keygen, runs, server, proof>>
        BY <1>6 DEF CheckVk, readers, TypeOK
    <2>2. check'.at # 0 => check'.at = check.pk.at /\ check.pk.key = umbra_pk
        BY <2>1, QuietIsNow DEF ReadsAreCurrent
    <2> QED BY <1>0, <2>1, <2>2, QuietIsNow DEF ReadsAreCurrent, NotOver
<1>7. CASE UNCHANGED vars
    BY <1>7 DEF vars, ReadsAreCurrent, NotOver
<1> QED BY <1>1, <1>2, <1>3, <1>4, <1>5, <1>6, <1>7 DEF Next


\* What was promised of a time that is over stays as it was: nobody reads, checks or comes
\* to an end in it any more.
LEMMA PastIsKept ==
    ASSUME TypeOK, ReadsAreCurrent, ServiceIsPredictable, [Next]_vars,
           NEW s \in Servers, NEW c \in Provers,
           server'[s].at # 0, server'[s].at # runs', proof'[c].at = server'[s].at
    PROVE  Predictable(s, c)'
<1>0. /\ \A t \in Servers : server[t].at \in Nat /\ NotOver(server[t].at)
      /\ \A d \in Provers : proof[d].at \in Nat
      /\ check.at \in Nat /\ check.pk.at \in Nat /\ runs \in Nat /\ finished \subseteq Nat
    BY DEF TypeOK, Readings, ReadsAreCurrent
<1>1. \A t \in Servers, d \in Provers :
        server[t].at # 0 /\ proof[d].at = server[t].at => Predictable(t, d)
    BY DEF ServiceIsPredictable, Predictable
<1>2. SUFFICES
        /\ server'[s] = server[s] /\ proof'[c] = proof[c]
        /\ server[s].at \in finished' => server[s].at \in finished
        /\ check'.at = server[s].at => check.at = server[s].at /\ check'.step = check.step
    BY <1>1 DEF Predictable, Accepts
<1>3. CASE Keygen
    <2>1. UNCHANGED <<server, proof>>
        BY <1>3, KeygenTypes DEF readers
    <2>2. check'.step = check.step /\ check'.at = check.at
        BY <1>3, KeygenKeepsCheck
    <2>3. finished' = finished \/ WriteVk
        BY <1>3 DEF Keygen, RunKeygen, CreatePk, WritePk, CreateVk, WriteVk, KillKeygen
    <2>4. WriteVk => finished' = finished \cup {runs} /\ runs' = runs
        BY DEF WriteVk
    <2> QED BY <1>0, <2>1, <2>2, <2>3, <2>4
<1>4. ASSUME NEW t \in Servers, StartServer(t) \/ EndServer(t)
      PROVE  /\ server'[s] = server[s]
             /\ UNCHANGED <<runs, finished, proof, check>>
    <2>1. /\ server' = [server EXCEPT ![t] = Read(umbra_vk)] \/ server' = [server EXCEPT ![t] = Nothing]
          /\ UNCHANGED <<runs, finished, proof, check>>
        BY <1>4 DEF StartServer, EndServer
    <2>2. Read(umbra_vk).at = Quiet /\ Nothing.at = 0
        BY DEF Read, Nothing
    <2>3. server'[t].at = Quiet \/ server'[t].at = 0
        BY <2>1, <2>2 DEF TypeOK
    <2>4. s # t
        BY <2>1, <2>3, QuietIsNow
    <2> QED BY <2>1, <2>4 DEF TypeOK
<1>5. ASSUME NEW d \in Provers, Prove(d)
      PROVE  /\ proof'[c] = proof[c]
             /\ UNCHANGED <<runs, finished, server, check>>
    <2>1. /\ proof' = [proof EXCEPT ![d] = Read(umbra_pk)]
          /\ UNCHANGED <<runs, finished, server, check>>
        BY <1>5 DEF Prove
    <2>2. proof'[d].at = Quiet
        BY <2>1 DEF TypeOK, Read
    <2>3. c # d
        BY <2>1, <2>2, QuietIsNow
    <2> QED BY <2>1, <2>3 DEF TypeOK
<1>6. CASE CheckPk
    <2>1. check'.at = 0 /\ UNCHANGED <<finished, server, proof>>
        BY <1>6 DEF CheckPk, readers
    <2> QED BY <2>1
<1>7. CASE CheckVk
    <2>1. /\ check'.at = IF check.pk.at = Quiet THEN Quiet ELSE 0
          /\ UNCHANGED <<runs, finished, server, proof>>
        BY <1>7 DEF CheckVk, readers, TypeOK
    <2>2. check'.at = 0 \/ check'.at = runs
        BY <2>1, QuietIsNow
    <2> QED BY <2>1, <2>2
<1>8. CASE UNCHANGED vars
    BY <1>8 DEF vars
<1> QED BY <1>3, <1>4, <1>5, <1>6, <1>7, <1>8 DEF Next

LEMMA ServiceNext == ServiceInv /\ [Next]_vars => ServiceInv'
<1> SUFFICES ASSUME ServiceInv, [Next]_vars PROVE ServiceInv'
    OBVIOUS
<1>1. TypeOK /\ PkIsTheRuns /\ ReadsAreCurrent /\ FinishedLeavesPair /\ ServiceIsPredictable
    BY DEF ServiceInv
<1>2. TypeOK' /\ PkIsTheRuns' /\ ReadsAreCurrent' /\ FinishedLeavesPair'
    BY <1>1, TypeNext, PkStaysTheRuns, ReadsNext, FinishedNext
<1>3. PredictableNow'
    BY <1>2, NowIsPredictable, PTL
<1>4. ASSUME NEW s \in Servers, NEW c \in Provers,
             server'[s].at # 0, proof'[c].at = server'[s].at
      PROVE  Predictable(s, c)'
    <2>1. CASE server'[s].at = runs'
        BY <1>3, <1>4, <2>1 DEF PredictableNow
    <2>2. CASE server'[s].at # runs'
        BY <1>1, <1>4, <2>2, PastIsKept
    <2> QED BY <2>1, <2>2
<1>5. ServiceIsPredictable'
    BY <1>4 DEF ServiceIsPredictable, Predictable
<1> QED BY <1>2, <1>5 DEF ServiceInv

\* A relay and a contributor that read their keys while keygen is not at work agree as the
\* tools say: after a run that came to its end always, after one that was killed exactly
\* when verify-ceremony-params says OK.
THEOREM ServiceAsChecked == Spec => []ServiceIsPredictable
<1>1. Init => ServiceInv
    <2> SUFFICES ASSUME Init PROVE ServiceInv
        OBVIOUS
    <2>1. /\ \A s \in Servers : server[s].at = 0
          /\ \A c \in Provers : proof[c].at = 0
          /\ check.at = 0 /\ check.pk.at = 0 /\ runs = 0 /\ finished = {}
          /\ keygen = "idle"
        BY DEF Init, Nothing
    <2>2. ReadsAreCurrent
        BY <2>1 DEF ReadsAreCurrent, NotOver
    <2> QED BY <2>1, <2>2, TypeInit
            DEF ServiceInv, PkIsTheRuns, FinishedLeavesPair, ServiceIsPredictable
<1>2. ServiceInv => ServiceIsPredictable
    BY DEF ServiceInv
<1> QED BY <1>1, <1>2, ServiceNext, PTL DEF Spec

=============================================================================
