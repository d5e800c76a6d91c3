------------------------------- MODULE Export -------------------------------
(***************************************************************************)
(* The relay's two exports (lib.rs, export_stix and export_misp; stix.rs;  *)
(* misp.rs): whoever asks gets, from one moment under the mutex, what was  *)
(* disclosed and scored high enough, as a STIX bundle or as a MISP event.  *)
(* The quotes that are escaped in a pattern are formatting, and left out.  *)
(*                                                                         *)
(* Both walk the hash map of scores.  Its order is fixed while its keys    *)
(* are, and arbitrary again once a key came in.                            *)
(***************************************************************************)
EXTENDS Relay, Calendar, IndicatorKind, SequencesExt

CONSTANTS
    Thresholds,         \* the thresholds consumers ask for (the default is 1)
    ToIdsThreshold,     \* to_ids_confidence_threshold, by default 50
    FullConfidence,     \* AppState.score_for_full_confidence
    NoExport            \* nothing exported in this life of the process

\* normalize_indicator trims before it hashes: a padded spelling is the same indicator.
ASSUME SpellingsAssumption ==
    /\ Strings = Raws
    /\ \A raw \in Raws : HashOf[Trimmed[raw]] = HashOf[raw]
ASSUME EpochsAssumption == Epochs \subseteq Nat
ASSUME ThresholdsAssumption == Thresholds \subseteq U32
ASSUME ConfidenceAssumption == ToIdsThreshold \in 0..255 /\ FullConfidence \in U32

VARIABLES
    order,              \* the order in which the hash map of scores is walked
    latest              \* the last export a consumer received

exportVars == <<vars, order, latest>>

\* The walk, filtered: those of the keys that are wanted, in the order of the map.
Walked(wanted) ==
    LET kept[n \in 0..Len(order)] ==
            IF n = 0 THEN << >>
            ELSE IF order[n] \in wanted THEN Append(kept[n - 1], order[n])
            ELSE kept[n - 1]
    IN  kept[Len(order)]

\* A StixInput or MispInput: what the tables hold for a key whose indicator is disclosed.
Input(key) ==
    [raw_indicator |-> disclosed[key[1]], epoch |-> key[2],
     score |-> scores[key], proof_count |-> Lookup(proof_counts, key)]

\* MUTANT: the score must exceed the threshold.
InputsAbove(threshold) ==
    LET keys == Walked({k \in DOMAIN scores :
                    scores[k] > threshold /\ k[1] \in DOMAIN disclosed})
    IN  [i \in DOMAIN keys |-> Input(keys[i])]

\* export_stix and export_misp: the disclosed entries that reach the threshold, as walked.
Inputs(threshold) ==
    LET keys == Walked({k \in DOMAIN scores :
                    scores[k] >= threshold /\ k[1] \in DOMAIN disclosed})
    IN  [i \in DOMAIN keys |-> Input(keys[i])]

\* min(100, score * 100 / score_for_full_confidence)
NormalizeConfidence(score) ==
    IF FullConfidence = 0 \/ score >= FullConfidence THEN 100
    ELSE (score * 100) \div FullConfidence

\* deterministic_uuid_like, as the inputs of its hash that vary within a relay.
Uuid(raw, epoch, salt) == <<raw, epoch, salt>>

\* The object path stix_pattern_for asserts for a kind.
StixPath ==
    [kind \in Kinds |->
        CASE kind = "Md5"     -> "file:hashes.MD5"
          [] kind = "Sha1"    -> "file:hashes.SHA-1"
          [] kind = "Sha256"  -> "file:hashes.SHA-256"
          [] kind = "Ipv4"    -> "ipv4-addr"
          [] kind = "Ipv6"    -> "ipv6-addr"
          [] kind = "Url"     -> "url"
          [] kind = "Domain"  -> "domain-name"
          [] OTHER            -> "x-umbra:unrecognized-indicator"]

stix_pattern_for(raw) == [path |-> StixPath[classify(Trimmed[raw])], text |-> Trimmed[raw]]

misp_type_and_category ==
    [kind \in Kinds |->
        CASE kind = "Md5"     -> <<"md5", "Payload delivery">>
          [] kind = "Sha1"    -> <<"sha1", "Payload delivery">>
          [] kind = "Sha256"  -> <<"sha256", "Payload delivery">>
          [] kind \in {"Ipv4", "Ipv6"} -> <<"ip-dst", "Network activity">>
          [] kind = "Url"     -> <<"url", "Network activity">>
          [] kind = "Domain"  -> <<"domain", "Network activity">>
          [] OTHER            -> <<"text", "Other">>]

\* build_stix_bundle: inputs whose epoch is no date are left out, and keep their place
\* in the numbering.
StixBundle(threshold) ==
    LET inputs == Inputs(threshold)
        Indicator(i) ==
            [id |-> Uuid(inputs[i].raw_indicator, inputs[i].epoch, i - 1),
             pattern |-> stix_pattern_for(inputs[i].raw_indicator),
             valid_from |-> ValidFrom(inputs[i].epoch),
             valid_until |-> ValidUntil(inputs[i].epoch),
             confidence |-> NormalizeConfidence(inputs[i].score),
             x_umbra_proof_count |-> inputs[i].proof_count]
    IN  [format |-> "stix", threshold |-> threshold,
         objects |-> {Indicator(i) : i \in {j \in DOMAIN inputs : IsDate(inputs[j].epoch)}}]

\* MUTANT: the handler's own copy of the filter compares strictly.
MispInputsStrict(threshold) == Inputs(threshold + 1)

\* export_misp filters with a copy of export_stix's code.
MispInputs(threshold) == Inputs(threshold)

\* build_misp_event: dated by the first entry walked, with no date (0) if that one has none.
MispEvent(threshold) ==
    LET inputs == MispInputs(threshold)
        Object(input) ==
            [type |-> misp_type_and_category[classify(input.raw_indicator)],
             value |-> input.raw_indicator,
             to_ids |-> NormalizeConfidence(input.score) >= ToIdsThreshold,
             proof_count |-> input.proof_count,
             first_seen |-> ValidFrom(input.epoch)]
    IN  [format |-> "misp", threshold |-> threshold,
         date |-> IF inputs # << >> /\ IsDate(inputs[1].epoch)
                  THEN ValidFrom(inputs[1].epoch) ELSE 0,
         objects |-> {Object(inputs[i]) : i \in {j \in DOMAIN inputs : IsDate(inputs[j].epoch)}}]

----------------------------------------------------------------------------
ExportInit ==
    /\ Init
    /\ order = << >>
    /\ latest = NoExport

\* A step of the relay; the map is walked in any order once its keys have changed.
Walk == order' \in IF DOMAIN scores' = DOMAIN scores THEN {order} ELSE SetToSeqs(DOMAIN scores')

RelayStep ==
    \/ /\ \E h \in Handlers : Receive(h) \/ AskScore(h) \/ Submit(h)
       /\ Walk
       /\ UNCHANGED latest
    \/ /\ Restart
       /\ Walk
       /\ latest' = NoExport

\* The handlers panic on a poisoned mutex, and the consumer receives nothing.
ExportStix(threshold) ==
    /\ ~ poisoned
    /\ latest' = StixBundle(threshold)
    /\ UNCHANGED <<vars, order>>

ExportMisp(threshold) ==
    /\ ~ poisoned
    /\ latest' = MispEvent(threshold)
    /\ UNCHANGED <<vars, order>>

ExportNext ==
    \/ RelayStep
    \/ \E threshold \in Thresholds : ExportStix(threshold) \/ ExportMisp(threshold)

ExportSpec == ExportInit /\ [][ExportNext]_exportVars

----------------------------------------------------------------------------
(* What an export must say.                                                *)

Received(format) == latest # NoExport /\ latest.format = format

\* The contributors counted for a raw indicator and an epoch.
CountedFor(raw, epoch) ==
    {o \in counted : o.indicator_hash = FrToHex(HashOf[raw]) /\ o.epoch = epoch}

\* What a consumer was given stays true: as long as the process lives and its counters
\* do not wrap, the same export would list every indicator again, with no less
\* confidence and no fewer proofs (schema/stix_mapping.md: disclosure is monotonic).
ExportsNeverRetract ==
    OverflowChecks /\ Received("stix") =>
        \A old \in latest.objects :
            \E new \in StixBundle(latest.threshold).objects :
                /\ new.pattern = old.pattern
                /\ new.valid_from = old.valid_from
                /\ new.confidence >= old.confidence
                /\ new.x_umbra_proof_count >= old.x_umbra_proof_count

\* The asserted type is the narrowest one that the text supports ("asserting a structured
\* type that's wrong is worse than not asserting one at all", indicator_kind.rs): an
\* address is no domain name, and only a text that supports no type is unrecognized.
TypeIsNarrowest(pattern) ==
    LET supported == Passes[pattern.text]
        Narrowest(test, name) ==
            pattern.path = name <=>
                test \in supported /\ (test = "domain" => "ipv4" \notin supported)
    IN  /\ Narrowest("ipv4", "ipv4-addr") /\ Narrowest("ipv6", "ipv6-addr")
        /\ Narrowest("scheme", "url") /\ Narrowest("domain", "domain-name")
        /\ pattern.path = "x-umbra:unrecognized-indicator" <=> supported = {}

\* The raw indicators on record, with the epochs they were counted for.
Exportable ==
    {entry \in Raws \X Epochs :
        /\ IsDate(entry[2])
        /\ CountedFor(entry[1], entry[2]) # {}
        /\ \E text \in DOMAIN disclosed : disclosed[text] = entry[1]}

\* The default threshold exports "anything with at least one accepted proof"
\* (StixExportQuery), when no tier weighs nothing: every disclosed indicator, for every
\* epoch that is a date and has a counted observation, and nothing else; with as many
\* proofs as contributors counted, and valid for exactly that day (whose end is no date
\* of four-digit years on the last of them); under the right type, however the first to
\* disclose it padded it.
DefaultExportIsComplete ==
    OverflowChecks /\ (\A tier \in 0..3 : Weights[tier] > 0) =>
        LET objects == StixBundle(1).objects
        IN  /\ {<<x.pattern.text, x.valid_from>> : x \in objects} =
                {<<Trimmed[entry[1]], entry[2]>> : entry \in Exportable}
            /\ \A x \in objects :
                /\ x.x_umbra_proof_count = Cardinality(CountedFor(x.pattern.text, x.valid_from))
                /\ TypeIsNarrowest(x.pattern)
                /\ x.valid_from # LastDate => IsDate(x.valid_until)
                /\ DayNumber(x.valid_until) = DayNumber(x.valid_from) + 1

\* The MISP attribute types that stand for a STIX object path.
SameType(path, type) ==
    <<path, type>> \in
        {<<"file:hashes.MD5", "md5">>, <<"file:hashes.SHA-1", "sha1">>,
         <<"file:hashes.SHA-256", "sha256">>, <<"ipv4-addr", "ip-dst">>,
         <<"ipv6-addr", "ip-dst">>, <<"url", "url">>, <<"domain-name", "domain">>,
         <<"x-umbra:unrecognized-indicator", "text">>}

\* A MISP event covers the indicators a STIX export of the same moment would
\* (export_misp), with the same proofs and the same kind ("so the two export formats
\* can't silently disagree", indicator_kind.rs), flags exactly the confident ones, and
\* is dated like one of its objects if it is dated at all.
MispAgreesWithStix ==
    \A threshold \in Thresholds :
        LET event == MispEvent(threshold)
            bundle == StixBundle(threshold)
            Same(x, y) ==
                /\ Trimmed[x.value] = y.pattern.text
                /\ SameType(y.pattern.path, x.type[1])
                /\ x.first_seen = y.valid_from
                /\ x.proof_count = y.x_umbra_proof_count
                /\ x.to_ids <=> y.confidence >= ToIdsThreshold
        IN  /\ \A x \in event.objects : \E y \in bundle.objects : Same(x, y)
            /\ \A y \in bundle.objects : \E x \in event.objects : Same(x, y)
            /\ event.date # 0 => \E x \in event.objects : x.first_seen = event.date

\* An object's identifier is "deterministic per (relay_id, indicator, epoch)"
\* (build_stix_bundle): exported again, the same indicator of the same epoch has the
\* same identifier.
StixIdsAreStable ==
    Received("stix") =>
        \A threshold \in Thresholds :
            \A old \in latest.objects, new \in StixBundle(threshold).objects :
                old.pattern = new.pattern /\ old.valid_from = new.valid_from
                    => old.id = new.id

=============================================================================
