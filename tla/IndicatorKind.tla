--------------------------- MODULE IndicatorKind ---------------------------
(***************************************************************************)
(* What a disclosed string is taken for (indicator_kind.rs): an ordered    *)
(* list of tests on the trimmed string, the first one passed decides.      *)
(* Strings are opaque; Passes tells which tests each one passes as it is.  *)
(***************************************************************************)
EXTENDS Naturals, Sequences, FiniteSetsExt

CONSTANTS
    Strings,            \* the raw strings
    Trimmed,            \* str::trim: [Strings -> Strings]
    Passes              \* the tests a string passes: [Strings -> SUBSET Tests]

\* The tests: hexadecimal of a length, an address, a scheme, dotted labels.
Tests == {"hex32", "hex40", "hex64", "ipv4", "ipv6", "scheme", "domain"}

ASSUME TrimAssumption ==
    /\ Trimmed \in [Strings -> Strings]
    /\ \A s \in Strings : Trimmed[Trimmed[s]] = Trimmed[s]

\* An IPv4 address always reads as dotted labels too; no other two tests overlap.
ASSUME TestsAssumption ==
    /\ Passes \in [Strings -> SUBSET Tests]
    /\ \A s \in Strings :
        /\ "ipv4" \in Passes[s] => "domain" \in Passes[s]
        /\ \A t, u \in Passes[s] : t = u \/ {t, u} = {"ipv4", "domain"}

Kinds == {"Md5", "Sha1", "Sha256", "Ipv4", "Ipv6", "Url", "Domain", "Unrecognized"}

\* MUTANT: domains are looked for before addresses.
TriedDomainFirst == << <<"domain", "Domain">>, <<"hex32", "Md5">>, <<"hex40", "Sha1">>,
                       <<"hex64", "Sha256">>, <<"ipv4", "Ipv4">>, <<"ipv6", "Ipv6">>,
                       <<"scheme", "Url">> >>

\* The tests in the order they are tried, each with the kind it stands for.
Tried == << <<"hex32", "Md5">>, <<"hex40", "Sha1">>, <<"hex64", "Sha256">>,
            <<"ipv4", "Ipv4">>, <<"ipv6", "Ipv6">>, <<"scheme", "Url">>,
            <<"domain", "Domain">> >>

\* classify's choice for a string, tested as it is.
FirstPassed(s) ==
    LET hits == {i \in DOMAIN Tried : Tried[i][1] \in Passes[s]}
    IN  IF hits = {} THEN "Unrecognized" ELSE Tried[Min(hits)][2]

\* MUTANT: the caller is expected to have trimmed.
ClassifyAsIs(raw) == FirstPassed(raw)

classify(raw) == FirstPassed(Trimmed[raw])

=============================================================================
