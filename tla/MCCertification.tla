-------------------------- MODULE MCCertification --------------------------
(* Small instances of CertificationStream for TLC *)
EXTENDS CertificationStream, TLC

CONSTANTS n1, n2

KeyOf(parts, shared) == [parts |-> parts, shared |-> shared]
WS(keys, isolation, pa_unsafe) == [keys |-> keys, isolation |-> isolation, pa_unsafe |-> pa_unsafe]

\* A row, the row as a parent (shared), the table, DDL on the table, and a row with
\* parents, the shorter of two keys first
Row    == WS(<<KeyOf(<<"t", "a">>, FALSE)>>, FALSE, FALSE)
Parent == WS(<<KeyOf(<<"t", "a">>, TRUE)>>, FALSE, FALSE)
Table  == WS(<<KeyOf(<<"t">>, FALSE)>>, FALSE, FALSE)
DDL    == WS(<<KeyOf(<<"t">>, FALSE)>>, TRUE, FALSE)
Both   == WS(<<KeyOf(<<"t">>, TRUE), KeyOf(<<"t", "a">>, FALSE), KeyOf(<<"u">>, TRUE), KeyOf(<<"u", "a">>, TRUE)>>,
             FALSE, FALSE)
Unsafe == WS(<<KeyOf(<<"u">>, FALSE)>>, FALSE, TRUE)

Mixed == <<{Row, Table}, {Both, Parent, Unsafe}, {Row, Parent, DDL}, {Both, Table}>>

\* What the theorems on the history take for granted holds of these
ASSUME MixedShortFirst == ShortKeysFirst

----------------------------------------------------------------------------
(* The vectors of galera/tests/write_set_check.cpp: source, parts of the   *)
(* key, shared, last_seen_seqno, F_ISOLATION, expected depends_seqno       *)

Tested == INSTANCE Certification WITH MaxLength <- 16384, CheckInterval <- 128

Agrees(vector) ==
    LET Trx(i) == [global_seqno |-> i, source_id |-> vector[i][1],
                   keys |-> <<KeyOf(vector[i][2], vector[i][3])>>,
                   last_seen_seqno |-> vector[i][4], isolation |-> vector[i][5],
                   pa_unsafe |-> FALSE]
        after[i \in 0..Len(vector)] ==
            IF i = 0 THEN Tested!NewCertification(0)
            ELSE Tested!set_trx_committed(Tested!append_trx(after[i - 1], Trx(i)), Trx(i))
    IN \A i \in DOMAIN vector : Tested!Verdict(after[i - 1], Trx(i)) = vector[i][6]

\* test_cert_hierarchical_v1
ASSUME HierarchicalV1 ==
    Agrees(<< <<1, <<1>>,    FALSE, 0, FALSE, 0>>,
              <<1, <<1, 1>>, FALSE, 0, FALSE, 1>>,
              <<1, <<1>>,    FALSE, 0, FALSE, 2>>,
              <<1, <<1>>,    FALSE, 3, FALSE, 3>>,
              <<2, <<1, 1>>, FALSE, 3, FALSE, -1>>,
              <<2, <<1, 1>>, FALSE, 5, FALSE, 4>>,
              <<1, <<1>>,    FALSE, 5, FALSE, -1>>,
              <<1, <<1>>,    FALSE, 5, TRUE,  7>>,
              <<2, <<1>>,    FALSE, 5, TRUE,  8>> >>)

\* test_cert_hierarchical_v2
ASSUME HierarchicalV2 ==
    Agrees(<< <<1, <<1>>,       TRUE,  0,  FALSE, 0>>,
              <<1, <<1, 1>>,    TRUE,  0,  FALSE, 0>>,
              <<2, <<1, 1>>,    TRUE,  0,  FALSE, 0>>,
              <<3, <<1>>,       TRUE,  0,  FALSE, 0>>,
              <<2, <<1, 1>>,    FALSE, 0,  FALSE, 4>>,
              <<1, <<1, 1>>,    TRUE,  4,  FALSE, -1>>,
              <<1, <<1>>,       TRUE,  4,  FALSE, -1>>,
              <<1, <<1, 1, 1>>, TRUE,  4,  FALSE, -1>>,
              <<2, <<1, 1>>,    TRUE,  0,  FALSE, 5>>,
              <<2, <<1, 1>>,    TRUE,  6,  FALSE, 5>>,
              <<2, <<1, 1>>,    FALSE, 10, FALSE, 10>>,
              <<2, <<1, 1>>,    TRUE,  10, FALSE, 11>>,
              <<2, <<1, 1>>,    FALSE, 10, FALSE, 12>> >>)
=============================================================================
