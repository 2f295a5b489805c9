---------------------------- MODULE MCTestRunner ----------------------------
EXTENDS TestRunner

MCFiles == <<"a_test", "b_test">>

\* All tests, those of a describe, those with a tag.
MCArgs ==
    {[filter |-> {}, tags |-> {}, noFailFast |-> b] : b \in BOOLEAN}
    \cup {[filter |-> Labels, tags |-> g, noFailFast |-> TRUE] : g \in {{}, Tags}}
=============================================================================
