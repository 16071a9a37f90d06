------------------------------ MODULE MCWorker ------------------------------
EXTENDS Worker

T(s, r, d) == [prefix |-> "w", suffix |-> s, ifRunning |-> r, onDrop |-> d,
               args |-> TRUE]

ProcessSpecs == {
    T("exact", "abort", "cancel"), T("exact", "overlap", "nothing"),
    T("random", "abort", "terminate"),
    [T("unset", "invalid", "invalid") EXCEPT !.args = FALSE],
    Foreign, Unknown, Empty}

ExactIds == {<<"w", "exact">>}
=============================================================================
