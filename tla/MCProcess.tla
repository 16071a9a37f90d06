------------------------------ MODULE MCProcess -----------------------------
EXTENDS Process

Cert(k) == [type |-> "CERTIFICATE", key |-> k]
Key(k) == [type |-> "EC PRIVATE KEY", key |-> k]
Params == [type |-> "EC PARAMETERS", key |-> "none"]

\* Certificates and keys missing, empty, matching and not, and unreadable.
Files == {
    [certs |-> None, keys |-> None], [certs |-> <<>>, keys |-> <<Params>>],
    [certs |-> <<Cert("k1"), Cert("ca")>>, keys |-> <<Params, Key("k1")>>],
    [certs |-> <<Cert("k1")>>, keys |-> None],
    [certs |-> None, keys |-> <<Key("k1"), Key("k2")>>],
    [certs |-> None, keys |-> <<Key(None)>>]}

Config(e, f, b, plain) ==
    [enabled |-> e, reflection |-> b, postgres |-> b, stream |-> b,
     disableTls |-> plain, certsFile |-> f.certs, keysFile |-> f.keys,
     rootsFile |-> f.certs]

\* Every set of features, without TLS; every file with two of them.
SomeConfigs ==
    {Config(e, [certs |-> None, keys |-> None], b, TRUE) :
        e \in SUBSET {"store", "gateway", "xds", "worker"}, b \in BOOLEAN}
    \cup {Config({"store", "xds"}, f, FALSE, FALSE) : f \in Files}
    \cup {[Config({"store"}, [certs |-> None, keys |-> None], TRUE, TRUE)
              EXCEPT !.reflection = FALSE]}
=============================================================================
