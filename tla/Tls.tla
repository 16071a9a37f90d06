-------------------------------- MODULE Tls ---------------------------------
(***************************************************************************)
(* The TLS certificate of the HTTP server (provider/tls): keys and         *)
(* certificates are read from PEM files, and what is missing is generated. *)
(*                                                                         *)
(* A file is a sequence of PEM blocks [type, key]; the key of a            *)
(* certificate is the one its public key belongs to, and a block that      *)
(* cannot be parsed has the key None.  A path that is not set is None.     *)
(***************************************************************************)
EXTENDS Naturals, SequencesExt

CONSTANTS None

\* The keys that a process generates, in order.
Generated == <<"generated 1", "generated 2">>

KeyTypes == {"EC PRIVATE KEY", "RSA PRIVATE KEY", "PRIVATE KEY"}

\* The loaders panic on a block they cannot parse.
Panics(file, types) ==
    file # None /\ \E b \in Range(file) : b.type \in types /\ b.key = None

\* The blocks of the given types, in order; no file is as good as an empty one.
Blocks(file, types) ==
    IF file = None THEN <<>> ELSE SelectSeq(file, LAMBDA b : b.type \in types)

BuildPrivateKeys(keysFile) == Blocks(keysFile, KeyTypes)
BuildCertificates(certsFile) == Blocks(certsFile, {"CERTIFICATE"})

\* Mutant of BuildDefaultRSAPrivateKey: a generated key is not kept.
BuildDefaultRSAPrivateKey_Fresh(keysFile, priv) ==
    IF BuildPrivateKeys(keysFile) # <<>>
    THEN [key |-> BuildPrivateKeys(keysFile)[1].key, priv |-> priv]
    ELSE [key |-> Generated[priv + 1], priv |-> priv + 1]

\* The first key of the file, or the loader's own key, generated if there is
\* none yet; priv counts the keys generated so far.
BuildDefaultRSAPrivateKey(keysFile, priv) ==
    IF BuildPrivateKeys(keysFile) # <<>>
    THEN [key |-> BuildPrivateKeys(keysFile)[1].key, priv |-> priv]
    ELSE [key |-> Generated[1], priv |-> 1]

\* The certificates of the file, or one made for the default key.
BuildDefaultCertificate(certsFile, keysFile, priv) ==
    IF BuildCertificates(certsFile) # <<>> THEN BuildCertificates(certsFile)
    ELSE <<[type |-> "CERTIFICATE",
            key |-> BuildDefaultRSAPrivateKey(keysFile, priv).key]>>

\* TlsCertificateLoader.Build.
Build(certsFile, keysFile) ==
    LET first == BuildDefaultRSAPrivateKey(keysFile, 0)
        certs == BuildDefaultCertificate(certsFile, keysFile, first.priv)
    IN  [privateKey |-> first.key, leaf |-> certs[1].key,
         certificate |-> certs]

\* BuildConfig: the certificate, and the pool of root certificates if its path
\* is set.
BuildConfig(certsFile, keysFile, rootsFile) ==
    [certificate |-> Build(certsFile, keysFile),
     rootCAs |-> IF rootsFile = None THEN None
                 ELSE Range(BuildCertificates(rootsFile))]
=============================================================================
