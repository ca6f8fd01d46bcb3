--------------------------- MODULE MCUploadSession ---------------------------
EXTENDS UploadSession, TLC

CONSTANTS s1, s2, c1, c2 \* model values

\* A file of two parts with its digest, a file of the same name, and a remote one.
Announced ==
  [filename |-> "a.txt", size_bytes |-> 2, sha256 |-> <<1, 2>>, backend |-> "local"]
Unannounced ==
  [filename |-> "a.txt", size_bytes |-> 1, sha256 |-> None, backend |-> "local"]
Remote ==
  [filename |-> "a.txt", size_bytes |-> 2, sha256 |-> None, backend |-> "s3"]

EitherBackend ==
  [s \in Sessions |-> IF s = s1 THEN {Announced} ELSE {Unannounced, Remote}]

\* Sessions of the two backends share nothing but the calls: no s3 session beside another.
RemoteIsAlone ==
  (\E s \in Sessions : sessions[s].backend = "s3")
    => Cardinality({s \in Sessions : Exists(s)}) = 1

Bodies == [s \in Sessions |-> IF s = s1 THEN {<<1>>, <<2>>} ELSE {<<3>>}]

CallSymmetry == Permutations(Calls)
=============================================================================
