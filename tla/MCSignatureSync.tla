--------------------------- MODULE MCSignatureSync ---------------------------
(* The vendor publishes v1, v2, v3 and v4 in this order, or skips one.  v2 and  *)
(* v4 are repairs of v1 under the same file name; v3 has no rules the parser    *)
(* finds.  v1 and v3 come with a checksum, v2 and v4 with a signature.          *)
EXTENDS SignatureSync

CONSTANTS v1, v2, v3, v4, f1, f2

MCFileOf == [r \in Releases |-> IF r = v3 THEN f2 ELSE f1]
MCIntegrity == [r \in Releases |-> IF r \in {v2, v4} THEN "digest" ELSE "sha1"]
Forward == {<<v1, v2>>, <<v1, v3>>, <<v2, v3>>, <<v2, v4>>, <<v3, v4>>}
=============================================================================
