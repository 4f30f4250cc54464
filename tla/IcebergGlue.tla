---------------------------- MODULE IcebergGlue ----------------------------
(***************************************************************************)
(* The JNI methods for Iceberg, whose shares have a variable length and    *)
(* are parsed from a temporary heap copy, and for FROST enrollment, which  *)
(* passes the NULL of a failed helper on to CHECKRESULT1.                  *)
(***************************************************************************)
EXTENDS GlueSteps

iceberg_shares_gen ==
    LET shares == {"shares", "share_ptrs"}
        bytes  == shares \cup {"share_bytes"}
        all    == bytes \cup {"out"} IN
    CheckContext \o Get("seed32", {}) \o Check({})
    \o Alloc({"shares"}, {}) \o Alloc({"share_ptrs"}, {"shares"})
    \o LibUndo({"seed32"}, {}, shares, {}, shares)
    \o Alloc({"share_bytes"}, shares)
    \o LibUndo(shares, {}, {"share_bytes"}, {}, bytes)
    \o Alloc({"out"}, bytes)
    \o LibUndo(bytes, {}, {"out"}, {}, all)
    \o NewArrayThenFree("out", all)

iceberg_share_cache_create ==
    CheckContext \o GetIcebergShare \o Lib({"share"}, {}, {"shareCache"})
    \o NewArray("shareCache")

(* The share, and the cache that spares its expansion when given.          *)
ShareAndCache == GetIcebergShare \o BlobIf("shareCache", {})

iceberg_pubshare_gen ==
    CheckContext \o ShareAndCache \o Lib({"share"}, {"shareCache"}, {"pubshare"})
    \o Lib({"pubshare"}, {}, {"out"}) \o NewArray("out")

iceberg_nonce_gen ==
    CheckContext \o ShareAndCache \o Get("sid32", {})
    \o Lib({"share", "sid32"}, {"shareCache"}, {"pubnonce"})
    \o Lib({"pubnonce"}, {}, {"out"}) \o NewArray("out")

(* A flat copy of the elements, parsed into a fresh array: both arrays are *)
(* allocated before one test, and the copy is released after the parse.    *)
ParsedMessages(items, ptrs) ==
    LET copy == {"flat[0]", "flat"}
        new  == {items, ptrs} IN
    Check({}) \o GetMsgPtrs("flat[0]", "flat", {})
    \o Alloc(new, copy \cup new)
    \o LibUndo(copy, {}, new, {}, copy \cup new) \o Free(copy)

iceberg_pubkey_agg ==
    CheckContext \o ParsedMessages("pubshares", "pubshare_ptrs")
    \o LibFree({"pubshares", "pubshare_ptrs"}, {}, {"groupPk"},
               {"pubshares", "pubshare_ptrs"})
    \o Lib({"groupPk"}, {}, {"out"}) \o NewArray("out")

iceberg_nonce_agg ==
    CheckContext \o Get("groupPk", {})
    \o ParsedMessages("pubnonces", "pubnonce_ptrs")
    \o LibFree({"pubnonces", "pubnonce_ptrs", "groupPk"}, {}, {"musigPubnonce"},
               {"pubnonces", "pubnonce_ptrs"})
    \o Lib({"musigPubnonce"}, {}, {"out"}) \o NewArray("out")

iceberg_keyagg_check ==
    CheckContext \o Blob("keyaggCache", {}) \o Get("groupPk", {}) \o Check({})
    \o ParsedArray("pubkeys", "pubkey_ptrs")
    \o Verify({"keyaggCache", "pubkeys", "pubkey_ptrs", "groupPk"},
              {"pubkeys", "pubkey_ptrs"})

iceberg_partial_sign ==
    CheckContext \o ShareAndCache \o Get("sid32", {}) \o Get("msg32", {})
    \o Get("groupPk", {}) \o Blob("keyaggCache", {}) \o Get("in66", {})
    \o Lib({"in66"}, {}, {"cosignerAggnonce"})
    \o ParsedMessages("pubnonces", "pubnonce_ptrs")
    \o LibFree({"share", "sid32", "pubnonces", "pubnonce_ptrs", "groupPk",
                "keyaggCache", "msg32", "cosignerAggnonce"}, {"shareCache"},
               {"psig"}, {"pubnonces", "pubnonce_ptrs"})
    \o Lib({"psig"}, {}, {"out"}) \o NewArray("out")

iceberg_partial_sig_verify ==
    CheckContext \o Get("in33", {}) \o Get("in34", {}) \o Get("msg32", {})
    \o Get("groupPk", {}) \o Blob("keyaggCache", {}) \o Get("in66", {})
    \o Lib({"in33"}, {}, {"psig"}) \o Lib({"in34"}, {}, {"pubshare"})
    \o Lib({"in66"}, {}, {"cosignerAggnonce"})
    \o ParsedMessages("pubnonces", "pubnonce_ptrs")
    \o Verify({"psig", "pubshare", "pubnonces", "pubnonce_ptrs", "groupPk",
               "keyaggCache", "msg32", "cosignerAggnonce"},
              {"pubnonces", "pubnonce_ptrs"})

iceberg_partial_sig_agg ==
    CheckContext \o ParsedMessages("psigs", "psig_ptrs")
    \o LibFree({"psigs", "psig_ptrs"}, {}, {"musigPsig"}, {"psigs", "psig_ptrs"})
    \o Lib({"musigPsig"}, {}, {"out"}) \o NewArray("out")

IcebergProgram ==
    [iceberg_shares_gen |-> iceberg_shares_gen,
     iceberg_share_cache_create |-> iceberg_share_cache_create,
     iceberg_pubshare_gen |-> iceberg_pubshare_gen,
     iceberg_nonce_gen |-> iceberg_nonce_gen,
     iceberg_pubkey_agg |-> iceberg_pubkey_agg,
     iceberg_nonce_agg |-> iceberg_nonce_agg,
     iceberg_keyagg_check |-> iceberg_keyagg_check,
     iceberg_partial_sign |-> iceberg_partial_sign,
     iceberg_partial_sig_verify |-> iceberg_partial_sig_verify,
     iceberg_partial_sig_agg |-> iceberg_partial_sig_agg]

-----------------------------------------------------------------------------
(* Enrollment.                                                             *)

enrollment_params_hash ==
    CheckContext \o Check({}) \o Get("threshPk", {})
    \o GetSignerIds
    \o LibFree({"threshPk", "ids"}, {}, {"out"}, {"ids"}) \o NewArray("out")

enrollment_shares_gen ==
    CheckContext \o Check({}) \o Get("secrand", {})
    \o Get("secshare", {}) \o Get("threshPk", {})
    \o GetSignerIds \o Check({"ids"}) \o Alloc({"out"}, {"ids"})
    \o LibUndo({"secrand", "secshare", "threshPk", "ids"}, {}, {"out"},
               {"ids"}, {"ids", "out"})
    \o NewArrayThenFree("out", {"out"})

(* A failure that names a helper is a verdict, not an exception: its       *)
(* identifier is written, and whatever sigma holds is returned.            *)
enrollment_share_agg ==
    LET held == {"ids", "all_shares", "hashes"} IN
    CheckContext \o Check({}) \o Get("threshPk", {})
    \o GetSignerIds
    \o GetFlat("all_shares", {"ids"}, 2)
    \o GetFlat("hashes", {"ids", "all_shares"}, 2) \o Check(held)
    \o <<[Nop EXCEPT !.op = "lib", !.raises = 1, !.frees = held, !.undo = held,
                     !.reads = held \cup {"threshPk"},
                     !.outs = [ok |-> {"sigma"}, fault |-> {}]],
         [Nop EXCEPT !.op = "set", !.writes = {"jmismatchid"}]>>
    \o NewArray("sigma")

enrollment_pubshare_derive ==
    LET held == {"ids", "pubshares"} IN
    CheckContext \o Check({}) \o GetSignerIds
    \o GetFlat("pubshares", {"ids"}, 2) \o Check(held)
    \o LibFree(held, {}, {"newPubshare"}, held)
    \o Lib({"newPubshare"}, {}, {"out"}) \o NewArray("out")

enrollment_secshare_gen ==
    LET held == {"ids", "sigmas"} IN
    CheckContext \o Check({}) \o Get("threshPk", {})
    \o GetIf("expectedHash", {}) \o GetIf("expectedPubshare", {})
    \o GetSignerIds \o GetFlat("sigmas", {"ids"}, 2) \o Check(held)
    \o LibFree(held \cup {"threshPk"}, {"expectedHash", "expectedPubshare"},
               {"secshare"}, held)
    \o NewArray("secshare")

EnrollmentProgram ==
    [enrollment_params_hash |-> enrollment_params_hash,
     enrollment_shares_gen |-> enrollment_shares_gen,
     enrollment_share_agg |-> enrollment_share_agg,
     enrollment_pubshare_derive |-> enrollment_pubshare_derive,
     enrollment_secshare_gen |-> enrollment_secshare_gen]
=============================================================================
