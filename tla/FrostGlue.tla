----------------------------- MODULE FrostGlue -----------------------------
(***************************************************************************)
(* The JNI methods for FROST signing and for prefractal (FROST nested in   *)
(* MuSig2).  Signer identifiers and public shares come in as heap buffers  *)
(* that every error path has to release.                                   *)
(***************************************************************************)
EXTENDS GlueSteps

frost_trusted_dealer_keygen ==
    LET bufs == {"secshares", "pubshares", "out"} IN
    CheckContext \o Get("threshseckey", {}) \o Check({})
    \o Alloc({"secshares"}, {}) \o Alloc({"pubshares"}, {"secshares"})
    \o Alloc({"out"}, {"secshares", "pubshares"})
    \o LibUndo({"threshseckey"}, {}, {"secshares", "pubshares", "threshPk"},
               {}, bufs)
    \o LibUndo({"threshPk", "secshares", "pubshares"}, {}, {"out"}, {}, bufs)
    \o NewArrayThenFree("out", bufs)

frost_threshold_info_validate ==
    CheckContext \o Get("threshPk", {}) \o Check({})
    \o GetFlat("pubshares", {}, 1)
    \o Check({"pubshares"})
    \o Verify({"threshPk", "pubshares"}, {"pubshares"})

frost_tweak_cache_init ==
    CheckContext \o Get("threshPk", {}) \o Lib({"threshPk"}, {}, {"tweakCache"})
    \o NewArray("tweakCache")

frost_tweaked_pubkey_get ==
    CheckContext \o Blob("tweakCache", {})
    \o Lib({"tweakCache"}, {}, {"tweakedPk"}) \o Lib({"tweakedPk"}, {}, {"out"})
    \o NewArray("out")

(* The tweaked cache is written back before the result array exists.       *)
frost_pubkey_xonly_tweak_add ==
    CheckContext \o Blob("tweakCache", {}) \o Get("tweak32", {})
    \o Lib({"tweakCache", "tweak32"}, {}, {"tweakCache", "tweakedPk"})
    \o Lib({"tweakedPk"}, {}, {"out"})
    \o Set("jtweakcache", "tweakCache") \o NewArray("out")

frost_pubkey_ec_tweak_add == frost_pubkey_xonly_tweak_add

frost_nonce_gen ==
    CheckContext \o Get("secrand", {}) \o GetIf("secshare", {})
    \o GetIf("pubshare", {}) \o GetIf("threshPk", {})
    \o GetVarBytes("msg", {}) \o GetVarBytes("extraIn", {"msg"})
    \o LibFree({"secrand"}, {"secshare", "pubshare", "threshPk", "msg", "extraIn"},
               {"frostSecnonce", "pubnonce"}, {"msg", "extraIn"})
    \o Lib({"pubnonce"}, {}, {"nonce"}) \o NewArray("nonce")

frost_nonce_agg ==
    CheckContext \o Check({}) \o ParsedArray("pubnonces", "pubnonce_ptrs")
    \o LibFree({"pubnonces", "pubnonce_ptrs"}, {}, {"combined"},
               {"pubnonces", "pubnonce_ptrs"})
    \o Lib({"combined"}, {}, {"out"}) \o NewArray("out")

(* The signer set shared by the signing functions: identifiers, and public *)
(* shares when given.                                                      *)
SignerSet ==
    Check({}) \o GetSignerIds \o Check({"ids"}) \o PubsharesIfGiven({"ids"})

(* The cache and message that follow the signer set: n and t are tested,   *)
(* then each helper that fails releases what is held.                      *)
CacheAndMessage(held) ==
    Check(held) \o Blob("tweakCache", held)
    \o GetVarBytes("msg", held)

frost_session_init ==
    LET held == {"ids", "pubshares"} IN
    CheckContext \o Get("in66", {}) \o Lib({"in66"}, {}, {"aggnonce"})
    \o SignerSet \o Check(held) \o CacheAndMessage(held)
    \o LibFree({"aggnonce", "ids", "tweakCache"}, {"pubshares", "msg"},
               {"frostSession"}, held \cup {"msg"})
    \o NewArray("frostSession")

(* sign with the identifiers released before the library reads them.       *)
frost_sign_EarlyFree ==
    CheckContext \o Blob("frostSecnonce", {}) \o Get("secshare", {})
    \o Blob("frostSession", {}) \o SignerSet \o Free({"ids"})
    \o LibFree({"frostSecnonce", "secshare", "frostSession", "ids"},
               {"pubshares"}, {"psig"}, {"pubshares"})
    \o Lib({"psig"}, {}, {"out"}) \o NewArray("out")

(* As in MuSig2, the wiped C copy of the nonce is not written back.        *)
frost_sign ==
    CheckContext \o Blob("frostSecnonce", {}) \o Get("secshare", {})
    \o Blob("frostSession", {}) \o SignerSet
    \o LibFree({"frostSecnonce", "secshare", "frostSession", "ids"},
               {"pubshares"}, {"psig"}, {"ids", "pubshares"})
    \o Lib({"psig"}, {}, {"out"}) \o NewArray("out")

frost_deterministic_sign ==
    LET held == {"ids", "pubshares"} IN
    CheckContext \o Get("secshare", {})
    \o IfGiven("aggothernonce",
               Get("in66", {}) \o Lib({"in66"}, {}, {"aggothernonce"}))
    \o SignerSet \o CacheAndMessage(held) \o GetIf("auxrand", held \cup {"msg"})
    \o LibFree({"secshare", "ids", "tweakCache"},
               {"aggothernonce", "pubshares", "msg", "auxrand"},
               {"psig", "pubnonce"}, held \cup {"msg"})
    \o Lib({"psig"}, {}, {}) \o Lib({"pubnonce"}, {}, {"out"})
    \o NewArray("out")

frost_partial_sig_verify ==
    CheckContext \o Get("psigBytes", {}) \o Get("nonceBytes", {})
    \o Get("pubshare", {}) \o Blob("frostSession", {}) \o Check({})
    \o GetSignerIds \o Check({"ids"})
    \o LibUndo({"psigBytes"}, {}, {"psig"}, {}, {"ids"})
    \o LibUndo({"nonceBytes"}, {}, {"pubnonce"}, {}, {"ids"})
    \o Verify({"psig", "pubnonce", "pubshare", "frostSession", "ids"}, {"ids"})

frost_partial_sig_agg ==
    CheckContext \o Blob("frostSession", {}) \o Check({})
    \o ParsedArray("psigs", "psig_ptrs")
    \o LibFree({"frostSession", "psigs", "psig_ptrs"}, {}, {"out"},
               {"psigs", "psig_ptrs"})
    \o NewArray("out")

-----------------------------------------------------------------------------
(* Prefractal.                                                             *)

prefractal_nonce_agg ==
    LET bufs == {"ids", "pubnonces", "pubnonce_ptrs"} IN
    CheckContext \o Check({}) \o Get("threshPk", {}) \o Check({})
    \o GetSignerIds \o Check({"ids"})
    \o Alloc({"pubnonces"}, {"ids"}) \o Alloc({"pubnonce_ptrs"}, {"ids", "pubnonces"})
    \o <<[Nop EXCEPT !.raises = 1, !.undo = bufs,
                     !.yields = {"pubnonces", "pubnonce_ptrs"}]>>
    \o LibFree(bufs \cup {"threshPk"}, {}, {"groupPubnonce", "aggnonce"}, bufs)
    \o Lib({"groupPubnonce"}, {}, {}) \o Lib({"aggnonce"}, {}, {"out"})
    \o NewArray("out")

(* The two nonces that close the argument list of sign and sig_verify.     *)
SessionNonces ==
    Get("in66", {}) \o Lib({"in66"}, {}, {"aggnonce"})
    \o Get("cosigner66", {}) \o Lib({"cosigner66"}, {}, {"cosignerAggnonce"})

prefractal_sign ==
    CheckContext \o Blob("frostSecnonce", {}) \o Get("secshare", {})
    \o Blob("tweakCache", {}) \o Blob("keyaggCache", {}) \o Get("msg32", {})
    \o Get("threshPk", {}) \o SessionNonces \o SignerSet
    \o LibFree({"frostSecnonce", "secshare", "ids", "aggnonce", "threshPk",
                "tweakCache", "keyaggCache", "cosignerAggnonce", "msg32"},
               {"pubshares"}, {"psig"}, {"ids", "pubshares"})
    \o Lib({"psig"}, {}, {"out"}) \o NewArray("out")

prefractal_partial_sig_verify ==
    CheckContext \o Get("sig32", {}) \o Lib({"sig32"}, {}, {"psig"})
    \o Get("nonceBytes", {}) \o Lib({"nonceBytes"}, {}, {"pubnonce"})
    \o Get("pubshare", {}) \o Get("threshPk", {})
    \o Blob("tweakCache", {}) \o Blob("keyaggCache", {}) \o Get("msg32", {})
    \o SessionNonces \o Check({}) \o GetSignerIds \o Check({"ids"})
    \o Verify({"psig", "pubnonce", "pubshare", "ids", "aggnonce", "threshPk",
               "tweakCache", "keyaggCache", "cosignerAggnonce", "msg32"},
              {"ids"})

prefractal_partial_sig_agg ==
    CheckContext \o Check({}) \o Blob("tweakCache", {})
    \o ParsedArray("psigs", "psig_ptrs")
    \o LibFree({"psigs", "psig_ptrs", "tweakCache"}, {}, {"musigPsig"},
               {"psigs", "psig_ptrs"})
    \o Lib({"musigPsig"}, {}, {"out"}) \o NewArray("out")

FrostProgram ==
    [frost_trusted_dealer_keygen |-> frost_trusted_dealer_keygen,
     frost_threshold_info_validate |-> frost_threshold_info_validate,
     frost_tweak_cache_init |-> frost_tweak_cache_init,
     frost_tweaked_pubkey_get |-> frost_tweaked_pubkey_get,
     frost_pubkey_xonly_tweak_add |-> frost_pubkey_xonly_tweak_add,
     frost_pubkey_ec_tweak_add |-> frost_pubkey_ec_tweak_add,
     frost_nonce_gen |-> frost_nonce_gen,
     frost_nonce_agg |-> frost_nonce_agg,
     frost_session_init |-> frost_session_init,
     frost_sign |-> frost_sign,
     frost_deterministic_sign |-> frost_deterministic_sign,
     frost_partial_sig_verify |-> frost_partial_sig_verify,
     frost_partial_sig_agg |-> frost_partial_sig_agg,
     prefractal_nonce_agg |-> prefractal_nonce_agg,
     prefractal_sign |-> prefractal_sign,
     prefractal_partial_sig_verify |-> prefractal_partial_sig_verify,
     prefractal_partial_sig_agg |-> prefractal_partial_sig_agg]
=============================================================================
