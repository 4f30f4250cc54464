----------------------------- MODULE MusigGlue -----------------------------
(***************************************************************************)
(* The JNI methods for MuSig2.  Key aggregation caches, sessions and       *)
(* secret nonces are opaque byte arrays owned by the Java caller: each     *)
(* call works on a C copy, and only pubkey_agg and the two tweak functions *)
(* write a copy back.                                                      *)
(***************************************************************************)
EXTENDS GlueSteps

(* The optional arguments shared by the two nonce generators.              *)
NonceGenOptions ==
    GetIf("msg32", {}) \o BlobIf("keyaggCache", {}) \o GetIf("extraInput", {})

musig_nonce_gen ==
    CheckContext \o Get("sessionId", {}) \o GetIf("seckey", {})
    \o Get("pubkey", {}) \o NonceGenOptions
    \o Lib({"sessionId", "pubkey"},
           {"seckey", "msg32", "keyaggCache", "extraInput"},
           {"musigSecnonce", "pubnonce"})
    \o Lib({"pubnonce"}, {}, {"nonce"}) \o NewArray("nonce")

musig_nonce_gen_counter ==
    CheckContext \o Get("seckey", {}) \o Lib({"seckey"}, {}, {"keypair"})
    \o NonceGenOptions
    \o Lib({"keypair"}, {"msg32", "keyaggCache", "extraInput"},
           {"musigSecnonce", "pubnonce"})
    \o Lib({"pubnonce"}, {}, {"nonce"}) \o NewArray("nonce")

musig_nonce_agg ==
    CheckContext \o Check({}) \o ParsedArray("pubnonces", "pubnonce_ptrs")
    \o LibFree({"pubnonces", "pubnonce_ptrs"}, {}, {"combined"},
               {"pubnonces", "pubnonce_ptrs"})
    \o Lib({"combined"}, {}, {"out"}) \o NewArray("out")

(* The cache argument is an output: its size is tested, not its magic, and *)
(* it is written last, when nothing can fail any more.                     *)
musig_pubkey_agg ==
    CheckContext \o Check({}) \o GetIf("keyaggCache", {})
    \o ParsedArray("pubkeys", "pubkey_ptrs")
    \o LibFree({"pubkeys", "pubkey_ptrs"}, {}, {"combined", "keyaggCache"},
               {"pubkeys", "pubkey_ptrs"})
    \o Lib({"combined"}, {}, {"out"}) \o NewArray("out")
    \o IfGiven("keyaggCache", Set("jkeyaggcache", "keyaggCache"))

(* The write-back moved before the allocation of the result.               *)
WriteBackFirst ==
    CheckContext \o Blob("keyaggCache", {}) \o Get("tweak32", {})
    \o Lib({"keyaggCache", "tweak32"}, {}, {"keyaggCache", "pubkey"})
    \o Lib({"pubkey"}, {}, {"out"})
    \o Set("jkeyaggcache", "keyaggCache") \o NewArray("out")

(* The tweak is applied to the C copy; the caller's cache is replaced      *)
(* after the array for the tweaked key exists.                             *)
musig_pubkey_ec_tweak_add ==
    CheckContext \o Blob("keyaggCache", {}) \o Get("tweak32", {})
    \o Lib({"keyaggCache", "tweak32"}, {}, {"keyaggCache", "pubkey"})
    \o Lib({"pubkey"}, {}, {"out"})
    \o NewArray("out") \o Set("jkeyaggcache", "keyaggCache")

musig_pubkey_xonly_tweak_add == musig_pubkey_ec_tweak_add

musig_nonce_process ==
    CheckContext \o Get("in66", {}) \o Lib({"in66"}, {}, {"aggnonce"})
    \o Get("msg32", {}) \o Blob("keyaggCache", {})
    \o Lib({"aggnonce", "msg32", "keyaggCache"}, {}, {"musigSession"})
    \o NewArray("musigSession")

(* The library wipes the C copy of the secret nonce, which is not written  *)
(* back: the caller's array still holds it.                                *)
musig_partial_sign ==
    CheckContext \o Get("seckey", {}) \o Lib({"seckey"}, {}, {"keypair"})
    \o Blob("musigSecnonce", {}) \o Blob("keyaggCache", {})
    \o Blob("musigSession", {})
    \o Lib({"musigSecnonce", "keypair", "keyaggCache", "musigSession"}, {},
           {"psig"})
    \o Lib({"psig"}, {}, {"out"}) \o NewArray("out")

musig_partial_sig_verify ==
    CheckContext \o Get("psigBytes", {}) \o Get("nonceBytes", {})
    \o Get("pubkey", {}) \o Blob("keyaggCache", {}) \o Blob("musigSession", {})
    \o Lib({"psigBytes"}, {}, {"psig"}) \o Lib({"nonceBytes"}, {}, {"pubnonce"})
    \o Verify({"psig", "pubnonce", "pubkey", "keyaggCache", "musigSession"}, {})

musig_partial_sig_agg ==
    CheckContext \o Blob("musigSession", {}) \o Check({})
    \o ParsedArray("psigs", "psig_ptrs")
    \o LibFree({"musigSession", "psigs", "psig_ptrs"}, {}, {"out"},
               {"psigs", "psig_ptrs"})
    \o NewArray("out")

musig_pubkey_get ==
    CheckContext \o Blob("keyaggCache", {})
    \o Lib({"keyaggCache"}, {}, {"pubkey"}) \o Lib({"pubkey"}, {}, {"out"})
    \o NewArray("out")

musig_nonce_parity ==
    CheckContext \o Blob("musigSession", {}) \o Lib({"musigSession"}, {}, {})

(* The two adaptor functions differ in names only: two inputs, a parity.   *)
musig_adapt ==
    CheckContext \o Get("preSig", {}) \o Get("second", {}) \o Check({})
    \o Lib({"preSig", "second"}, {}, {"out"}) \o NewArray("out")

musig_extract_adaptor == musig_adapt

MusigProgram ==
    [musig_nonce_gen |-> musig_nonce_gen,
     musig_nonce_gen_counter |-> musig_nonce_gen_counter,
     musig_nonce_agg |-> musig_nonce_agg,
     musig_pubkey_agg |-> musig_pubkey_agg,
     musig_pubkey_ec_tweak_add |-> musig_pubkey_ec_tweak_add,
     musig_pubkey_xonly_tweak_add |-> musig_pubkey_xonly_tweak_add,
     musig_nonce_process |-> musig_nonce_process,
     musig_partial_sign |-> musig_partial_sign,
     musig_partial_sig_verify |-> musig_partial_sig_verify,
     musig_partial_sig_agg |-> musig_partial_sig_agg,
     musig_pubkey_get |-> musig_pubkey_get,
     musig_nonce_parity |-> musig_nonce_parity,
     musig_adapt |-> musig_adapt,
     musig_extract_adaptor |-> musig_extract_adaptor]
=============================================================================
