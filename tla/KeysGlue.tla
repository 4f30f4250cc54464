------------------------------ MODULE KeysGlue ------------------------------
(***************************************************************************)
(* The JNI methods for keys, ECDSA, ECDH and Schnorr signatures, each as a *)
(* program of glue steps.  Every method first refuses a null context.      *)
(***************************************************************************)
EXTENDS GlueSteps

ec_seckey_verify == CheckContext \o Get("seckey", {}) \o Verify({"seckey"}, {})

ec_pubkey_parse ==
    CheckContext \o Get("pubkey", {}) \o Lib({"pubkey"}, {}, {"out"})
    \o NewArray("out")

ec_pubkey_create ==
    CheckContext \o Get("seckey", {}) \o Lib({"seckey"}, {}, {"pubkey"})
    \o Lib({"pubkey"}, {}, {"out"}) \o NewArray("out")

ecdsa_sign ==
    CheckContext \o Get("seckey", {}) \o Get("msg", {}) \o GetIf("ndata", {})
    \o Lib({"seckey", "msg"}, {"ndata"}, {"signature"})
    \o Lib({"signature"}, {}, {"out"}) \o NewArray("out")

ecdsa_verify ==
    CheckContext \o Get("signature", {}) \o Get("pubkey", {}) \o Get("msg", {})
    \o Verify({"signature", "pubkey", "msg"}, {})

(* The size of the output array is checked first, it is written last.      *)
ecdsa_signature_normalize ==
    CheckContext \o Check({}) \o Get("signature", {})
    \o Verify({"signature"}, {}) \o Lib({"signature"}, {}, {"out"})
    \o Set("sigout", "out")

ec_seckey_negate ==
    CheckContext \o Get("seckey", {}) \o Lib({"seckey"}, {}, {"out"})
    \o NewArray("out")

ec_pubkey_negate ==
    CheckContext \o Get("pubkey", {}) \o Lib({"pubkey"}, {}, {"negated"})
    \o Lib({"negated"}, {}, {"out"}) \o NewArray("out")

ec_seckey_tweak_add ==
    CheckContext \o Get("seckey", {}) \o Get("tweak", {})
    \o Lib({"seckey", "tweak"}, {}, {"out"}) \o NewArray("out")

ec_pubkey_tweak_add ==
    CheckContext \o Get("pubkey", {}) \o Get("tweak", {})
    \o Lib({"pubkey", "tweak"}, {}, {"tweaked"})
    \o Lib({"tweaked"}, {}, {"out"}) \o NewArray("out")

ec_seckey_tweak_mul == ec_seckey_tweak_add

ec_pubkey_tweak_mul == ec_pubkey_tweak_add

(* pubkey_ptrs and pubkeys are freed once the library has combined them.   *)
ec_pubkey_combine ==
    CheckContext \o Check({}) \o ParsedArray("pubkeys", "pubkey_ptrs")
    \o LibFree({"pubkeys", "pubkey_ptrs"}, {}, {"combined"},
               {"pubkeys", "pubkey_ptrs"})
    \o Lib({"combined"}, {}, {"out"}) \o NewArray("out")

ecdh ==
    CheckContext \o Get("seckey", {}) \o Get("pubkey", {})
    \o Lib({"seckey", "pubkey"}, {}, {"out"}) \o NewArray("out")

ecdsa_recover ==
    CheckContext \o Check({}) \o Get("sig", {}) \o Get("msg", {})
    \o Lib({"sig"}, {}, {"signature"})
    \o Lib({"signature", "msg"}, {}, {"pubkey"})
    \o Lib({"pubkey"}, {}, {"out"}) \o NewArray("out")

compact_to_der ==
    CheckContext \o Get("signature", {}) \o Lib({"signature"}, {}, {"der"})
    \o NewArray("der")

der_to_compact ==
    CheckContext \o Check({}) \o Get("sig", {}) \o Lib({"sig"}, {}, {"signature"})
    \o Lib({"signature"}, {}, {"compact"}) \o NewArray("compact")

schnorrsig_sign ==
    CheckContext \o Get("msg", {}) \o Get("seckey", {}) \o GetIf("auxrand32", {})
    \o Lib({"seckey"}, {}, {"keypair"})
    \o Lib({"msg", "keypair"}, {"auxrand32"}, {"signature"})
    \o NewArray("signature")

schnorrsig_verify ==
    CheckContext \o Get("sig", {}) \o Get("msg", {}) \o Get("pub", {})
    \o Lib({"pub"}, {}, {"pubkey"}) \o Verify({"sig", "msg", "pubkey"}, {})

KeysProgram ==
    [ec_seckey_verify |-> ec_seckey_verify,
     ec_pubkey_parse |-> ec_pubkey_parse,
     ec_pubkey_create |-> ec_pubkey_create,
     ecdsa_sign |-> ecdsa_sign,
     ecdsa_verify |-> ecdsa_verify,
     ecdsa_signature_normalize |-> ecdsa_signature_normalize,
     ec_seckey_negate |-> ec_seckey_negate,
     ec_pubkey_negate |-> ec_pubkey_negate,
     ec_seckey_tweak_add |-> ec_seckey_tweak_add,
     ec_pubkey_tweak_add |-> ec_pubkey_tweak_add,
     ec_seckey_tweak_mul |-> ec_seckey_tweak_mul,
     ec_pubkey_tweak_mul |-> ec_pubkey_tweak_mul,
     ec_pubkey_combine |-> ec_pubkey_combine,
     ecdh |-> ecdh,
     ecdsa_recover |-> ecdsa_recover,
     compact_to_der |-> compact_to_der,
     der_to_compact |-> der_to_compact,
     schnorrsig_sign |-> schnorrsig_sign,
     schnorrsig_verify |-> schnorrsig_verify]
=============================================================================
