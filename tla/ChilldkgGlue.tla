---------------------------- MODULE ChilldkgGlue ----------------------------
(***************************************************************************)
(* The JNI methods for ChillDKG.  A protocol fault is a status code, not   *)
(* an exception: outputs are written to arrays of the caller, and only     *)
(* under the verdict for which the library has filled them.  The fault     *)
(* index is written under every verdict.                                   *)
(***************************************************************************)
EXTENDS GlueSteps

(* set_fault_index, skipped when the caller gave no array.                 *)
SetFaultIndex ==
    IfGiven("faultIndex",
            <<[Nop EXCEPT !.op = "set", !.writes = {"jfaultIndex"}]>>)

(* Host public keys, and the test of their number and of the threshold.    *)
HostPubkeys ==
    Check({}) \o GetFlat("hostpubkeys", {}, 1) \o Check({"hostpubkeys"})

(* The verdicts of a library call that can blame, with what it fills on    *)
(* success.                                                                *)
OkOrFault(filled) == [ok |-> filled, fault |-> {}]

chilldkg_hostpubkey_gen ==
    CheckContext \o Get("hostseckey", {}) \o Lib({"hostseckey"}, {}, {"out"})
    \o NewArray("out")

chilldkg_params_hash ==
    CheckContext \o HostPubkeys
    \o LibFree({"hostpubkeys"}, {}, {"hash"}, {"hostpubkeys"})
    \o NewArray("hash")

(* state1 reaches the caller before the array for the message exists.      *)
chilldkg_participant_step1 ==
    CheckContext \o Get("hostseckey", {}) \o Get("random32", {})
    \o HostPubkeys \o Check({"hostpubkeys"})
    \o Alloc({"pmsg1"}, {"hostpubkeys"})
    \o LibUndo({"hostseckey", "random32", "hostpubkeys"}, {},
               {"state1", "pmsg1"}, {"hostpubkeys"}, {"hostpubkeys", "pmsg1"})
    \o Set("jstate1", "state1") \o NewArrayThenFree("pmsg1", {"pmsg1"})

chilldkg_coordinator_step1 ==
    LET held == {"hostpubkeys", "pmsgs1[0]", "pmsgs1"} IN
    CheckContext \o HostPubkeys \o Check({"hostpubkeys"})
    \o GetMsgPtrs("pmsgs1[0]", "pmsgs1", {"hostpubkeys"})
    \o Check(held) \o Alloc({"cmsg1"}, held)
    \o Decide({"hostpubkeys", "pmsgs1", "pmsgs1[0]"}, {},
              OkOrFault({"coordinatorState", "cmsg1"}), {})
    \o SetFaultIndex
    \o On("ok", Set("jstate", "coordinatorState") \o Set("jcmsg1", "cmsg1"))
    \o Free(held \cup {"cmsg1"})

(* step2 without the guard on the verdict: outputs always written.         *)
chilldkg_participant_step2_AlwaysWrites ==
    CheckContext \o Get("hostseckey", {}) \o Get("auxrand32", {})
    \o Blob("state1", {}) \o GetVarBytes("cmsg1", {})
    \o Refuse({"cmsg1"}, {"cmsg1"})
    \o Decide({"state1", "hostseckey", "cmsg1", "auxrand32"}, {},
              [ok |-> {"state2", "sig64"}, fault |-> {},
               unknown |-> {"invData"}], {"cmsg1"})
    \o SetFaultIndex \o Set("jstate2", "state2") \o Set("jsig64", "sig64")

(* The coordinator message must have the length that state1 implies; the   *)
(* three outputs must have their sizes.                                    *)
chilldkg_participant_step2 ==
    CheckContext \o Get("hostseckey", {}) \o Get("auxrand32", {})
    \o Blob("state1", {}) \o GetVarBytes("cmsg1", {})
    \o Refuse({"cmsg1"}, {"cmsg1"}) \o Check({"cmsg1"})
    \o Decide({"state1", "hostseckey", "cmsg1", "auxrand32"}, {},
              [ok |-> {"state2", "sig64"}, fault |-> {},
               unknown |-> {"invData"}], {"cmsg1"})
    \o SetFaultIndex
    \o On("ok", Set("jstate2", "state2") \o Set("jsig64", "sig64"))
    \o On("unknown", Set("jinvdata", "invData"))

(* The four outputs both finalize functions write on success.              *)
WriteOutputs(first) ==
    On("ok", Set("j" \o first, first) \o Set("jthreshpk", "threshPk33")
             \o Set("jpubshares", "pubshares33") \o Set("jrecovery", "recovery"))

(* The number of messages must match the coordinator state; the threshold  *)
(* that sizes the recovery data is the caller's.                           *)
chilldkg_coordinator_finalize ==
    LET msgs == {"pmsgs2[0]", "pmsgs2"}
        outs == {"cmsg2", "pubshares33", "recovery"} IN
    CheckContext \o Blob("coordinatorState", {}) \o Check({})
    \o GetMsgPtrs("pmsgs2[0]", "pmsgs2", {}) \o Check(msgs)
    \o Alloc(outs, msgs \cup outs)
    \o Decide(msgs \cup {"coordinatorState"}, {},
              OkOrFault(outs \cup {"threshPk33"}), msgs)
    \o SetFaultIndex \o WriteOutputs("cmsg2") \o Free(outs)

(* finalize that releases the certificate a second time at the end.        *)
chilldkg_participant_finalize_FreesTwice ==
    LET outs == {"pubshares33", "recovery"} IN
    CheckContext \o Blob("state2", {}) \o GetVarBytes("cmsg2", {})
    \o Refuse({"cmsg2"}, {"cmsg2"}) \o Check({"cmsg2"})
    \o Alloc(outs, outs \cup {"cmsg2"})
    \o Decide({"state2", "cmsg2"}, {},
              OkOrFault(outs \cup {"secshare32", "threshPk33"}), {"cmsg2"})
    \o SetFaultIndex \o WriteOutputs("secshare32") \o Free(outs \cup {"cmsg2"})

(* n is the length of the certificate over 64, the threshold the caller's. *)
chilldkg_participant_finalize ==
    LET outs == {"pubshares33", "recovery"} IN
    CheckContext \o Blob("state2", {}) \o GetVarBytes("cmsg2", {})
    \o Refuse({"cmsg2"}, {"cmsg2"}) \o Check({"cmsg2"})
    \o Alloc(outs, outs \cup {"cmsg2"})
    \o Decide({"state2", "cmsg2"}, {},
              OkOrFault(outs \cup {"secshare32", "threshPk33"}), {"cmsg2"})
    \o SetFaultIndex \o WriteOutputs("secshare32") \o Free(outs)

(* The body shared by the two recover functions: what the library is given *)
(* besides, what follows its call, and what is written first.              *)
RecoverWith(given, after, first) ==
    LET outs == {"pubshares33", "hostpubkeys33"} IN
    GetVarBytes("recovery", {}) \o Refuse({"recovery"}, {"recovery"})
    \o Alloc(outs, outs \cup {"recovery"})
    \o Decide({"recovery"}, given, OkOrFault(outs \cup {"threshPk33", "nAndT"}),
              {"recovery"})
    \o after
    \o On("ok", first \o Set("jthreshpk", "threshPk33")
                \o Set("jpubshares", "pubshares33")
                \o Set("jhostpubkeys", "hostpubkeys33")
                \o Set("jnthreshold", "nAndT"))
    \o Free(outs)

(* Without a host secret key the library is called as by the coordinator,  *)
(* and fills no share.                                                     *)
chilldkg_participant_recover ==
    CheckContext \o GetIf("hostseckey", {})
    \o RecoverWith({"hostseckey"},
                   FillsIf("hostseckey", "ok", {"secshare32"}) \o SetFaultIndex,
                   IfGiven("secshareOut", Set("jsecshare", "secshare32")))

chilldkg_coordinator_recover == CheckContext \o RecoverWith({}, <<>>, <<>>)

(* Recovery data, required, with what the caller releases on failure.      *)
RecoveryData(held) ==
    GetVarBytes("recovery", held)
    \o Refuse({"recovery"}, held \cup {"recovery"})

chilldkg_recovery_ack_sign ==
    LET held == {"hostpubkeys", "recovery"} IN
    CheckContext \o Get("hostseckey", {}) \o Get("auxrand32", {})
    \o HostPubkeys \o RecoveryData({"hostpubkeys"})
    \o LibFree(held \cup {"hostseckey", "auxrand32"}, {}, {"sig64"}, held)
    \o NewArray("sig64")

chilldkg_recovery_acks_verify ==
    LET held == {"hostpubkeys", "recovery"}
        acks == {"acks[0]", "acks"} IN
    CheckContext \o HostPubkeys \o RecoveryData({"hostpubkeys"}) \o Check(held)
    \o GetMsgPtrs("acks[0]", "acks", held) \o Check(held \cup acks)
    \o Decide(held \cup acks, {}, OkOrFault({}), {})
    \o SetFaultIndex \o Free(held \cup acks)

chilldkg_coordinator_investigate ==
    LET held == {"hostpubkeys", "pmsgs1[0]", "pmsgs1"} IN
    CheckContext \o HostPubkeys \o Check({"hostpubkeys"})
    \o GetMsgPtrs("pmsgs1[0]", "pmsgs1", {"hostpubkeys"})
    \o Check(held) \o Alloc({"cinv"}, held)
    \o Decide(held, {}, OkOrFault({"cinv"}), {})
    \o SetFaultIndex \o On("ok", Set("jcinv", "cinv"))
    \o Free(held \cup {"cinv"})

chilldkg_participant_investigate ==
    CheckContext \o Blob("invData", {}) \o GetVarBytes("cinv", {})
    \o Refuse({"cinv"}, {"cinv"})
    \o Decide({"invData", "cinv"}, {}, OkOrFault({}), {"cinv"})
    \o SetFaultIndex

ChilldkgProgram ==
    [chilldkg_hostpubkey_gen |-> chilldkg_hostpubkey_gen,
     chilldkg_params_hash |-> chilldkg_params_hash,
     chilldkg_participant_step1 |-> chilldkg_participant_step1,
     chilldkg_coordinator_step1 |-> chilldkg_coordinator_step1,
     chilldkg_participant_step2 |-> chilldkg_participant_step2,
     chilldkg_coordinator_finalize |-> chilldkg_coordinator_finalize,
     chilldkg_participant_finalize |-> chilldkg_participant_finalize,
     chilldkg_participant_recover |-> chilldkg_participant_recover,
     chilldkg_coordinator_recover |-> chilldkg_coordinator_recover,
     chilldkg_recovery_ack_sign |-> chilldkg_recovery_ack_sign,
     chilldkg_recovery_acks_verify |-> chilldkg_recovery_acks_verify,
     chilldkg_coordinator_investigate |-> chilldkg_coordinator_investigate,
     chilldkg_participant_investigate |-> chilldkg_participant_investigate]
=============================================================================
