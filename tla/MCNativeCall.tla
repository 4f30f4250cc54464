---------------------------- MODULE MCNativeCall ----------------------------
(***************************************************************************)
(* The native methods of the bindings as one program table, and the sets   *)
(* of methods the runs of NativeCall are made for.                         *)
(***************************************************************************)
EXTENDS NativeCall, KeysGlue, MusigGlue, FrostGlue, ChilldkgGlue, IcebergGlue

AllMethods ==
    DOMAIN KeysProgram \cup DOMAIN MusigProgram \cup DOMAIN FrostProgram
    \cup DOMAIN ChilldkgProgram \cup DOMAIN IcebergProgram
    \cup DOMAIN EnrollmentProgram

AllPrograms ==
    [m \in AllMethods |->
        CASE m \in DOMAIN KeysProgram -> KeysProgram[m]
          [] m \in DOMAIN MusigProgram -> MusigProgram[m]
          [] m \in DOMAIN FrostProgram -> FrostProgram[m]
          [] m \in DOMAIN ChilldkgProgram -> ChilldkgProgram[m]
          [] m \in DOMAIN IcebergProgram -> IcebergProgram[m]
          [] OTHER -> EnrollmentProgram[m]]
=============================================================================
