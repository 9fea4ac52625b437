---------------------------- MODULE MCAtomicSave ----------------------------
(* The instance TLC checks: two saves of one file and a replacement of it by  *)
(* another program.  What it finds for two saves is proved for any number in  *)
(* AtomicSaveProofs.                                                          *)
EXTENDS AtomicSave

CONSTANTS s1, s2, other

MCSaves == {s1, s2}
MCOthers == {other}
=============================================================================
