----------------------------- MODULE MCSession -----------------------------
(* Instances of Session: an encrypted partition with a file system, one    *)
(* without, and one that is not encrypted.                                 *)
EXTENDS Session

CONSTANTS PRODINFO, SYSTEM, BCPKG21

Names  == {PRODINFO, SYSTEM, BCPKG21}
Table  == <<PRODINFO, SYSTEM, BCPKG21>>
Crypts == {PRODINFO, SYSTEM}
Fats   == {SYSTEM}
=============================================================================
