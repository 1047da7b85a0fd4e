----------------------------- MODULE MCFsPlugin -----------------------------
(***************************************************************************)
(* Instances of FsPlugin: three files, one of which may not be written,    *)
(* and two descriptors, so that numbers come back and run out.             *)
(***************************************************************************)
EXTENDS FsPlugin, TLC

CONSTANTS letter, report, system

MCNames == {letter, report, system}
MCUnwritable == {system}
MCContents == {"", "text"}
MCDescriptors == {3, 4}
Writables == Permutations({letter, report})
=============================================================================
