--------------------------- MODULE MCSectionFiles ---------------------------
(* Small instances of SectionFiles.                                        *)
EXTENDS SectionFiles, TLC

CONSTANTS ma, mb, mc, SsfA, SsfB, sx, sy, OtherProc

ArchiveOf == (ma :> SsfA) @@ (mb :> SsfA) @@ (mc :> SsfB)
UnitsOf == (ma :> 1) @@ (mb :> 2) @@ (mc :> 1)
ArchiveOfTwo == (ma :> SsfA) @@ (mc :> SsfB)
UnitsOfTwo == (ma :> 1) @@ (mc :> 2)
OneSlotEach == (Loader :> {sx}) @@ (OtherProc :> {sy})
OneProcess == (Loader :> {sx})
Interchange == Permutations(Handles) \cup Permutations(Files) \cup Permutations(Requests)
=============================================================================
