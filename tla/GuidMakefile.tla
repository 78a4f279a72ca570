----------------------------- MODULE GuidMakefile -----------------------------
(* The GUIDs guidsub is for: those on its command lines in the Makefile,   *)
(* which are commented out there, those the header of the shim tells the   *)
(* reader to replace by hand, and those the shim itself looks for.         *)
EXTENDS GuidSubProperties

\* Makefile:47-49: arguments -o and -n, byte by byte.
DriverBinding ==
  << <<24, 160, 49, 171, 180, 67, 77, 26, 165, 192, 12, 9, 38, 30, 159, 113>>,
     <<232, 173, 69, 56, 10, 141, 70, 230, 138, 31, 9, 3, 183, 154, 145, 187>> >>
RootBridgeIo ==
  << <<47, 112, 126, 187, 74, 26, 17, 212, 154, 56, 0, 144, 39, 63, 193, 77>>,
     <<249, 230, 39, 210, 72, 47, 73, 233, 161, 101, 240, 34, 201, 106, 241, 132>> >>
ResourceAllocation ==
  << <<207, 128, 52, 190, 103, 104, 77, 139, 183, 57, 124, 206, 104, 58, 159, 190>>,
     <<53, 243, 126, 14, 62, 177, 69, 58, 165, 173, 75, 76, 21, 166, 60, 24>> >>
MakefileJobs == {DriverBinding, RootBridgeIo, ResourceAllocation}

\* PciDxeShim.c:12-19: what to replace in the file, and with what.
HeaderDriverBinding ==
  << <<171, 49, 160, 24, 67, 180, 26, 77, 165, 192, 12, 9, 38, 30, 159, 113>>,
     <<56, 69, 173, 232, 141, 10, 230, 70, 138, 31, 9, 3, 183, 154, 145, 187>> >>
HeaderRootBridgeIo ==
  << <<187, 126, 112, 47, 26, 74, 212, 17, 154, 56, 0, 144, 39, 63, 193, 77>>,
     <<210, 39, 230, 249, 47, 72, 233, 73, 161, 101, 240, 34, 201, 106, 241, 132>> >>
HeaderResourceAllocation ==
  << <<190, 52, 128, 207, 104, 103, 139, 77, 183, 57, 124, 206, 104, 58, 159, 190>>,
     <<14, 126, 243, 53, 177, 62, 58, 69, 165, 173, 75, 76, 21, 166, 60, 24>> >>
HeaderPairs == {HeaderDriverBinding, HeaderRootBridgeIo, HeaderResourceAllocation}

\* PciDxeShim.c:40-42: the fields of the GUIDs that the shim locates and installs,
\* each from its most significant byte on.
gDriverBindingProtocolSubstituteGuid ==
  << <<232, 173, 69, 56>>, <<10, 141>>, <<70, 230>>, <<138, 31, 9, 3, 183, 154, 145, 187>> >>
gPciRootBridgeIoProtocolGuidSubstituteGuid ==
  << <<249, 230, 39, 210>>, <<72, 47>>, <<73, 233>>, <<161, 101, 240, 34, 201, 106, 241, 132>> >>
gEfiPciHostBrgResAllocProtocolSubstituteGuid ==
  << <<53, 243, 126, 14>>, <<62, 177>>, <<69, 58>>, <<165, 173, 75, 76, 21, 166, 60, 24>> >>

\* The least significant byte of a field of an EFI_GUID is the first in memory,
\* but for the last field, an array.
InMemory(g) ==
  [i \in 1..W |-> IF i <= 4 THEN g[1][5 - i]
                  ELSE IF i <= 6 THEN g[2][7 - i]
                  ELSE IF i <= 8 THEN g[3][9 - i] ELSE g[4][i - 8]]

\* What is to be made of each original for the shim to meet the renamed driver.
ShimPairs ==
  { <<HeaderDriverBinding[1], InMemory(gDriverBindingProtocolSubstituteGuid)>>,
    <<HeaderRootBridgeIo[1], InMemory(gPciRootBridgeIoProtocolGuidSubstituteGuid)>>,
    <<HeaderResourceAllocation[1], InMemory(gEfiPciHostBrgResAllocProtocolSubstituteGuid)>> }

\* The sizes of the C types, and runs with the arguments of the Makefile.
ASSUME MakefileAssumption ==
  /\ W = 16 /\ Word32 = 4 /\ Word16 = 2 /\ Byte = 0..255
  /\ Jobs \subseteq MakefileJobs

-----------------------------------------------------------------------------
\* The bytes the tool looks for and writes are those that the header of the
\* shim tells the reader to replace by hand; and what it writes are the GUIDs by
\* which the shim and the renamed driver are to find one another.
HeaderBytes == pc # "shell" => <<original, new>> \in HeaderPairs \cap ShimPairs

\* The last byte of the new driver binding GUID is the first of the root bridge
\* I/O one: where the other 15 follow, replacing the first makes one of these.
Joins(p, q) == p = HeaderDriverBinding /\ q = HeaderRootBridgeIo

\* A run that succeeds, or finds nothing, leaves none of its GUID where the scan
\* reaches; and however a run ends, it brings back none of the other two.
HeaderGuidsGone ==
  pc = "shell" /\ runs > 0 =>
    \A p, q \in HeaderPairs :
      <<original, new>> = p =>
        /\ ret \in {"success", "notFound"} => Gone(disk, p[1])
        /\ Gone(before, q[1]) /\ ~Joins(p, q) => Gone(disk, q[1])
=============================================================================
