------------------------------ MODULE MCGuidSub ------------------------------
(* An instance of GuidSub for TLC: windows of two bytes over every small   *)
(* file.                                                                   *)
EXTENDS GuidSubProperties

Letters == {"a", "b", "c"}

\* Every file that is shorter than a window, one window, a byte more, and long
\* enough for two windows where the scan reaches; and those of two letters in
\* which the scan goes on past an int of 3.
SmallFiles == UNION {[1..n -> Letters] : n \in {0, 1, 2, 3, 5}} \cup [1..6 -> {"a", "b"}]

\* Arguments, by the byte order of uuid_parse(): independent GUIDs and the way
\* back, GUIDs that overlap themselves or one another, and the same one twice.
SmallJobs ==
  { <<<<"b", "a">>, <<"c", "a">>>>, <<<<"c", "a">>, <<"b", "a">>>>,
    <<<<"a", "a">>, <<"c", "b">>>>, <<<<"b", "a">>, <<"c", "b">>>>,
    <<<<"b", "a">>, <<"a", "b">>>>, <<<<"b", "a">>, <<"b", "a">>>> }

NoHazards == {}
=============================================================================
