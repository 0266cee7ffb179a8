------------------------------- MODULE MCFlash -------------------------------
(* Instances of the flash builder for TLC.                                 *)
EXTENDS FlashBuilder, TLC

None == <<Keep, Keep>>
Full == {<<1, 1>>, <<1, 2>>, <<2, 1>>, <<2, Keep>>, None}
Few  == {<<1, 1>>, <<2, Keep>>, None}
Old    == [p \in Page |-> <<1, 1>>]
Partly == [p \in Page |-> IF p % SectorSize = 1 THEN <<1, 1>> ELSE Erased]

(* Two pages with all cases beside two with the important ones.            *)
Requests == {<<a, b, c, d>> : a, b \in Full, c, d \in Few} \ {<<None, None, None, None>>}

Asks == {<<None, <<2, 2>>, <<1, 1>>, None>>, <<<<Keep, 2>>, <<1, 1>>, <<1, 1>>, <<1, Keep>>>>}

Options == {FlashJob(Old, w, smart, keep, wipe, "read", double, 0) :
              w \in Requests, smart, keep, wipe, double \in BOOLEAN}
Compare == {FlashJob(Partly, w, TRUE, TRUE, FALSE, analysis, double, 0) :
              w \in Requests, analysis \in {"crc", "fast"}, double \in BOOLEAN}
Failing == {FlashJob(Old, w, smart, smart, wipe, analysis, double, 2) :
              w \in Asks, smart, wipe, double \in BOOLEAN, analysis \in {"read", "none"}}

(* A page of erased bytes among those that are asked for.                  *)
Blanks  == {<<a, b, c, None>> : a \in {None, <<0, 0>>}, b, c \in {<<0, 0>>, <<1, 1>>}}
Padded  == {FlashJob(Old, w, TRUE, TRUE, wipe, analysis, double, 0) :
              w \in Blanks, wipe, double \in BOOLEAN, analysis \in {"read", "crc"}}

AllJobs  == Options \cup Compare \cup Failing \cup Padded
Defaults == {FlashJob(Old, w, TRUE, TRUE, FALSE, "read", TRUE, 0) : w \in Requests}
=============================================================================
