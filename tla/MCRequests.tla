----------------------------- MODULE MCRequests -----------------------------
(* Words of 12 bits: heads of two bytes a number, varints of up to two     *)
(* bytes and, for negative numbers, four.  The cmdid 2049 is a negative    *)
(* int.  The list of six hosts is too long under the module <<1, 130>> and *)
(* just not under <<0, 2049>>.                                             *)
EXTENDS Requests

MCModules == {<<1, 130>>, <<0, 2049>>}
MCHosts == {<<2, 0>>, <<300, 80>>}
MCHostLists ==
    {<<>>,
     << <<300, 80>> >>,
     << <<1, 2000>>, <<2, 0>>, <<3, 80>>, <<4, 81>>, <<300, 80>>, <<301, 80>> >>}
MCRetcodes == {0, -1}
MCReports ==
    {<< <<>>, << <<2, 0, 0, 5>> >> >>,
     << << <<1, 2000, 150, 0>> >>, << <<300, 80, 3, 4>> >> >>}
=============================================================================
