------------------------------ MODULE MCUploads ------------------------------
(* Three requests over three files: one with records and a damaged row,    *)
(* one nothing could be read from, one no adapter claims; and two runs.    *)
EXTENDS Uploads

CONSTANTS statement, blank, photo, row1, row2, damaged1

MCUploaders == 1..3

MCReaders == 1..2

MCFiles == {statement, blank, photo}

MCReadable == {statement, blank}

MCFound ==
    [f \in MCFiles |->
       IF f = statement THEN [records |-> {row1, row2}, damaged |-> {damaged1}]
       ELSE [records |-> {}, damaged |-> {}]]
=============================================================================
