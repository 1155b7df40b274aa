----------------------------- MODULE MCBootLink -----------------------------
(***************************************************************************)
(* BootLink for TLC: no file, one of two blocks, two files, an empty file; *)
(* three words.  An ESP8266 may refuse whatever it is asked, an ESP32-C3   *)
(* what it is asked once it is known, or also to say what chip it is.      *)
(***************************************************************************)
EXTENDS BootLink

MCWords     == <<0, 4, 8>>
MCFileLists == {<< >>, <<2>>, <<2, 1>>, <<0>>}
MCMayRefuse ==
    [d \in Devices |-> IF d = "esp8266" THEN Kinds ELSE Kinds \ {"sync", "read_id"}]
MCMayRefuseId == [d \in Devices |-> {"read_id"}]
=============================================================================
