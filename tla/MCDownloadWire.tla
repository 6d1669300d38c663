--------------------------- MODULE MCDownloadWire ---------------------------
(* Images for TLC: two of three bytes, so that slices of different images    *)
(* can meet in one stream, and one of two bytes, a whole number of payloads. *)
EXTENDS DownloadWire

MCImages == {<<"a", "b", "c">>, <<"d", "e", "f">>, <<"g", "h">>}
=============================================================================
