------------------------- MODULE MCDecodedPictures --------------------------
(* Decoding of short streams: a few sequences of IDR and CRA pictures with  *)
(* their leading and trailing pictures.                                     *)
EXTENDS DecodedPictures
=============================================================================
