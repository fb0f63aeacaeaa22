------------------------------- MODULE GeoLookup -------------------------------
(***************************************************************************)
(* The country of an address (geoip_handler.go, mmdb.go): GeoCache says    *)
(* which file the controller has in memory, and Mmdb what it makes of      *)
(* one.                                                                    *)
(***************************************************************************)
EXTENDS GeoCache, MmdbFiles

(* A database, whatever its record size, its version, the encoding of its  *)
(* records and the addresses that its networks leave out, says of every    *)
(* address what the network says that holds it.  It is not the file that   *)
(* the controller happens to have that is asked, but all of `Databases'.   *)
AnswersAreRight == geo.db # None => ReadRight
=============================================================================
