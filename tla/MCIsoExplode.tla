---------------------------- MODULE MCIsoExplode ----------------------------
(* Three arches: a1's ISO on disk has its declared checksum, a2's is an   *)
(* older ISO h0 that does not match the declared h2, a3 declares no       *)
(* checksum.  Canaries of earlier runs may be on disk.  Two saves make the *)
(* second one race the first one's workers.                               *)
EXTENDS IsoExplode, TLC

CONSTANTS a1, a2, a3, h0, h1, h2

MCSha == (a1 :> h1) @@ (a2 :> h2) @@ (a3 :> NoSha)

MCIso == (a1 :> h1) @@ (a2 :> h0) @@ (a3 :> h0)

====
