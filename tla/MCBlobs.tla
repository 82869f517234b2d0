------------------------------ MODULE MCBlobs ------------------------------
(***************************************************************************)
(* Instances of Blobs for TLC: two attachments with the same bytes and one *)
(* that may be broken or too large.                                        *)
(***************************************************************************)
EXTENDS Blobs, TLC

CONSTANTS a1, a2, a3, scan, other

SameScan == (a1 :> scan) @@ (a2 :> scan) @@ (a3 :> other)
============================================================================
