--------------------------- MODULE MCZaloPayGateway ---------------------------
(***************************************************************************)
(* Small instances of ZaloPayGateway.                                       *)
(***************************************************************************)
EXTENDS ZaloPayGateway
=============================================================================
