-------------------------- MODULE MCReceiptClaims ---------------------------
(* Small instances of the receipt claims.                                  *)
EXTENDS ReceiptClaims, TLC

=============================================================================
