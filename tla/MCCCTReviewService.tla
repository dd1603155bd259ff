-------------------------- MODULE MCCCTReviewService ---------------------------
(* A small instance of CCTReviewService for TLC.                           *)
EXTENDS CCTReviewService, MCCCTPostgresService
=============================================================================
