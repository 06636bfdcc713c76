---------------------------- MODULE MCOnboarding ----------------------------
(* A small instance of Onboarding, with its Collections, for TLC. *)
EXTENDS Onboarding
=============================================================================
