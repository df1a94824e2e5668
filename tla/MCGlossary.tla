----------------------------- MODULE MCGlossary -----------------------------
(***************************************************************************)
(* A small instance for TLC: one area with code of its own, and the root.  *)
(***************************************************************************)
EXTENDS Glossary
=============================================================================
