---------------------------- MODULE MC_XMLElement ----------------------------
(* The objects of the application are those of the library. *)
EXTENDS XMLElement, SAMLLibrary
=============================================================================
