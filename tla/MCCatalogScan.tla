---------------------------- MODULE MCCatalogScan ----------------------------
(* TLC instance of CatalogScan; the constants are set in the configurations. *)
EXTENDS CatalogScan
==============================================================================
