----------------------------- MODULE MCKeyStore -----------------------------
(* Small tables: few hash values, so that keys share buckets and clusters  *)
(* run over the end of the table.                                          *)
EXTENDS KeyStore
=============================================================================
