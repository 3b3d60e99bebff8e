-------------------------------- MODULE Option --------------------------------
(* The empty Option, for the modules that have one and are read together. *)
CONSTANT None    \* Rust's Option::None
===============================================================================
