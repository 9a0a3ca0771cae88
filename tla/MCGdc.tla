------------------------------- MODULE MCGdc -------------------------------
(***************************************************************************)
(* A small instance of GdcCall: two registers a bank, and the vectors of   *)
(* the BIOS, of reios, and of isoldr placed low and high.                  *)
(***************************************************************************)
EXTENDS GdcCall

Vectors(isoldr, vec, vec2) == [isoldr |-> isoldr, vec |-> vec, vec2 |-> vec2]
MCBackends ==
  { Vectors(FALSE, 4096, 4336), Vectors(FALSE, 4102, 4336),
    Vectors(TRUE, 16384, 16392), Vectors(TRUE, 950272, 950400) }
=============================================================================
