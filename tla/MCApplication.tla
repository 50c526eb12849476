--------------------------- MODULE MCApplication ---------------------------
(***************************************************************************)
(* Application with three admin sessions, one of which tests backends; two *)
(* may be open at a time.                                                  *)
(***************************************************************************)
EXTENDS Application

MCSlots == {1, 2, 3}
MCProbers == {1}

=============================================================================
