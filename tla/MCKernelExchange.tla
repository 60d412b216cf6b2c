-------------------------- MODULE MCKernelExchange --------------------------
(***************************************************************************)
(* Instances of KernelExchange: two requested families over a pipe that    *)
(* holds one line less than an answer needs.                               *)
(***************************************************************************)
EXTENDS KernelExchange

CONSTANTS f1, f2

TwoFamilies == {f1, f2}
EitherKernel == BOOLEAN
ForeignKernel == {TRUE}
=============================================================================
