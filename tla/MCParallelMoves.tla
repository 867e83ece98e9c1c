-------------------------- MODULE MCParallelMoves ---------------------------
(***************************************************************************)
(* ParallelMoves with four argument registers, one of them not             *)
(* allocatable (the part RDX plays), and one allocatable register that     *)
(* carries no argument.                                                    *)
(***************************************************************************)
EXTENDS ParallelMoves

CONSTANTS rdi, rsi, rdx, rcx, rbx

MCRegisters == {rdi, rsi, rdx, rcx, rbx}

MCArgumentRegisters == <<rdi, rsi, rdx, rcx>>

MCAllocatable == MCRegisters \ {rdx}
=============================================================================
