----------------------------- MODULE ReadBuffer -----------------------------
(***************************************************************************)
(* What the server does to the m_read_buffer of a ClientSocket, the same   *)
(* in all of its threading modes.                                          *)
(***************************************************************************)
EXTENDS Peers

(* Mutants: the bytes sign-extended; the unused end of the buffer Recv     *)
(* fills inserted as well.                                                 *)
InsertedSigned(data, buffer) ==
    [i \in DOMAIN data |-> IF 2 * data[i] >= ByteBase THEN data[i] - ByteBase ELSE data[i]]
        \o buffer

InsertedPadded(data, buffer) == data \o <<0>> \o buffer

(* What Recv returned goes to the BEGINNING of the buffer.                 *)
Inserted(data, buffer) == data \o buffer

(* Mutants: nothing, one byte too few erased.                              *)
ErasedNothing(buffer, len) == buffer

ErasedShort(buffer, len) == Rest(buffer, len - 1)

(* What was parsed is erased, clamped to what is there.                    *)
Erased(buffer, len) == Rest(buffer, len)
=============================================================================
