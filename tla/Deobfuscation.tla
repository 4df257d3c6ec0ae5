--------------------------- MODULE Deobfuscation ---------------------------
(***************************************************************************)
(* unshield_deobfuscate (lib/file.c): the byte transformation behind       *)
(* UNSHIELD_FILE_OBFUSCATED.  The key of a byte is its offset in the       *)
(* stored stream of its file; the caller threads that offset, the seed,    *)
(* from one buffer to the next.                                            *)
(***************************************************************************)
EXTENDS Integers, Sequences

CONSTANT U32        \* number of values of a C unsigned: 2^32 in the program

ASSUME U32Assumption == U32 \in Nat \ {0}

Byte == 0 .. 255

(* The ^ of C on two bytes: each binary weight once, when exactly one of   *)
(* the operands has it.                                                    *)
Xor8(a, b) ==
  LET Weight(w) == w * (((a \div w) + (b \div w)) % 2)
  IN  Weight(1) + Weight(2) + Weight(4) + Weight(8)
        + Weight(16) + Weight(32) + Weight(64) + Weight(128)

(* ror8(x, 2).                                                             *)
Ror2(x) == (x \div 4) + 64 * (x % 4)

(* ror8 of the byte ^ 0xd5, minus seed % 0x47, stored in a byte.          *)
DeobfuscateByte(x, seed) == (Ror2(Xor8(x, 213)) - (seed % 71)) % 256

(* The bytes unshield_deobfuscate leaves in the buffer ...                 *)
Deobfuscate(buffer, seed) ==
  [k \in 1 .. Len(buffer) |->
     DeobfuscateByte(buffer[k], (seed + (k - 1)) % U32)]

(* ... and the value it leaves in *seed.                                   *)
NextSeed(size, seed) == (seed + size) % U32
=============================================================================
