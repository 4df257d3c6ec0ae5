--------------------------- MODULE HeaderStrings ---------------------------
(***************************************************************************)
(* unshield_utf16_to_utf8 (lib/helper.c): the names in the headers of      *)
(* InstallShield 17 and later, converted into a string buffer of the       *)
(* header.  unshield_strlen_utf16 counts the terminator already, and one   *)
(* more unit than that is converted, so the last unit read is the one      *)
(* behind the terminator: the next string, other data, or whatever follows *)
(* the header in memory.  Memories are what lies from a string on.         *)
(***************************************************************************)
EXTENDS Converter

CONSTANT Memories

IsTerminator(m, i) == m[i] = 0 /\ \A j \in 1 .. i - 1 : m[j] # 0
ASSUME MemoriesAssumption ==
  \A m \in Memories : m \in UTF16 /\ \E i \in 1 .. Len(m) - 1 : IsTerminator(m, i)

unshield_strlen_utf16(m) ==
  CHOOSE i \in 1 .. Len(m) : IsTerminator(m, i)

buffer_size_tight(length) == 3 * length   \* mutant
buffer_size(length) == 3 * length + 1

utf16_lenHalf(length) == (length + 1) \div 2   \* mutant
utf16_len(length) == length + 1

NameInit ==
  \E m \in Memories :
    LET length == unshield_strlen_utf16(m)
    IN  /\ Start("utf16_to_utf8", SubSeq(m, 1, utf16_len(length)), buffer_size(length))
        /\ client = NewClient(m, TRUE)

(* Names and what other clients convert.                                   *)
StringsSpec == (Init \/ NameInit) /\ [][Next]_vars
-----------------------------------------------------------------------------
(* The name as C reads it from the string buffer, whose bytes are zero     *)
(* where nothing was written.                                              *)
CString(bytes) ==
  LET zeros == {i \in DOMAIN bytes : bytes[i] = 0}
  IN  IF zeros = {} THEN bytes
      ELSE SubSeq(bytes, 1, (CHOOSE i \in zeros : \A j \in zeros : i <= j) - 1)
Name == SubSeq(client.first, 1, unshield_strlen_utf16(client.first) - 1)

(* Three bytes for each unit and one more are enough for the name, its     *)
(* terminator and the unit behind it, whatever they are: no codepoint is   *)
(* ever left out.                                                          *)
NothingDropped == client.name => dropped = 0

(* The name that clients see is the one in the header; the unit behind the *)
(* terminator never shows.                                                 *)
NameArrives ==
  Finished /\ client.name =>
    /\ 0 \in {target[i] : i \in DOMAIN target}
    /\ Text8(CString(target)) = Text16(Name)
=============================================================================
