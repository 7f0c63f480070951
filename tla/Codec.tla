-------------------------------- MODULE Codec -------------------------------
(***************************************************************************)
(* Numbers and strings on their way through Client::get and Client::set,   *)
(* with the byte order functions of netutil.cpp.  An integer is a sequence *)
(* of bytes in the memory of the host, whose order a variable holds, for   *)
(* the server is built for both; on the wire the highest byte comes first. *)
(* Of a floating point number its bits count, and of a string the number   *)
(* of its 16 bit units and that of its UTF-8 bytes.                        *)
(***************************************************************************)
EXTENDS Integers, SequencesExt

CONSTANTS Base,         \* the values of a byte: 256
          ShortWidth,   \* the bytes of an mcShort: 2
          IntWidth      \* of an mcInt: 4; an mcLong has twice as many

ASSUME CodecAssumption ==
  /\ Base \in Nat /\ Base > 0 /\ Base % 2 = 0 /\ 26 % Base # 0
  /\ ShortWidth \in Nat \ {0} /\ IntWidth \in Nat \ {0, 1}

VARIABLE littleEndian   \* whether the host stores the lowest byte first

LongWidth == 2 * IntWidth

\* Base^n, and the integers that have n bytes, half of them negative.
Power[n \in Nat] == IF n = 0 THEN 1 ELSE Base * Power[n - 1]
OfWidth(n) == -(Power[n] \div 2)..(Power[n] \div 2 - 1)

\* The bytes of v modulo the width, highest first, and the way back.
Bytes(v, w) == [i \in 1..w |-> (v \div Power[w - i]) % Base]
Unsigned(bytes) ==
  LET upTo[n \in 0..Len(bytes)] == IF n = 0 THEN 0 ELSE upTo[n - 1] * Base + bytes[n]
  IN  upTo[Len(bytes)]
Signed(bytes) ==
  LET v == Unsigned(bytes)
      all == Power[Len(bytes)]
  IN  IF v < all \div 2 THEN v ELSE v - all

\* What the host has in memory for the integer v, and reads there.
Memory(v, w) == IF littleEndian THEN Reverse(Bytes(v, w)) ELSE Bytes(v, w)
InMemory(bytes) == IF littleEndian THEN Unsigned(Reverse(bytes)) ELSE Unsigned(bytes)

\* htons, htonl and their inverses: the value whose bytes in memory are those
\* of v, highest first.
Hton(v, w) == InMemory(Bytes(v, w))
Ntoh(v, w) == Unsigned(Memory(v, w))

\* 26 is at the first address of the int 26 if the lowest byte is there.
DiffEndian == Memory(26 % Base, IntWidth)[1] = 26 % Base

\* htonll of netutil.cpp turns the halves round and exchanges them.
HalvesInPlace(v) ==
  LET half == Power[IntWidth]
  IN  IF DiffEndian THEN Hton(v \div half, IntWidth) * half + Hton(v % half, IntWidth) ELSE v
Htonll(v) ==
  LET half == Power[IntWidth]
  IN  IF DiffEndian THEN Hton(v % half, IntWidth) * half + Hton(v \div half, IntWidth) ELSE v

\* ntohll, which reads its argument in memory like htonll.
Ntohll(v) ==
  LET half == Power[IntWidth]
  IN  IF DiffEndian THEN Ntoh(v % half, IntWidth) * half + Ntoh(v \div half, IntWidth) ELSE v

\* The bytes that set(mcByte), set(mcShort), set(mcInt) and set(mcLong) write.
SetByte(v) == Bytes(v, 1)
SetShort(v) == Memory(Hton(v, ShortWidth), ShortWidth)
SetInt(v) == Memory(Hton(v, IntWidth), IntWidth)
SetLong(v) == Memory(Htonll(v % Power[LongWidth]), LongWidth)

\* The bits of a float go as an int, those of a double as a long.
SetFloat(bits) == Memory(Hton(bits, IntWidth), IntWidth)
SetDouble(bits) == Memory(Htonll(bits), LongWidth)

\* The values that get(mcByte), get(mcShort) and get(mcInt) make of what was read.
GetByte(bytes) == Signed(bytes)
GetShort(bytes) == Signed(Bytes(Ntoh(InMemory(bytes), ShortWidth), ShortWidth))
GetInt(bytes) == Signed(Bytes(Ntoh(InMemory(bytes), IntWidth), IntWidth))

\* The bits that get(mcDouble) makes of it.
GetDouble(bytes) == Ntohll(InMemory(bytes))

\* A string is read as many units as its length says: none if that is negative.
EmptyText == [units |-> 0, bytes |-> 0]
GetString(length, text) == IF GetShort(length) < 0 THEN EmptyText ELSE text

\* On the wire a string is its length, that of its UTF-16 form, and the units.
LengthInBytes(text) == text.bytes
Length(text) == text.units
SetString(text) == [length |-> SetShort(Length(text)), units |-> text.units]
=============================================================================
