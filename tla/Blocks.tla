------------------------------- MODULE Blocks -------------------------------
(***************************************************************************)
(* The blocks of the worlds: from the coordinates of a block to its chunk  *)
(* and its place in the chunk's array (server.cpp, chunk.hpp), the terrain *)
(* that a chunk of any world starts with (chunk.cpp), and digging, which   *)
(* is done in one world only.  Chunks that are not needed are dropped and  *)
(* start again; that is left to module Chunks.                             *)
(***************************************************************************)
EXTENDS Integers

CONSTANTS SizeX, SizeY, SizeZ,   \* CHUNK_X_SIZE, CHUNK_Y_SIZE, CHUNK_Z_SIZE
          Ground,                \* the height of the grass: 70 in the code
          Coord, Height          \* bound: x and z, and y, of the blocks that are dug

ASSUME BlocksAssumption ==
  /\ SizeX \in Nat \ {0} /\ SizeY \in Nat \ {0} /\ SizeZ \in Nat \ {0}
  /\ Ground \in 0..(SizeY - 1)
  /\ Coord \subseteq Int
  /\ Height \subseteq -SizeY..(SizeY - 1)

VARIABLES
  zeroed,   \* <<world, <<chunk, index>>>>: elements of the chunks' arrays set to 0
  dug       \* history: the blocks that were dug

blockVars == <<zeroed, dug>>

-----------------------------------------------------------------------------
\* floor(double(x) / 16), the chunk of a block; an integer division would not do.
ChunkOfTruncated(b) ==
  LET quotient(x, n) == IF x >= 0 THEN x \div n ELSE -((-x) \div n)
  IN  <<quotient(b[1], SizeX), quotient(b[3], SizeZ)>>
ChunkOf(b) == <<b[1] \div SizeX, b[3] \div SizeZ>>

\* The remainder of C++ has the sign of the dividend.
Remainder(x, n) == IF x >= 0 THEN x % n ELSE -((-x) % n)

\* x % 16, made positive.
OffsetSigned(x, n) == Remainder(x, n)
Offset(x, n) == IF Remainder(x, n) < 0 THEN n + Remainder(x, n) ELSE Remainder(x, n)

\* setBlockType's place in the array; y is not looked at.
Index(x, y, z) == x * (SizeZ * SizeY) + z * SizeY + y

Place(b) == <<ChunkOf(b), Index(Offset(b[1], SizeX), b[2], Offset(b[3], SizeZ))>>

\* What the constructor puts at each height: dirt, grass on top, and air.
Terrain(y) == CASE y < Ground -> 3 [] y = Ground -> 2 [] y > Ground -> 0

\* An element of a chunk's array; the columns lie in it one after the other.
TypeAt(world, place) == IF <<world, place>> \in zeroed THEN 0 ELSE Terrain(place[2] % SizeY)

BlockInit == zeroed = {} /\ dug = {}

\* The server's part of digBlock, which takes its chunk from world 1.
DigWorld == 1
DigBlock(b) ==
  /\ zeroed' = zeroed \cup {<<DigWorld, Place(b)>>}
  /\ dug' = dug \cup {b}

BlockNext == \E b \in Coord \X Height \X Coord : DigBlock(b)

BlockSpec == BlockInit /\ [][BlockNext]_blockVars

-----------------------------------------------------------------------------
\* The blocks that exist, of those that are looked at.
Block == Coord \X (Height \cap Nat) \X Coord

\* The world that is dug in is the terrain without what was dug, on both sides of
\* zero and of the border of a chunk: no dig changes another block than its own.
\* That needs heights the world has; a dig below it is not refused, and changes
\* another one.
DugIsStored ==
  (\A b \in dug : b[2] >= 0)
    => \A b \in Block : TypeAt(DigWorld, Place(b)) = IF b \in dug THEN 0 ELSE Terrain(b[2])

\* As long as nothing was dug below the world every write is inside its array.
InsideArray ==
  (\A b \in dug : b[2] >= 0) => \A z \in zeroed : z[2][2] \in 0..(SizeX * SizeY * SizeZ - 1)
=============================================================================
