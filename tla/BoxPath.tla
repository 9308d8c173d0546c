------------------------------ MODULE BoxPath ------------------------------
(***************************************************************************)
(* Storage places of rcr.  A box id is a 64-bit integer read as four       *)
(* words, the outermost container (a room) first: 119-42-13 is the box 13  *)
(* of the cabinet 42 of the room 119, and a zero word ends the path        *)
(* (StockOperation.cpp).  SQLite keeps the id as a signed integer.         *)
(***************************************************************************)
EXTENDS Integers

CONSTANT Half    \* a word is one of 2 * Half values; 2^15 in the code

ASSUME HalfAssumption == Half \in Nat \ {0, 1}

W == 2 * Half
Word == 0 .. W - 1
Box == [1 .. 4 -> Word]

NoBox == [i \in 1 .. 4 |-> 0]
AllOnes == [i \in 1 .. 4 |-> W - 1]
MaxInt64 == [i \in 1 .. 4 |-> IF i = 1 THEN Half - 1 ELSE W - 1]

\* getBoxDepth: the position of the last word that is not zero.
BoxDepth(b) ==
  CASE b[4] # 0 -> 4
    [] b[4] = 0 /\ b[3] # 0 -> 3
    [] b[4] = 0 /\ b[3] = 0 /\ b[2] # 0 -> 2
    [] b[4] = 0 /\ b[3] = 0 /\ b[2] = 0 /\ b[1] # 0 -> 1
    [] OTHER -> 0

\* A mutant: the last number of the path is filled with ones too.
LastBoxShort(b) == [i \in 1 .. 4 |-> IF i < BoxDepth(b) THEN b[i] ELSE W - 1]

\* lastBox and maxBox: the words below the path are filled with ones.
LastBox(b) == [i \in 1 .. 4 |-> IF i <= BoxDepth(b) THEN b[i] ELSE W - 1]

\* The clamp every range query puts on the result, but for the one of chBox.
SqlLastBox(b) == IF LastBox(b) = AllOnes THEN MaxInt64 ELSE LastBox(b)

\* SQLite's comparison of two ids: the first word carries the sign.
Signed(w) == IF w >= Half THEN w - W ELSE w
BoxLE(a, b) ==
  \/ Signed(a[1]) < Signed(b[1])
  \/ /\ a[1] = b[1]
     /\ \/ a[2] < b[2]
        \/ a[2] = b[2] /\ a[3] < b[3]
        \/ a[2] = b[2] /\ a[3] = b[3] /\ a[4] <= b[4]

\* box >= outer AND box <= lastBox(outer)
InRange(x, outer) == BoxLE(outer, x) /\ BoxLE(x, SqlLastBox(outer))

\* isBoxInBoxes: a zero word of the outer box masks that word.
IsBoxInBoxes(inner, outer) ==
  \A i \in 1 .. 4 : outer[i] # 0 => inner[i] = outer[i]

\* boxAppendBox: put a box into the innermost container; a full path stays.
BoxAppendBox(b, w) ==
  IF BoxDepth(b) = 4 THEN b ELSE [b EXCEPT ![BoxDepth(b) + 1] = w % W]

----------------------------------------------------------------------------
(* renameBox shifts the old root out and the new root in.  Shifting a       *)
(* 64-bit value by 64 bits is undefined in C++: constant folding makes it   *)
(* zero, the x86 instruction takes the count modulo 64 and shifts nothing.  *)

\* A mutant: one word too many is shifted out.
ShiftedLeftMore(b, k) ==
  {[i \in 1 .. 4 |-> IF i + k + 1 <= 4 THEN b[i + k + 1] ELSE 0]}

ShiftedLeft(b, k) ==
  IF k = 4 THEN {NoBox, b}
           ELSE {[i \in 1 .. 4 |-> IF i + k <= 4 THEN b[i + k] ELSE 0]}
ShiftedRight(b, k) ==
  IF k = 4 THEN {NoBox, b}
           ELSE {[i \in 1 .. 4 |-> IF i > k THEN b[i - k] ELSE 0]}

OrWord ==
  LET or[p \in Word \X Word] ==
        IF p = <<0, 0>> THEN 0
        ELSE 2 * or[<<p[1] \div 2, p[2] \div 2>>]
             + IF p[1] % 2 = 1 \/ p[2] % 2 = 1 THEN 1 ELSE 0
  IN  or

BoxOr(a, b) ==
  [i \in 1 .. 4 |-> IF a[i] = 0 THEN b[i]
                    ELSE IF b[i] = 0 THEN a[i] ELSE OrWord[<<a[i], b[i]>>]]

\* A mutant: makes room for the old root, not for the new one.
RenameBoxByOldRoot(src, srcRoot, destRoot) ==
  {BoxOr(destRoot, r) :
     r \in UNION {ShiftedRight(l, BoxDepth(srcRoot)) :
                    l \in ShiftedLeft(src, BoxDepth(srcRoot))}}

RenameBox(src, srcRoot, destRoot) ==
  {BoxOr(destRoot, r) :
     r \in UNION {ShiftedRight(l, BoxDepth(destRoot)) :
                    l \in ShiftedLeft(src, BoxDepth(srcRoot))}}

----------------------------------------------------------------------------
(* The reference: the places the program is about.                          *)

\* The paths the documentation allows: each number is positive, the first
\* one fits a signed word, and nothing follows the end of the path.
Path == {b \in Box : /\ b[1] \in 1 .. Half - 1
                     /\ \A i \in 2 .. 4 : b[i] # 0 => b[i - 1] # 0}

\* x is the box outer or lies in it: outer is a prefix of x.
Inside(x, outer) == \A i \in 1 .. BoxDepth(outer) : x[i] = outer[i]
=============================================================================
