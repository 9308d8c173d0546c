------------------------------ MODULE BoxWalk ------------------------------
(***************************************************************************)
(* Two boxes of one stock, built the way the program builds box ids: an    *)
(* import appends a number to a path (SpreadSheetHelper, rcr-cli), and     *)
(* chBox renames every box in the range of a root.                         *)
(***************************************************************************)
EXTENDS BoxPath

CONSTANT Words    \* the box numbers in use

ASSUME WordsAssumption == Words \subseteq 1 .. Half - 1 \cup {W - 1}

VARIABLES box, outer
twoIds == <<box, outer>>

Roots == {BoxAppendBox(NoBox, w) : w \in Words \cap 1 .. Half - 1}
UsedPaths == {b \in Path : \A i \in 1 .. 4 : b[i] \in Words \cup {0}}

IdsInit == box \in Roots /\ outer \in Roots

Deepen(w) == box' = BoxAppendBox(box, w) /\ UNCHANGED outer
Enter == outer' = box /\ UNCHANGED box
Another == \E r \in Roots : box' = r /\ UNCHANGED outer

\* One iteration of the loop of chBox over the boxes in the range of outer.
\* For a box of depth 4 the shift by 64 bits is undefined: not taken here.
Rename(dest) ==
  /\ InRange(box, outer)
  /\ BoxDepth(outer) < 4 /\ BoxDepth(dest) < 4
  /\ box' \in RenameBox(box, outer, dest)
  /\ outer' = dest

IdsNext == \/ \E w \in Words : Deepen(w)
           \/ Enter
           \/ Another
           \/ \E d \in Roots : Rename(d)

IdsSpec == IdsInit /\ [][IdsNext]_twoIds

----------------------------------------------------------------------------

\* Only ids that read back as a path of positive numbers are ever made.
UsedOnly == box \in UsedPaths /\ outer \in UsedPaths

\* The range every SQL clause of the server tests (mkCardQueryClause,
\* getQuantity, getBox, chBox) holds exactly the boxes nested in the outer
\* one, and the bit mask of isBoxInBoxes, which picks the packages a listing
\* shows, agrees: a query lists a box exactly when it operates on it.
RangeIsNesting ==
  /\ InRange(box, outer) <=> Inside(box, outer)
  /\ IsBoxInBoxes(box, outer) <=> Inside(box, outer)

\* Both ids are paths, of which that holds.
PathsNest == UsedOnly /\ RangeIsNesting

\* Renaming a root (chBox '/') never takes a box out of the new root, nor to
\* an id that is not a path, even when numbers fall off the end.
RenamedStaysInside ==
  Inside(box, outer) /\ BoxDepth(outer) < 4 =>
    \A dest \in UsedPaths : BoxDepth(dest) < 4 =>
      \A r \in RenameBox(box, outer, dest) : r \in Path /\ Inside(r, dest)

\* As long as the renamed paths still fit four words, no two boxes under the
\* root get the same new id, so their packages are not merged.
RenameKeepsApart ==
  \A d \in 1 .. 3 :
    LET root == [i \in 1 .. 4 |-> IF i <= d THEN box[i] ELSE 0]
    IN  root \in Path /\ Inside(box, root) /\ Inside(outer, root) =>
          \A dest \in UsedPaths :
            /\ BoxDepth(dest) < 4
            /\ BoxDepth(dest) + BoxDepth(box) - BoxDepth(root) <= 4
            /\ BoxDepth(dest) + BoxDepth(outer) - BoxDepth(root) <= 4
            => (RenameBox(box, root, dest) = RenameBox(outer, root, dest)
                  <=> box = outer)
=============================================================================
