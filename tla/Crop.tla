-------------------------------- MODULE Crop --------------------------------
(* scripts/c7shell-crop.py: the rectangle that is cut out of a frozen       *)
(* screenshot, one axis of it at a time.  What arrives is a selection in    *)
(* logical pixels times the scale of the output, rounded: its edges may lie *)
(* a pixel outside the frame.                                               *)
EXTENDS Integers, TLAPS

Least(a, b) == IF a < b THEN a ELSE b
Most(a, b) == IF a > b THEN a ELSE b

\* The first pixel and the length that are cut, of a selection that starts at
\* x and is w long, in a frame of size pixels.
CropX(x, size) == Most(0, Least(x, size - 1))
CropW(x, w, size) == Most(1, Least(w, size - CropX(x, size)))

\* Both, as the pixels that are kept.
Clamped(x, w, size) == CropX(x, size) .. CropX(x, size) + CropW(x, w, size) - 1

-----------------------------------------------------------------------------
\* Clamped "rather than rejected": whatever arrives, something of the frame and
\* nothing else is cut, so new_subpixbuf() is never asked for pixels there are
\* none of.
THEOREM CutIsInTheFrame ==
    ASSUME NEW size \in Nat \ {0}, NEW x \in Int, NEW w \in Int
    PROVE  /\ Clamped(x, w, size) \subseteq 0 .. size - 1
           /\ Clamped(x, w, size) # {}
<1>1. CropX(x, size) \in 0 .. size - 1
  BY DEF CropX, Most, Least
<1>2. CropW(x, w, size) \in 1 .. size - CropX(x, size)
  BY <1>1 DEF CropW, Most, Least
<1>3. CropX(x, size) \in Clamped(x, w, size)
  BY <1>1, <1>2 DEF Clamped
<1> HIDE DEF Clamped
<1>4. \A p \in Clamped(x, w, size) : p \in 0 .. size - 1
  BY <1>1, <1>2 DEF Clamped
<1> QED
  BY <1>3, <1>4

\* A selection that starts on the frame is cut where it was drawn, and loses
\* what is past the far edge and no pixel else.
THEOREM CutIsWhatWasDrawn ==
    ASSUME NEW size \in Nat \ {0}, NEW x \in 0 .. size - 1, NEW w \in Nat \ {0}
    PROVE  Clamped(x, w, size) = (x .. x + w - 1) \cap (0 .. size - 1)
<1>1. CropX(x, size) = x
  BY DEF CropX, Most, Least
<1>2. CropW(x, w, size) = IF w < size - x THEN w ELSE size - x
  BY <1>1 DEF CropW, Most, Least
<1> QED
  BY <1>1, <1>2 DEF Clamped

\* One that starts before the frame is not cut short by what is before it: it
\* is moved onto the frame instead, as long as it was drawn.
THEOREM CutIsMovedIn ==
    ASSUME NEW size \in Nat \ {0}, NEW x \in Int, x < 0, NEW w \in 1 .. size
    PROVE  Clamped(x, w, size) = 0 .. w - 1
  BY DEF Clamped, CropX, CropW, Most, Least
=============================================================================
