------------------------------ MODULE BlurPasses ------------------------------
(***************************************************************************)
(* The two passes of ImageProcessor::convolve_separable as the AVX2 build  *)
(* runs them (processor-cpp/src/processing/image_processor.cpp:36-253).    *)
(*                                                                         *)
(* The horizontal pass adds the taps of the kernel Lanes at a time, the    *)
(* rest one by one, and stores a pixel of temp; the vertical pass stores   *)
(* Lanes pixels of a row of the output at a time, the rest one by one, in  *)
(* a second loop that computes its start anew.  What is asked is that the  *)
(* two loops of each pass meet: no tap and no pixel is left out or taken   *)
(* twice, for frames and kernels that are no multiple of the register.     *)
(*                                                                         *)
(* Values are abstracted away: taps is the set of the kernel's elements in *)
(* the running sums and added the number of additions, temp and output are *)
(* the sets of the pixels stored and stores the number of output stores.   *)
(* The scalar build is the same with Lanes > every size.                   *)
(***************************************************************************)
EXTENDS Integers, FiniteSets

CONSTANTS Lanes,     \* floats of a vector register, 8 in the code
          Widths, Heights,
          Spreads    \* the values of ceil(radius * 6)

ASSUME BlurAssumption ==
    /\ Lanes \in Nat \ {0}
    /\ Widths \subseteq Nat \ {0}
    /\ Heights \subseteq Nat \ {0}
    /\ Spreads \subseteq Nat

VARIABLES width, height, kernel_size,   \* of this call
          loop,     \* the loop that runs
          x, y, k,  \* its counters
          taps, added,
          temp, output, stores

vars == << width, height, kernel_size, loop, x, y, k, taps, added, temp, output, stores >>

\* std::max(3, std::min(n, 31))
Limited(n) == CASE n < 3 -> 3 [] n \in 3 .. 31 -> n [] n > 31 -> 31

\* ceil(radius * 6) with its lowest bit set, then limited.
KernelSize(spread) == Limited(spread + ((spread + 1) % 2))

Pixel(column) == y * width + column

Init ==
    /\ width \in Widths
    /\ height \in Heights
    /\ \E spread \in Spreads : kernel_size = KernelSize(spread)
    /\ loop = "taps"
    /\ x = 0 /\ y = 0 /\ k = 0
    /\ taps = {} /\ added = 0
    /\ temp = {} /\ output = {} /\ stores = 0

-----------------------------------------------------------------------------
(* convolve_horizontal_simd.                                               *)

\* Variant: one tap too many may be left in the register.
AddVectorPastEnd ==
    /\ loop = "taps"
    /\ k + Lanes - 1 <= kernel_size
    /\ taps' = taps \cup (k .. k + Lanes - 1)
    /\ added' = added + Lanes
    /\ k' = k + Lanes
    /\ UNCHANGED << width, height, kernel_size, loop, x, y, temp, output, stores >>

\* k + 7 < kernel_size: a register of taps.
AddVector ==
    /\ loop = "taps"
    /\ k + Lanes - 1 < kernel_size
    /\ taps' = taps \cup (k .. k + Lanes - 1)
    /\ added' = added + Lanes
    /\ k' = k + Lanes
    /\ UNCHANGED << width, height, kernel_size, loop, x, y, temp, output, stores >>

\* The remaining elements.
AddTap ==
    /\ loop = "taps"
    /\ k + Lanes - 1 >= kernel_size /\ k < kernel_size
    /\ taps' = taps \cup {k}
    /\ added' = added + 1
    /\ k' = k + 1
    /\ UNCHANGED << width, height, kernel_size, loop, x, y, temp, output, stores >>

\* The sums are stored, and the loops over x and y go on; after the last pixel
\* the vertical pass begins.
StoreTemp ==
    /\ loop = "taps" /\ k >= kernel_size
    /\ temp' = temp \cup {Pixel(x)}
    /\ k' = 0 /\ taps' = {} /\ added' = 0
    /\ \/ x + 1 < width /\ x' = x + 1 /\ UNCHANGED << y, loop >>
       \/ x + 1 = width /\ y + 1 < height /\ x' = 0 /\ y' = y + 1 /\ UNCHANGED loop
       \/ x + 1 = width /\ y + 1 = height /\ x' = 0 /\ y' = 0 /\ loop' = "vector"
    /\ UNCHANGED << width, height, kernel_size, output, stores >>

-----------------------------------------------------------------------------
(* convolve_vertical_simd; the loop over the kernel adds one tap at a time *)
(* to every lane and is not split.                                         *)

\* Variant: the loop goes on while there is a pixel left.
StoreVectorPastEnd ==
    /\ loop = "vector"
    /\ x < width
    /\ output' = output \cup { Pixel(x + i) : i \in 0 .. Lanes - 1 }
    /\ stores' = stores + Lanes
    /\ x' = x + Lanes
    /\ UNCHANGED << width, height, kernel_size, loop, y, k, taps, added, temp >>

\* x < width - 7: a register of pixels.
StoreVector ==
    /\ loop = "vector"
    /\ x < width - (Lanes - 1)
    /\ output' = output \cup { Pixel(x + i) : i \in 0 .. Lanes - 1 }
    /\ stores' = stores + Lanes
    /\ x' = x + Lanes
    /\ UNCHANGED << width, height, kernel_size, loop, y, k, taps, added, temp >>

\* Variant: the second loop starts at the next multiple.
StartTailLate ==
    /\ loop = "vector"
    /\ x >= width - (Lanes - 1)
    /\ loop' = "tail"
    /\ x' = ((width + Lanes - 1) \div Lanes) * Lanes
    /\ UNCHANGED << width, height, kernel_size, y, k, taps, added, temp, output, stores >>

\* int x = (width / 8) * 8 of the second loop.
StartTail ==
    /\ loop = "vector"
    /\ x >= width - (Lanes - 1)
    /\ loop' = "tail"
    /\ x' = (width \div Lanes) * Lanes
    /\ UNCHANGED << width, height, kernel_size, y, k, taps, added, temp, output, stores >>

StorePixel ==
    /\ loop = "tail" /\ x < width
    /\ output' = output \cup {Pixel(x)}
    /\ stores' = stores + 1
    /\ x' = x + 1
    /\ UNCHANGED << width, height, kernel_size, loop, y, k, taps, added, temp >>

EndRow ==
    /\ loop = "tail" /\ x >= width
    /\ \/ y + 1 < height /\ y' = y + 1 /\ x' = 0 /\ loop' = "vector"
       \/ y + 1 = height /\ loop' = "done" /\ UNCHANGED << x, y >>
    /\ UNCHANGED << width, height, kernel_size, k, taps, added, temp, output, stores >>

Done == loop = "done" /\ UNCHANGED vars

Next ==
    \/ AddVector \/ AddTap \/ StoreTemp
    \/ StoreVector \/ StartTail \/ StorePixel \/ EndRow
    \/ Done

Spec == Init /\ [][Next]_vars

-----------------------------------------------------------------------------
(* Properties.                                                             *)

Frame == 0 .. width * height - 1

\* Type invariant; nothing is stored outside the frame.
TypeOK ==
    /\ width \in Widths /\ height \in Heights /\ kernel_size \in Nat \ {0}
    /\ loop \in {"taps", "vector", "tail", "done"}
    /\ x \in Nat /\ y \in 0 .. height - 1 /\ k \in Nat
    /\ taps \in SUBSET Nat /\ added \in Nat
    /\ temp \in SUBSET Frame /\ output \in SUBSET Frame
    /\ stores \in Nat

\* When a pixel's sums are stored (image_processor.cpp:137-140), every tap of
\* the kernel was added to them, and none twice.
TapsAddedOnce ==
    loop = "taps" /\ k >= kernel_size =>
        taps = 0 .. kernel_size - 1 /\ added = kernel_size

\* The vertical pass reads temp all over the column it convolves, whatever the
\* row (image_processor.cpp:184-189 and 218-224): temp is complete by then.
TempCompleteWhenRead == loop # "taps" => temp = Frame

\* When the blur returns, every pixel of the output was stored exactly once.
OutputStoredOnce == loop = "done" => output = Frame /\ stores = width * height
=============================================================================
