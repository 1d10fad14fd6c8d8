--------------------------- MODULE BlurPassesProofs ---------------------------
(***************************************************************************)
(* The passes of the blur meet for every width, height, kernel and         *)
(* register size: what BlurPasses states, proved.                          *)
(*                                                                         *)
(* The inductive invariant says where each loop has come to: the taps      *)
(* added are the first k, the pixels stored are the first y * width + x in *)
(* row-major order, and the vector loop stands at a multiple of Lanes.     *)
(***************************************************************************)
EXTENDS BlurPasses, TLAPS

Sizes ==
    /\ width \in Widths /\ height \in Heights
    /\ kernel_size \in Nat \ {0}
    /\ x \in Nat /\ y \in Nat /\ y < height /\ k \in Nat

InTaps ==
    /\ x < width /\ k <= kernel_size
    /\ taps = 0 .. k - 1 /\ added = k
    /\ temp = 0 .. (y * width + x) - 1
    /\ output = {} /\ stores = 0

Stored ==
    /\ x <= width
    /\ taps = {} /\ added = 0
    /\ temp = Frame
    /\ output = 0 .. (y * width + x) - 1
    /\ stores = y * width + x

\* The inductive invariant.
IInv ==
    /\ Sizes
    /\ loop \in {"taps", "vector", "tail", "done"}
    /\ loop = "taps" => InTaps
    /\ loop = "vector" => Stored /\ \E q \in Nat : x = q * Lanes
    /\ loop = "tail" => Stored
    /\ loop = "done" => Stored /\ x = width /\ y + 1 = height

-----------------------------------------------------------------------------
(* Arithmetic.                                                             *)

\* The quotient is the only number of whole registers with a rest below one.
LEMMA QuotientUnique ==
    ASSUME NEW n \in Nat, NEW q \in Nat, NEW l \in Nat \ {0},
           q * l <= n, n < q * l + l
    PROVE  n \div l = q
<1> DEFINE d == n \div l
<1>1. d \in Nat /\ d * l <= n /\ n < d * l + l
  OBVIOUS
<1> HIDE DEF d
<1>2. ASSUME d < q PROVE FALSE
  <2>1. d + 1 <= q
    BY <1>1, <1>2
  <2>2. \E e \in Nat : q = d + 1 + e
    <3>1. q - (d + 1) \in Nat
      BY <1>1, <2>1
    <3>2. q = d + 1 + (q - (d + 1))
      BY <1>1
    <3> QED BY <3>1, <3>2
  <2>3. PICK e \in Nat : q = d + 1 + e
    BY <2>2
  <2>4. q * l = d * l + l + e * l
    BY <1>1, <2>3
  <2>5. e * l \in Nat /\ d * l \in Nat
    BY <1>1
  <2> QED BY <1>1, <2>4, <2>5
<1>3. ASSUME q < d PROVE FALSE
  <2>1. d - (q + 1) \in Nat
    BY <1>1, <1>3
  <2>2. d = q + 1 + (d - (q + 1))
    BY <1>1
  <2>3. PICK e \in Nat : d = q + 1 + e
    BY <2>1, <2>2
  <2>4. d * l = q * l + l + e * l
    BY <1>1, <2>3
  <2>5. e * l \in Nat /\ q * l \in Nat
    OBVIOUS
  <2> QED BY <1>1, <2>4, <2>5
<1>4. d = q
  BY <1>1, <1>2, <1>3
<1> QED BY <1>4 DEF d

\* A row below the last one ends inside the frame.
LEMMA RowsFit ==
    ASSUME NEW w \in Nat, NEW h \in Nat, NEW r \in Nat, r < h
    PROVE  /\ r * w \in Nat
           /\ r * w + w <= h * w
           /\ (r + 1) * w = r * w + w
<1>1. r * w \in Nat /\ (r + 1) * w = r * w + w
  OBVIOUS
<1>2. h - (r + 1) \in Nat
  OBVIOUS
<1>3. PICK e \in Nat : h = r + 1 + e
  <2>1. h = r + 1 + (h - (r + 1))
    OBVIOUS
  <2> QED BY <1>2, <2>1
<1>4. h * w = r * w + w + e * w
  BY <1>3
<1>5. e * w \in Nat
  OBVIOUS
<1> QED BY <1>1, <1>4, <1>5

\* A limited size is a positive number.
LEMMA KernelSizePositive ==
    ASSUME NEW spread \in Nat
    PROVE  KernelSize(spread) \in Nat \ {0}
<1>1. spread + ((spread + 1) % 2) \in Nat
  OBVIOUS
<1> QED BY <1>1 DEF KernelSize, Limited

-----------------------------------------------------------------------------
(* The inductive invariant.                                                *)

\* Every call of the blur begins with the first tap of the first pixel.
LEMMA InitEstablishes == Init => IInv
<1> SUFFICES ASSUME Init PROVE IInv
  OBVIOUS
<1>1. width \in Nat \ {0} /\ height \in Nat \ {0}
  BY BlurAssumption DEF Init
<1>2. kernel_size \in Nat \ {0}
  BY BlurAssumption, KernelSizePositive DEF Init
<1>3. Sizes
  BY <1>1, <1>2 DEF Init, Sizes
<1>4. y * width + x = 0
  BY <1>1 DEF Init
<1>5. InTaps
  BY <1>1, <1>2, <1>4 DEF Init, InTaps
<1> QED BY <1>3, <1>5 DEF Init, IInv

\* The first n naturals and the next m are the first n + m.
LEMMA Extended ==
    ASSUME NEW n \in Nat, NEW m \in Nat
    PROVE  (0 .. n - 1) \cup (n .. n + m - 1) = 0 .. (n + m) - 1
  OBVIOUS

\* A step of the horizontal pass adds the next taps, or stores the next pixel.
LEMMA HorizontalKeeps ==
    ASSUME IInv, AddVector \/ AddTap \/ StoreTemp
    PROVE  IInv'
<1> USE BlurAssumption
<1>1. /\ width \in Nat \ {0} /\ height \in Nat \ {0} /\ kernel_size \in Nat \ {0}
      /\ x \in Nat /\ y \in Nat /\ k \in Nat /\ Lanes \in Nat \ {0}
      /\ Sizes /\ loop = "taps" /\ InTaps
  BY DEF IInv, Sizes, AddVector, AddTap, StoreTemp
<1>2. CASE AddVector
  <2>1. taps' = 0 .. k' - 1 /\ added' = k' /\ k' \in Nat /\ k' <= kernel_size
    <3>1. taps' = (0 .. k - 1) \cup (k .. k + Lanes - 1)
      BY <1>1, <1>2 DEF AddVector, InTaps
    <3>2. taps' = 0 .. (k + Lanes) - 1
      BY <1>1, <3>1, Extended
    <3> QED BY <1>1, <1>2, <3>2 DEF AddVector, InTaps
  <2>2. Sizes'
    BY <1>1, <1>2, <2>1 DEF Sizes, AddVector
  <2>3. InTaps'
    BY <1>1, <1>2, <2>1 DEF InTaps, AddVector
  <2>4. loop' = "taps"
    BY <1>2 DEF AddVector
  <2> QED BY <2>2, <2>3, <2>4 DEF IInv
<1>3. CASE AddTap
  <2>1. taps' = 0 .. k' - 1 /\ added' = k' /\ k' \in Nat /\ k' <= kernel_size
    <3>1. taps' = (0 .. k - 1) \cup {k}
      BY <1>1, <1>3 DEF AddTap, InTaps
    <3>2. taps' = 0 .. (k + 1) - 1
      BY <1>1, <3>1
    <3> QED BY <1>1, <1>3, <3>2 DEF AddTap, InTaps
  <2>2. Sizes'
    BY <1>1, <1>3, <2>1 DEF Sizes, AddTap
  <2>3. InTaps'
    BY <1>1, <1>3, <2>1 DEF InTaps, AddTap
  <2>4. loop' = "taps"
    BY <1>3 DEF AddTap
  <2> QED BY <2>2, <2>3, <2>4 DEF IInv
<1>4. CASE StoreTemp
  <2> DEFINE n == y * width + x
  <2>1. y * width \in Nat /\ n \in Nat
    BY <1>1
  <2>2. temp' = 0 .. n
    <3>1. temp' = (0 .. n - 1) \cup {n}
      BY <1>1, <1>4 DEF StoreTemp, InTaps, Pixel
    <3> QED BY <2>1, <3>1
  <2>3. /\ taps' = {} /\ added' = 0 /\ k' = 0 /\ output' = {} /\ stores' = 0
        /\ width' = width /\ height' = height /\ kernel_size' = kernel_size
    BY <1>1, <1>4 DEF StoreTemp, InTaps
  <2>4. CASE x + 1 < width /\ x' = x + 1 /\ UNCHANGED << y, loop >>
    <3>1. Sizes'
      BY <1>1, <2>3, <2>4 DEF Sizes
    <3>2. (y * width + x)' = n + 1
      BY <1>1, <2>1, <2>3, <2>4
    <3>3. temp' = 0 .. (y * width + x)' - 1
      BY <2>1, <2>2, <3>2
    <3>4. InTaps'
      BY <1>1, <2>3, <2>4, <3>3 DEF InTaps
    <3> QED BY <1>1, <2>4, <3>1, <3>4 DEF IInv
  <2>5. CASE x + 1 = width /\ y + 1 < height /\ x' = 0 /\ y' = y + 1 /\ UNCHANGED loop
    <3>1. Sizes'
      BY <1>1, <2>3, <2>5 DEF Sizes
    <3>2. (y + 1) * width = y * width + width
      BY <1>1
    <3>3. (y * width + x)' = n + 1
      BY <1>1, <2>1, <2>3, <2>5, <3>2
    <3>4. temp' = 0 .. (y * width + x)' - 1
      BY <2>1, <2>2, <3>3
    <3>5. InTaps'
      BY <1>1, <2>3, <2>5, <3>4 DEF InTaps
    <3> QED BY <1>1, <2>5, <3>1, <3>5 DEF IInv
  <2>6. CASE x + 1 = width /\ y + 1 = height /\ x' = 0 /\ y' = 0 /\ loop' = "vector"
    <3>1. Sizes'
      BY <1>1, <2>3, <2>6 DEF Sizes
    <3>2. n + 1 = width * height
      BY <1>1, <2>1, <2>6
    <3>3. temp' = Frame'
      BY <2>1, <2>2, <2>3, <3>2 DEF Frame
    <3>4. (y * width + x)' = 0
      BY <1>1, <2>3, <2>6
    <3>5. Stored'
      BY <1>1, <2>3, <2>6, <3>3, <3>4 DEF Stored
    <3>6. x' = 0 * Lanes
      BY <1>1, <2>6
    <3> QED BY <2>6, <3>1, <3>5, <3>6 DEF IInv
  <2> HIDE DEF n
  <2> QED BY <1>4, <2>4, <2>5, <2>6 DEF StoreTemp
<1> QED BY <1>2, <1>3, <1>4

\* A step of the vertical pass stores the next pixels of the row, or moves on
\* to where the second loop or the next row begins.
LEMMA VerticalKeeps ==
    ASSUME IInv, StoreVector \/ StartTail \/ StorePixel \/ EndRow
    PROVE  IInv'
<1> USE BlurAssumption
<1>1. /\ width \in Nat \ {0} /\ height \in Nat \ {0} /\ kernel_size \in Nat \ {0}
      /\ x \in Nat /\ y \in Nat /\ k \in Nat /\ Lanes \in Nat \ {0} /\ y < height
      /\ Sizes /\ loop \in {"vector", "tail"} /\ Stored
  BY DEF IInv, Sizes, StoreVector, StartTail, StorePixel, EndRow
<1>2. /\ width' = width /\ height' = height /\ kernel_size' = kernel_size
      /\ k' = k /\ taps' = {} /\ added' = 0 /\ temp' = Frame'
  BY <1>1 DEF StoreVector, StartTail, StorePixel, EndRow, Stored, Frame
<1> DEFINE n == y * width + x
<1>3. y * width \in Nat /\ n \in Nat
  BY <1>1
<1>4. output = 0 .. n - 1 /\ stores = n /\ x <= width
  BY <1>1 DEF Stored
<1>5. CASE StoreVector
  <2>1. /\ loop = "vector" /\ loop' = "vector" /\ y' = y
        /\ x' = x + Lanes /\ x' <= width /\ stores' = stores + Lanes
    BY <1>1, <1>5 DEF StoreVector
  <2>2. Sizes'
    BY <1>1, <1>2, <2>1 DEF Sizes
  <2>3. (y * width + x)' = n + Lanes
    BY <1>1, <1>2, <1>3, <2>1
  <2>4. output' = 0 .. (n + Lanes) - 1
    <3>1. { Pixel(x + i) : i \in 0 .. Lanes - 1 } = n .. n + Lanes - 1
      <4>1. ASSUME NEW i \in 0 .. Lanes - 1 PROVE Pixel(x + i) \in n .. n + Lanes - 1
        BY <1>1, <1>3 DEF Pixel
      <4>2. ASSUME NEW p \in n .. n + Lanes - 1
            PROVE  \E i \in 0 .. Lanes - 1 : p = Pixel(x + i)
        <5>1. p - n \in 0 .. Lanes - 1
          BY <1>1, <1>3
        <5>2. p = Pixel(x + (p - n))
          BY <1>1, <1>3 DEF Pixel
        <5> QED BY <5>1, <5>2
      <4> HIDE DEF n
      <4> QED BY <4>1, <4>2
    <3>2. output' = (0 .. n - 1) \cup (n .. n + Lanes - 1)
      BY <1>4, <1>5, <3>1 DEF StoreVector
    <3> HIDE DEF n
    <3> QED BY <1>1, <1>3, <3>2, Extended
  <2>5. Stored'
    BY <1>2, <1>4, <2>1, <2>3, <2>4 DEF Stored
  <2>6. \E q \in Nat : x' = q * Lanes
    <3>1. PICK q \in Nat : x = q * Lanes
      BY <2>1 DEF IInv
    <3>2. x' = (q + 1) * Lanes
      BY <1>1, <2>1, <3>1
    <3> QED BY <3>2
  <2> QED BY <2>1, <2>2, <2>5, <2>6 DEF IInv
<1>6. CASE StartTail
  <2>1. PICK q \in Nat : x = q * Lanes
    BY <1>6 DEF IInv, StartTail
  <2>2. width < q * Lanes + Lanes /\ q * Lanes <= width
    BY <1>1, <1>4, <1>6, <2>1 DEF StartTail
  <2>3. width \div Lanes = q
    BY <1>1, <2>2, QuotientUnique
  <2>4. x' = x
    BY <1>6, <2>1, <2>3 DEF StartTail
  <2>5. loop' = "tail" /\ y' = y /\ output' = output /\ stores' = stores
    BY <1>6 DEF StartTail
  <2>6. Sizes' /\ Stored'
    BY <1>1, <1>2, <2>4, <2>5 DEF Sizes, Stored
  <2> QED BY <2>5, <2>6 DEF IInv
<1>7. CASE StorePixel
  <2>1. /\ loop' = "tail" /\ y' = y
        /\ x' = x + 1 /\ x' <= width /\ stores' = stores + 1
    BY <1>1, <1>7 DEF StorePixel
  <2>2. Sizes'
    BY <1>1, <1>2, <2>1 DEF Sizes
  <2>3. (y * width + x)' = n + 1
    BY <1>1, <1>2, <1>3, <2>1
  <2>4. output' = 0 .. (n + 1) - 1
    <3>1. output' = (0 .. n - 1) \cup {n}
      BY <1>4, <1>7 DEF StorePixel, Pixel
    <3> QED BY <1>3, <3>1
  <2>5. Stored'
    BY <1>2, <1>4, <2>1, <2>3, <2>4 DEF Stored
  <2> QED BY <2>1, <2>2, <2>5 DEF IInv
<1>8. CASE EndRow
  <2>1. x = width /\ output' = output /\ stores' = stores
    BY <1>1, <1>4, <1>8 DEF EndRow
  <2>2. CASE y + 1 < height /\ y' = y + 1 /\ x' = 0 /\ loop' = "vector"
    <3>1. Sizes'
      BY <1>1, <1>2, <2>2 DEF Sizes
    <3>2. (y * width + x)' = n
      <4>1. (y + 1) * width = y * width + width
        BY <1>1
      <4> QED BY <1>1, <1>2, <1>3, <2>1, <2>2, <4>1
    <3>3. Stored'
      BY <1>1, <1>2, <1>4, <2>1, <2>2, <3>2 DEF Stored
    <3>4. x' = 0 * Lanes
      BY <1>1, <2>2
    <3> QED BY <2>2, <3>1, <3>3, <3>4 DEF IInv
  <2>3. CASE y + 1 = height /\ loop' = "done" /\ UNCHANGED << x, y >>
    <3>1. Sizes' /\ Stored'
      BY <1>1, <1>2, <2>1, <2>3 DEF Sizes, Stored
    <3> QED BY <1>2, <2>1, <2>3, <3>1 DEF IInv
  <2> HIDE DEF n
  <2> QED BY <1>8, <2>2, <2>3 DEF EndRow
<1> HIDE DEF n
<1> QED BY <1>5, <1>6, <1>7, <1>8

\* No step of the blur breaks the inductive invariant.
LEMMA NextKeeps == IInv /\ [Next]_vars => IInv'
<1> SUFFICES ASSUME IInv, [Next]_vars PROVE IInv'
  OBVIOUS
<1>1. CASE UNCHANGED vars
  BY <1>1 DEF vars, IInv, Sizes, InTaps, Stored, Frame
<1>2. CASE AddVector \/ AddTap \/ StoreTemp
  BY <1>2, HorizontalKeeps
<1>3. CASE StoreVector \/ StartTail \/ StorePixel \/ EndRow
  BY <1>3, VerticalKeeps
<1> QED BY <1>1, <1>2, <1>3 DEF Next, Done

\* The invariant holds of every call.
LEMMA IInvInvariant == Spec => []IInv
  BY InitEstablishes, NextKeeps, PTL DEF Spec

-----------------------------------------------------------------------------
(* The results.                                                            *)

\* No pass of the blur stores outside its frame.
THEOREM TypeCorrect == Spec => []TypeOK
<1>1. IInv => TypeOK
  <2> SUFFICES ASSUME IInv PROVE TypeOK
    OBVIOUS
  <2>1. /\ width \in Nat \ {0} /\ height \in Nat \ {0} /\ kernel_size \in Nat \ {0}
        /\ x \in Nat /\ y \in 0 .. height - 1 /\ k \in Nat /\ Sizes
    BY BlurAssumption DEF IInv, Sizes
  <2>2. ASSUME x <= width PROVE y * width + x <= width * height /\ y * width + x \in Nat
    <3>1. y * width \in Nat /\ y * width + width <= height * width
      BY <2>1, RowsFit
    <3> QED BY <2>1, <2>2, <3>1
  <2>3. CASE loop = "taps"
    <3>1. InTaps
      BY <2>3 DEF IInv
    <3>2. 0 .. (y * width + x) - 1 \subseteq Frame
      BY <2>1, <2>2, <3>1 DEF InTaps, Frame
    <3> QED BY <2>1, <2>3, <3>1, <3>2 DEF TypeOK, InTaps, Sizes
  <2>4. CASE loop # "taps"
    <3>1. Stored
      BY <2>4 DEF IInv
    <3>2. 0 .. (y * width + x) - 1 \subseteq Frame /\ stores \in Nat
      BY <2>1, <2>2, <3>1 DEF Stored, Frame
    <3>3. loop \in {"taps", "vector", "tail", "done"}
      BY DEF IInv
    <3> QED BY <2>1, <3>1, <3>2, <3>3 DEF TypeOK, Stored, Sizes
  <2> QED BY <2>3, <2>4
<1> QED BY <1>1, IInvInvariant, PTL

\* The vector loop and the rest of the horizontal pass add every tap once.
THEOREM TapsMeet == Spec => []TapsAddedOnce
<1>1. IInv => TapsAddedOnce
  BY DEF IInv, InTaps, Sizes, TapsAddedOnce
<1> QED BY <1>1, IInvInvariant, PTL

\* The vertical pass never reads an element of temp nobody wrote.
THEOREM TempIsComplete == Spec => []TempCompleteWhenRead
<1>1. IInv => TempCompleteWhenRead
  BY DEF IInv, Stored, TempCompleteWhenRead
<1> QED BY <1>1, IInvInvariant, PTL

\* The vector loop and the second loop of the vertical pass cover the frame.
THEOREM OutputIsComplete == Spec => []OutputStoredOnce
<1>1. IInv => OutputStoredOnce
  <2> SUFFICES ASSUME IInv, loop = "done"
               PROVE  output = Frame /\ stores = width * height
    BY DEF OutputStoredOnce
  <2>1. width \in Nat /\ height \in Nat /\ y \in Nat
    BY BlurAssumption DEF IInv, Sizes
  <2>2. Stored /\ x = width /\ y + 1 = height
    BY DEF IInv
  <2>3. y * width + x = width * height
    BY <2>1, <2>2
  <2> QED BY <2>2, <2>3 DEF Stored, Frame
<1> QED BY <1>1, IInvInvariant, PTL
=============================================================================
