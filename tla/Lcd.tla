-------------------------------- MODULE Lcd --------------------------------
(***************************************************************************)
(* What the firmware writes on its display, ecma0896.c and itoa.c: four    *)
(* rows of twelve characters.  A row is a label, a number and a unit; of   *)
(* label and unit only the length is kept.                                 *)
(***************************************************************************)
EXTENDS Integers, Sequences

Columns == 12
LABEL == 1     \* any character of a label, of a unit
UNIT  == 2
Blank == 32    \* the others are ASCII
Minus == 45
Zero0 == 48

BlankRow == [i \in 1 .. Columns |-> Blank]

\* dwtoa: the digits from the least significant one on, and reversed
dwtoa[n \in Nat] ==
  IF n < 10 THEN <<Zero0 + n>> ELSE Append(dwtoa[n \div 10], Zero0 + (n % 10))

\* itoa takes an int of 16 bits.  The most negative one stays negative when its sign is
\* changed: its last digit is -8 and ends the loop.
itoa(w) ==
  IF w < 32768 THEN dwtoa[w]
  ELSE IF w = 32768 THEN <<Minus, Zero0 - 8>>
  ELSE <<Minus>> \o dwtoa[65536 - w]

Text(label, number, unit) ==
  [i \in 1 .. label |-> LABEL] \o number \o [i \in 1 .. unit |-> UNIT]

\* From the first column on, at most to the last; a shorter text leaves the rest.
lcdprintstr(row, text) ==
  [i \in 1 .. Columns |-> IF i <= Len(text) THEN text[i] ELSE row[i]]

\* Mutant: the row is not blanked before.
Update_over(row, text) == lcdprintstr(row, text)

Update(row, text) == lcdprintstr(lcdprintstr(row, BlankRow), text)

\* the columns of each row's label: "Uset: ", "MT: ", "Cnt: ", "Im: "
updVolt(row, w) == Update(row, Text(6, itoa(w), 2))
updTime(row, w) == Update(row, Text(4, itoa(w), 2))
updCnt(row, n)  == Update(row, Text(5, dwtoa[n], 0))
updCurr(row, w) == Update(row, Text(4, itoa(w), 2))

-----------------------------------------------------------------------------
(* What a reader sees.                                                     *)

Digit(c) == Zero0 <= c /\ c <= Zero0 + 9

\* the number in the k columns after the label
Number(row, label, k) ==
  LET num[i \in 0 .. k] == IF i = 0 THEN 0 ELSE 10 * num[i - 1] + row[label + i] - Zero0
  IN  num[k]

\* The row is the label, the number n without leading zeros, the unit and blanks.
Shows(row, label, n, unit) ==
  \E k \in 1 .. Columns - label :
    /\ \A i \in 1 .. Columns :
         /\ i <= label => row[i] = LABEL
         /\ label < i /\ i <= label + k => Digit(row[i])
         /\ label + k < i /\ i <= label + k + unit => row[i] = UNIT
         /\ label + k + unit < i => row[i] = Blank
    /\ k > 1 => row[label + 1] # Zero0
    /\ Number(row, label, k) = n
=============================================================================
