----------------------------- MODULE EditorProofs -----------------------------
(***************************************************************************)
(* Proofs about the command line: the buffers are never overrun and both   *)
(* lengths of the line agree (EditorTypes), after every key the screen     *)
(* shows the line, as long as nothing is logged since it was entered       *)
(* (ScreenRight), what is done to the buffers is what an edited line with  *)
(* a list of commands does (EditsTheLine), and what a line sets is what    *)
(* its arguments say (TypedIsSet), for every table of commands and every   *)
(* size of the buffers.                                                    *)
(*                                                                         *)
(* The type of the line depends on what may be put into it: a name that    *)
(* is completed, and an item of the history.  That an item fits needs the  *)
(* layout of the history's bytes: there are positions z[0] = 0 < z[1] <    *)
(* ... < z[count] at which the zero bytes stand, no other ones are between *)
(* them, and they are close enough together (Items).  Removing and adding  *)
(* an item are shown to keep such positions, which are written down        *)
(* explicitly.  The screen is followed through each function of the editor *)
(* cell by cell: an edit leaves the line on the screen and nothing behind  *)
(* what was shown before (OnScreen), and the suggestion that is printed    *)
(* after every edit turns that into line, suggestion and blanks            *)
(* (ShownInv).  For the refinement the same positions give the items after *)
(* a command is put into the history (Removed, PutIn), and each edit the   *)
(* halves of the line at the cursor (LeftOf, RightOf).                     *)
(*                                                                         *)
(* For what a line sets, the tokenizer is compared with the meaning of the *)
(* arguments at every position: its flags say whether the next character   *)
(* is escaped or quoted (FlagsAre), and its result is empty, the           *)
(* characters of one argument, or contains a zero byte between characters  *)
(* of two (None, One, More).  Recursive functions have the values of their *)
(* equations because a function with those values exists                   *)
(* (RecursionExists) and no other has them (RecursionIs).                  *)
(***************************************************************************)
EXTENDS LineEditor, FiniteSetTheorems, SequenceTheorems, WellFoundedInduction, TLAPS

Text == Letters \union {Space}
Byte == Text \union {Nul}

-----------------------------------------------------------------------------
(* Sets of numbers, functions as sequences.                                *)

\* A set of natural numbers has a least element.
LEMMA LeastExists ==
  ASSUME NEW S \in SUBSET Nat, S # {}
  PROVE  \E i \in S : \A j \in S : i =< j
<1>1. PICK i \in S : \A j \in S : <<j, i>> \notin OpToRel(<, Nat)
  BY WFMin, NatLessThanWellFounded, Zenon
<1>2. \A j \in S : ~(j < i)
  BY <1>1, Zenon DEF OpToRel
<1> QED BY <1>2

\* One that is bounded has a greatest.
LEMMA GreatestExists ==
  ASSUME NEW S \in SUBSET Nat, S # {}, NEW b \in Nat, \A i \in S : i =< b
  PROVE  \E i \in S : \A j \in S : j =< i
<1> DEFINE T == {k \in Nat : \E i \in S : k = b - i}
<1>1. T \in SUBSET Nat /\ T # {}
  <2>1. PICK i \in S : TRUE
    OBVIOUS
  <2>2. b - i \in T
    OBVIOUS
  <2> QED BY <2>2
<1>2. PICK k \in T : \A j \in T : k =< j
  BY <1>1, LeastExists, Zenon
<1>3. PICK i \in S : k = b - i
  BY <1>2
<1>4. \A j \in S : b - j \in T
  OBVIOUS
<1>5. \A j \in S : b - i =< b - j
  BY <1>2, <1>3, <1>4
<1> QED BY <1>5

LEMMA FunctionIsSeq ==
  ASSUME NEW S, NEW n \in Nat, NEW f \in [1 .. n -> S]
  PROVE  f \in Seq(S) /\ Len(f) = n
<1>1. f \in Seq(S)
  BY SeqDef
<1> QED BY <1>1, LenProperties

\* A piece of a sequence.
LEMMA PieceIs ==
  ASSUME NEW S, NEW s \in Seq(S), NEW a \in Nat, NEW b \in Nat, a >= 1, b =< Len(s)
  PROVE  /\ SubSeq(s, a, b) \in Seq(S)
         /\ Len(SubSeq(s, a, b)) = IF a =< b THEN b - a + 1 ELSE 0
         /\ \A i \in 1 .. b - a + 1 : SubSeq(s, a, b)[i] = s[a + i - 1]
<1>1. \A i \in a .. b : s[i] \in S
  BY ElementOfSeq, LenProperties
<1> QED BY <1>1, SubSeqProperties

-----------------------------------------------------------------------------
(* Strings that are ended by zero bytes.                                   *)

\* z[n] is the position of the n-th zero byte in buf, for n up to count.
Ends(buf, count, z) ==
    /\ z \in [0 .. count -> 0 .. Len(buf)] /\ z[0] = 0
    /\ \A n \in 1 .. count :
           /\ z[n - 1] < z[n] /\ buf[z[n]] = Nul
           /\ \A j \in z[n - 1] + 1 .. z[n] - 1 : buf[j] # Nul

Nuls(buf, i) == {j \in 1 .. i : buf[j] = Nul}

LEMMA NulsFinite ==
  ASSUME NEW buf, NEW i \in Nat
  PROVE  IsFiniteSet(Nuls(buf, i)) /\ Cardinality(Nuls(buf, i)) \in Nat
<1>1. IsFiniteSet(1 .. i) /\ Nuls(buf, i) \in SUBSET (1 .. i)
  BY FS_Interval DEF Nuls
<1> QED BY <1>1, FS_Subset, FS_CardinalityType

\* Up to the n-th zero byte there are n of them.
LEMMA NulsUpTo ==
  ASSUME NEW S, NEW buf \in Seq(S), NEW count \in Nat, NEW z, Ends(buf, count, z)
  PROVE  \A n \in 0 .. count : Cardinality(Nuls(buf, z[n])) = n
<1> DEFINE Wrong == {n \in 0 .. count : Cardinality(Nuls(buf, z[n])) # n}
<1>1. SUFFICES ASSUME Wrong # {} PROVE FALSE
  BY Zenon
<1>2. PICK n \in Wrong : \A m \in Wrong : n =< m
  <2>1. Wrong \in SUBSET Nat
    OBVIOUS
  <2> HIDE DEF Wrong
  <2> QED BY <1>1, <2>1, LeastExists, Zenon
<1>3. n # 0
  <2>1. Nuls(buf, 0) = {}
    BY DEF Nuls
  <2> QED BY <1>2, <2>1, FS_EmptySet DEF Ends
<1>4. n \in 1 .. count /\ n - 1 \in 0 .. count /\ z[n] \in Nat /\ z[n - 1] \in Nat
  BY <1>2, <1>3, LenProperties DEF Ends
<1>5. Cardinality(Nuls(buf, z[n - 1])) = n - 1
  BY <1>2, <1>4
<1>6. Nuls(buf, z[n]) = Nuls(buf, z[n - 1]) \union {z[n]} /\ z[n] \notin Nuls(buf, z[n - 1])
  <2>1. /\ z[n - 1] < z[n] /\ buf[z[n]] = Nul
        /\ \A j \in z[n - 1] + 1 .. z[n] - 1 : buf[j] # Nul
    BY <1>4 DEF Ends
  <2> QED BY <1>4, <2>1, SMTT(30) DEF Nuls
<1>7. Cardinality(Nuls(buf, z[n])) = n
  <2>1. IsFiniteSet(Nuls(buf, z[n - 1]))
    BY <1>4, NulsFinite
  <2>2. Cardinality(Nuls(buf, z[n - 1]) \union {z[n]}) = Cardinality(Nuls(buf, z[n - 1])) + 1
    BY <1>6, <2>1, FS_AddElement
  <2>3. Cardinality(Nuls(buf, z[n])) = (n - 1) + 1
    BY <1>5, <1>6, <2>2
  <2> QED BY <1>4, <2>3
<1> QED BY <1>2, <1>7

\* So that is where the code finds the n-th zero byte.
LEMMA NulAtIs ==
  ASSUME NEW S, NEW buf \in Seq(S), NEW count \in Nat, NEW z, Ends(buf, count, z),
         NEW n \in 0 .. count
  PROVE  NulAt(buf, n) = z[n]
<1> DEFINE Is(i) == /\ Cardinality({j \in 1 .. i : buf[j] = Nul}) = n
                    /\ i > 0 => buf[i] = Nul
<1>1. z[n] \in 0 .. Len(buf) /\ Len(buf) \in Nat
  BY LenProperties DEF Ends
<1>2. Is(z[n])
  <2>1. Cardinality(Nuls(buf, z[n])) = n
    BY NulsUpTo, Zenon
  <2>2. n # 0 => n \in 1 .. count
    OBVIOUS
  <2>3. z[n] > 0 => buf[z[n]] = Nul
    BY <2>2 DEF Ends
  <2> QED BY <2>1, <2>3 DEF Nuls
<1>3. ASSUME NEW a \in 0 .. Len(buf), NEW b \in 0 .. Len(buf), Is(a), Is(b), a < b
      PROVE  FALSE
  <2>1. a \in Nat /\ b \in Nat
    BY <1>1
  <2>2. Nuls(buf, a) \in SUBSET Nuls(buf, b)
    BY <1>3, <2>1 DEF Nuls
  <2>3. Cardinality(Nuls(buf, a)) = Cardinality(Nuls(buf, b))
    BY <1>3 DEF Nuls
  <2>4. Nuls(buf, a) = Nuls(buf, b)
    BY <2>1, <2>2, <2>3, NulsFinite, FS_Subset, Zenon
  <2>5. b \in Nuls(buf, b) /\ b \notin Nuls(buf, a)
    BY <1>3, <2>1 DEF Nuls
  <2> QED BY <2>4, <2>5
<1>4. \A i \in 0 .. Len(buf) : Is(i) => i = z[n]
  BY <1>1, <1>2, <1>3, SMTT(30)
<1> HIDE DEF Is
<1>5. (CHOOSE i \in 0 .. Len(buf) : Is(i)) = z[n]
  BY <1>1, <1>2, <1>4
<1> QED BY <1>5 DEF NulAt, Is

-----------------------------------------------------------------------------
(* The history of commands.                                                *)

\* The buffer holds count strings, each short enough to be a line.
Items(h, z) ==
    /\ Ends(h.buf, h.count, z)
    /\ \A n \in 1 .. h.count : z[n] - z[n - 1] + 1 =< CmdMax

HistoryOK(h) ==
    /\ h \in [buf : [1 .. HistorySize -> Byte], count : Nat]
    /\ \E z : Items(h, z)

LEMMA HistoryBuffer ==
  ASSUME NEW h \in [buf : [1 .. HistorySize -> Byte], count : Nat]
  PROVE  /\ h.buf \in Seq(Byte) /\ Len(h.buf) = HistorySize /\ h.count \in Nat
         /\ \A i \in 1 .. HistorySize : h.buf[i] \in Byte
BY FunctionIsSeq, HistoryAssumption

LEMMA EndsAt ==
  ASSUME NEW h \in [buf : [1 .. HistorySize -> Byte], count : Nat], NEW z, Items(h, z)
  PROVE  /\ \A n \in 0 .. h.count : NulAt(h.buf, n) = z[n] /\ z[n] \in 0 .. HistorySize
         /\ z[0] = 0
         /\ \A n \in 1 .. h.count :
                /\ z[n - 1] < z[n] /\ h.buf[z[n]] = Nul
                /\ \A j \in z[n - 1] + 1 .. z[n] - 1 : h.buf[j] # Nul
                /\ z[n] - z[n - 1] + 1 =< CmdMax
<1>1. Ends(h.buf, h.count, z) /\ h.buf \in Seq(Byte) /\ Len(h.buf) = HistorySize
  BY HistoryBuffer DEF Items
<1>2. ASSUME NEW n \in 0 .. h.count
      PROVE  NulAt(h.buf, n) = z[n]
  <2>1. h.count \in Nat
    BY HistoryBuffer
  <2> QED BY <1>1, <2>1, NulAtIs
<1>3. \A n \in 0 .. h.count : z[n] \in 0 .. HistorySize
  BY <1>1 DEF Ends
<1> QED BY <1>1, <1>2, <1>3 DEF Ends, Items

LEMMA EndsGrow ==
  ASSUME NEW h \in [buf : [1 .. HistorySize -> Byte], count : Nat], NEW z, Items(h, z),
         NEW a \in 0 .. h.count, NEW b \in 0 .. h.count, a =< b
  PROVE  z[a] =< z[b]
<1> DEFINE Wrong == {n \in a .. h.count : z[n] < z[a]}
<1>1. SUFFICES ASSUME Wrong # {} PROVE FALSE
  <2>1. b \in a .. h.count /\ z[a] \in Int /\ z[b] \in Int
    BY EndsAt
  <2> QED BY <2>1
<1>2. Wrong \in SUBSET Nat
  OBVIOUS
<1>3. PICK n \in Wrong : \A m \in Wrong : n =< m
  <2> HIDE DEF Wrong
  <2> QED BY <1>1, <1>2, LeastExists, Zenon
<1>4. n # a /\ n \in a .. h.count /\ z[n] < z[a] /\ z[a] \in Int
  BY <1>3, EndsAt
<1>5. n \in 1 .. h.count /\ n - 1 \in a .. h.count /\ n \in 0 .. h.count /\ n - 1 \in 0 .. h.count
  BY <1>4
<1>6. z[n - 1] < z[n] /\ z[n] \in Int /\ z[n - 1] \in Int
  BY <1>5, EndsAt
<1>7. n - 1 \in Wrong
  BY <1>4, <1>5, <1>6
<1> QED BY <1>3, <1>5, <1>7

\* What historyGet returns can be put into the line.
LEMMA ItemIs ==
  ASSUME NEW h \in [buf : [1 .. HistorySize -> Byte], count : Nat], NEW z, Items(h, z),
         NEW n \in 1 .. h.count
  PROVE  /\ Token(h.buf, n) \in Seq(Text)
         /\ Len(Token(h.buf, n)) = z[n] - z[n - 1] - 1
         /\ Len(Token(h.buf, n)) =< CmdMax - 2
<1>1. /\ n - 1 \in 0 .. h.count /\ n \in 0 .. h.count
      /\ z[n] \in 0 .. HistorySize /\ z[n - 1] \in 0 .. HistorySize
      /\ z[n - 1] < z[n] /\ z[n] - z[n - 1] + 1 =< CmdMax
      /\ \A j \in z[n - 1] + 1 .. z[n] - 1 : h.buf[j] # Nul
  <2>1. n - 1 \in 0 .. h.count /\ n \in 0 .. h.count
    BY HistoryBuffer
  <2> QED BY <2>1, EndsAt
<1>2. Token(h.buf, n) = SubSeq(h.buf, z[n - 1] + 1, z[n] - 1)
  <2>1. NulAt(h.buf, n - 1) = z[n - 1] /\ NulAt(h.buf, n) = z[n]
    BY <1>1, EndsAt
  <2> QED BY <2>1, Zenon DEF Token
<1>3. \A j \in z[n - 1] + 1 .. z[n] - 1 : h.buf[j] \in Text
  <2>1. TAKE j \in z[n - 1] + 1 .. z[n] - 1
  <2>2. j \in 1 .. HistorySize /\ h.buf[j] # Nul
    BY <1>1, HistoryAssumption
  <2>3. h.buf[j] \in Byte
    BY <2>2, HistoryBuffer
  <2> QED BY <2>2, <2>3 DEF Byte
<1> DEFINE a == z[n - 1] + 1
           b == z[n] - 1
<1>4. a \in Int /\ b \in Int /\ (a =< b \/ b - a + 1 = 0) /\ b - a + 1 = z[n] - z[n - 1] - 1
  BY <1>1, HistoryAssumption, SMTT(30)
<1>5. /\ SubSeq(h.buf, a, b) \in Seq(Text)
      /\ Len(SubSeq(h.buf, a, b)) = IF a =< b THEN b - a + 1 ELSE 0
  <2>1. \A i \in a .. b : h.buf[i] \in Text
    BY <1>3
  <2> HIDE DEF a, b
  <2> QED BY <1>4, <2>1, SubSeqProperties
<1>6. Token(h.buf, n) = SubSeq(h.buf, a, b)
  BY <1>2
<1>7. Len(SubSeq(h.buf, a, b)) = b - a + 1
  <2> HIDE DEF a, b
  <2> QED BY <1>4, <1>5
<1>8. b - a + 1 =< CmdMax - 2
  BY <1>1, HistoryAssumption, CmdMaxAssumption, SMTT(30)
<1> HIDE DEF a, b
<1> QED BY <1>4, <1>5, <1>6, <1>7, <1>8

LEMMA GetIs ==
  ASSUME NEW h, HistoryOK(h), NEW n \in Nat
  PROVE  HistoryGet(h, n) \in Seq(Text) /\ Len(HistoryGet(h, n)) =< CmdMax - 2
<1>1. PICK z : Items(h, z)
  BY DEF HistoryOK
<1>2. CASE n \in 1 .. h.count
  BY <1>1, <1>2, ItemIs DEF HistoryOK, HistoryGet
<1>3. CASE n \notin 1 .. h.count
  BY <1>3, CmdMaxAssumption, EmptySeq DEF HistoryGet
<1> QED BY <1>2, <1>3

\* How the positions of the zero bytes make a history good.
LEMMA ItemsMake ==
  ASSUME NEW h \in [buf : [1 .. HistorySize -> Byte], count : Nat],
         NEW z \in [0 .. h.count -> 0 .. HistorySize], z[0] = 0,
         \A n \in 1 .. h.count :
             /\ z[n - 1] < z[n] /\ h.buf[z[n]] = Nul
             /\ \A j \in z[n - 1] + 1 .. z[n] - 1 : h.buf[j] # Nul
             /\ z[n] - z[n - 1] + 1 =< CmdMax
  PROVE  Items(h, z) /\ HistoryOK(h)
<1>1. Len(h.buf) = HistorySize
  BY HistoryBuffer
<1>2. Ends(h.buf, h.count, z)
  BY <1>1 DEF Ends
<1>3. Items(h, z)
  BY <1>2 DEF Items
<1> QED BY <1>3 DEF HistoryOK

\* The n-th item of g is the m-th of h, at another place.
Moved(h, z, m, g, y, n) ==
    /\ y[n] - y[n - 1] = z[m] - z[m - 1]
    /\ \A j \in y[n - 1] + 1 .. y[n] - 1 : g.buf[j] = h.buf[j + (z[m] - y[n])]

\* The bytes of an item.
LEMMA ItemAt ==
  ASSUME NEW h \in [buf : [1 .. HistorySize -> Byte], count : Nat], NEW z, Items(h, z),
         NEW n \in 1 .. h.count
  PROVE  \A i \in 1 .. z[n] - z[n - 1] - 1 : Token(h.buf, n)[i] = h.buf[z[n - 1] + i]
<1>1. n - 1 \in 0 .. h.count /\ n \in 0 .. h.count
  BY HistoryBuffer
<1>2. /\ NulAt(h.buf, n - 1) = z[n - 1] /\ NulAt(h.buf, n) = z[n]
      /\ z[n - 1] \in 0 .. HistorySize /\ z[n] \in 0 .. HistorySize
  BY <1>1, EndsAt
<1> DEFINE lo == z[n - 1]
           hi == z[n]
<1>3. /\ lo \in 0 .. HistorySize /\ hi \in 0 .. HistorySize
      /\ Token(h.buf, n) = SubSeq(h.buf, lo + 1, hi - 1)
  BY <1>2, Zenon DEF Token
<1>4. h.buf \in Seq(Byte) /\ Len(h.buf) = HistorySize
  BY HistoryBuffer
<1> HIDE DEF lo, hi
<1> DEFINE a == lo + 1
           b == hi - 1
<1>5. a \in Nat /\ a >= 1 /\ b \in Int /\ b =< HistorySize /\ a = lo + 1 /\ b - a + 1 = hi - lo - 1
  BY <1>3, HistoryAssumption
<1> HIDE DEF a, b
<1>6. ASSUME NEW i \in 1 .. hi - lo - 1
      PROVE  SubSeq(h.buf, a, b)[i] = h.buf[lo + i]
  <2>1. i \in 1 .. b - a + 1 /\ a + i - 1 = lo + i
    BY <1>3, <1>5
  <2>2. b \in Nat
    BY <1>5, <2>1
  <2>3. b =< Len(h.buf)
    BY <1>4, <1>5
  <2> DEFINE buf == h.buf
  <2>5. buf \in Seq(Byte) /\ b =< Len(buf) /\ a \in Nat /\ a >= 1
    BY <1>4, <1>5, <2>3
  <2> HIDE DEF buf
  <2>6. \A k \in 1 .. b - a + 1 : SubSeq(buf, a, b)[k] = buf[a + k - 1]
    BY <2>2, <2>5, PieceIs
  <2>4. \A k \in 1 .. b - a + 1 : SubSeq(h.buf, a, b)[k] = h.buf[a + k - 1]
    BY <2>6 DEF buf
  <2> QED BY <2>1, <2>4
<1>7. \A i \in 1 .. hi - lo - 1 : Token(h.buf, n)[i] = h.buf[lo + i]
  BY <1>3, <1>6 DEF a, b
<1> QED BY <1>7 DEF lo, hi

LEMMA ItemMoves ==
  ASSUME NEW h \in [buf : [1 .. HistorySize -> Byte], count : Nat], NEW z, Items(h, z),
         NEW m \in 1 .. h.count,
         NEW g \in [buf : [1 .. HistorySize -> Byte], count : Nat], NEW y, Items(g, y),
         NEW n \in 1 .. g.count, Moved(h, z, m, g, y, n)
  PROVE  Token(g.buf, n) = Token(h.buf, m)
<1> DEFINE s == Token(h.buf, m)
           t == Token(g.buf, n)
           a == z[m - 1]
           b == z[m]
           c == y[n - 1]
           d == y[n]
<1>1. a \in Int /\ b \in Int
  <2>1. m - 1 \in 0 .. h.count /\ m \in 0 .. h.count
    BY HistoryBuffer
  <2>2. z[m - 1] \in 0 .. HistorySize /\ z[m] \in 0 .. HistorySize
    BY <2>1, EndsAt
  <2> QED BY <2>2
<1>2. c \in Int /\ d \in Int
  <2>1. n - 1 \in 0 .. g.count /\ n \in 0 .. g.count
    BY HistoryBuffer
  <2>2. y[n - 1] \in 0 .. HistorySize /\ y[n] \in 0 .. HistorySize
    BY <2>1, EndsAt
  <2> QED BY <2>2
<1>3. d - c = b - a /\ \A j \in c + 1 .. d - 1 : g.buf[j] = h.buf[j + (b - d)]
  BY DEF Moved
<1>4. s \in Seq(Text) /\ Len(s) = b - a - 1
  BY ItemIs
<1>5. t \in Seq(Text) /\ Len(t) = d - c - 1
  BY ItemIs
<1>6. \A i \in 1 .. b - a - 1 : s[i] = h.buf[a + i]
  BY ItemAt
<1>7. \A i \in 1 .. d - c - 1 : t[i] = g.buf[c + i]
  BY ItemAt
<1> HIDE DEF s, t, a, b, c, d
<1>8. ASSUME NEW i \in 1 .. b - a - 1
      PROVE  g.buf[c + i] = h.buf[a + i]
  <2> DEFINE j == c + i
  <2>1. j \in c + 1 .. d - 1 /\ j + (b - d) = a + i
    BY <1>1, <1>2, <1>3
  <2> HIDE DEF j
  <2>2. g.buf[j] = h.buf[a + i]
    BY <1>3, <2>1
  <2> QED BY <2>2 DEF j
<1>9. s = t
  <2>1. Len(s) = Len(t) /\ Len(s) = b - a - 1 /\ d - c - 1 = b - a - 1
    BY <1>1, <1>2, <1>3, <1>4, <1>5
  <2>2. \A i \in 1 .. Len(s) : s[i] = t[i]
    BY <1>6, <1>7, <1>8, <2>1
  <2> QED BY <1>4, <1>5, <2>1, <2>2, SeqEqual
<1> QED BY <1>9 DEF s, t

\* What historyRemove does to the items.
Removed(h, str, g) ==
    \/ g = h /\ \A m \in 1 .. h.count : Token(h.buf, m) # str
    \/ /\ g.count = h.count - 1
       /\ \E n \in 1 .. h.count :
              /\ Token(h.buf, n) = str /\ \A m \in 1 .. n - 1 : Token(h.buf, m) # str
              /\ \A m \in 1 .. g.count :
                     Token(g.buf, m) = Token(h.buf, IF m < n THEN m ELSE m + 1)

\* historyRemove: the items behind the removed one move up.
LEMMA RemoveKeeps ==
  ASSUME NEW h, HistoryOK(h), NEW str \in Seq(Text)
  PROVE  HistoryOK(HistoryRemove(h, str)) /\ Removed(h, str, HistoryRemove(h, str))
<1> DEFINE hits == {n \in 1 .. h.count : Token(h.buf, n) = str}
           n == CHOOSE m \in hits : \A k \in hits : m =< k
           at == NulAt(h.buf, n - 1)
           gap == Len(str) + 1
           moved == [i \in 1 .. HistorySize |->
                        IF i > at /\ i + gap =< HistorySize THEN h.buf[i + gap] ELSE h.buf[i]]
           g == [buf |-> IF n = h.count THEN h.buf ELSE moved, count |-> h.count - 1]
<1>1. HistoryRemove(h, str) = IF hits = {} THEN h ELSE g
  BY Zenon DEF HistoryRemove
<1>2. h.count \in Nat /\ h \in [buf : [1 .. HistorySize -> Byte], count : Nat]
  BY DEF HistoryOK
<1>3. CASE hits = {}
  BY <1>1, <1>2, <1>3 DEF Removed
<1>4. CASE hits # {}
  <2>1. /\ n \in 1 .. h.count /\ Token(h.buf, n) = str
        /\ \A m \in 1 .. n - 1 : Token(h.buf, m) # str
    <3>1. hits \in SUBSET Nat
      BY <1>2
    <3>2. \E m \in hits : \A k \in hits : m =< k
      <4> HIDE DEF hits
      <4> QED BY <1>4, <3>1, LeastExists, Zenon
    <3>3. n \in hits /\ \A k \in hits : n =< k
      BY <3>2, Zenon
    <3>4. n \in 1 .. h.count /\ Token(h.buf, n) = str
      BY <3>3
    <3>5. ASSUME NEW m \in 1 .. n - 1
          PROVE  Token(h.buf, m) # str
      <4>1. m \in 1 .. h.count /\ ~(n =< m)
        BY <1>2, <3>4
      <4> QED BY <3>3, <4>1
    <3> QED BY <3>4, <3>5
  <2>2. PICK z : Items(h, z)
    BY DEF HistoryOK
  <2> HIDE DEF n, hits
  <2>3. /\ at = z[n - 1] /\ gap = z[n] - z[n - 1]
        /\ z[n - 1] \in 0 .. HistorySize /\ z[n] \in 0 .. HistorySize
        /\ z[n - 1] < z[n]
    <3>1. n - 1 \in 0 .. h.count /\ n \in 0 .. h.count
      BY <1>2, <2>1
    <3>2. /\ NulAt(h.buf, n - 1) = z[n - 1] /\ z[n - 1] < z[n]
          /\ z[n - 1] \in 0 .. HistorySize /\ z[n] \in 0 .. HistorySize
      BY <1>2, <2>1, <2>2, <3>1, EndsAt
    <3>3. Len(str) = z[n] - z[n - 1] - 1
      BY <1>2, <2>1, <2>2, ItemIs
    <3> QED BY <3>2, <3>3, HistoryAssumption
  <2>4. \A m \in 0 .. h.count : z[m] \in 0 .. HistorySize
    BY <1>2, <2>2, EndsAt
  <2>5. /\ z[0] = 0
        /\ \A m \in 1 .. h.count :
               /\ z[m - 1] < z[m] /\ h.buf[z[m]] = Nul
               /\ \A j \in z[m - 1] + 1 .. z[m] - 1 : h.buf[j] # Nul
               /\ z[m] - z[m - 1] + 1 =< CmdMax
    BY <1>2, <2>2, EndsAt
  <2> HIDE DEF at, gap, moved
  <2>6. g \in [buf : [1 .. HistorySize -> Byte], count : Nat]
    <3>1. moved \in [1 .. HistorySize -> Byte]
      <4>1. ASSUME NEW i \in 1 .. HistorySize, i > at /\ i + gap =< HistorySize
            PROVE  i + gap \in 1 .. HistorySize
        BY <2>3, <4>1, HistoryAssumption
      <4> QED BY <1>2, <4>1 DEF moved
    <3> QED BY <1>2, <2>1, <3>1
  <2>7. g.count = h.count - 1 /\ g.buf = IF n = h.count THEN h.buf ELSE moved
    BY Zenon
  <2> HIDE DEF g
  <2>8. CASE n = h.count
    <3> DEFINE y == [m \in 0 .. g.count |-> z[m]]
    <3>1. y \in [0 .. g.count -> 0 .. HistorySize] /\ y[0] = 0
      BY <1>2, <2>1, <2>4, <2>5, <2>7
    <3>2. ASSUME NEW m \in 1 .. g.count
          PROVE  /\ y[m - 1] < y[m] /\ g.buf[y[m]] = Nul
                 /\ \A j \in y[m - 1] + 1 .. y[m] - 1 : g.buf[j] # Nul
                 /\ y[m] - y[m - 1] + 1 =< CmdMax
      <4>1. m \in 1 .. h.count /\ y[m] = z[m] /\ y[m - 1] = z[m - 1] /\ g.buf = h.buf
        BY <1>2, <2>7, <2>8
      <4> QED BY <2>5, <4>1
    <3> HIDE DEF y
    <3>3. HistoryOK(g)
      BY <2>6, <3>1, <3>2, ItemsMake
    <3>4. ASSUME NEW m \in 1 .. g.count
          PROVE  Token(g.buf, m) = Token(h.buf, IF m < n THEN m ELSE m + 1)
      BY <1>2, <2>7, <2>8
    <3>5. Removed(h, str, g)
      BY <2>1, <2>7, <3>4, Zenon DEF Removed
    <3> QED BY <1>1, <1>4, <3>3, <3>5
  <2>9. CASE n # h.count
    <3> DEFINE y == [m \in 0 .. g.count |-> IF m < n THEN z[m] ELSE z[m + 1] - gap]
    <3>1. ASSUME NEW m \in n .. h.count
          PROVE  z[m] \in 0 .. HistorySize /\ z[m] >= z[n] /\ z[m] - gap \in 0 .. HistorySize
      <4>1. m \in 0 .. h.count /\ n \in 0 .. h.count /\ n =< m
        BY <1>2, <2>1
      <4>2. z[n] =< z[m]
        BY <1>2, <2>2, <4>1, EndsGrow
      <4>3. z[m] \in 0 .. HistorySize
        BY <2>4, <4>1
      <4> QED BY <2>3, <4>2, <4>3, HistoryAssumption
    <3>2. ASSUME NEW m \in 0 .. n - 1
          PROVE  z[m] \in 0 .. HistorySize /\ z[m] =< at
      <4>1. m \in 0 .. h.count /\ n - 1 \in 0 .. h.count /\ m =< n - 1
        BY <1>2, <2>1
      <4>2. z[m] =< z[n - 1]
        BY <1>2, <2>2, <4>1, EndsGrow
      <4> QED BY <2>3, <2>4, <4>1, <4>2
    <3>3. \A m \in 0 .. g.count : y[m] = IF m < n THEN z[m] ELSE z[m + 1] - gap
      OBVIOUS
    <3>4. y \in [0 .. g.count -> 0 .. HistorySize] /\ y[0] = 0
      <4>1. ASSUME NEW m \in 0 .. g.count
            PROVE  (IF m < n THEN z[m] ELSE z[m + 1] - gap) \in 0 .. HistorySize
        <5>1. CASE m < n
          <6>1. m \in 0 .. n - 1
            BY <1>2, <2>1, <5>1
          <6> QED BY <3>2, <5>1, <6>1
        <5>2. CASE ~(m < n)
          <6>1. m + 1 \in n .. h.count
            BY <1>2, <2>1, <2>7, <5>2
          <6> QED BY <3>1, <5>2, <6>1
        <5> QED BY <5>1, <5>2
      <4>2. 0 \in 0 .. g.count /\ 0 < n
        BY <1>2, <2>1, <2>7
      <4> QED BY <2>5, <3>3, <4>1, <4>2
    <3> HIDE DEF y
    <3>5. ASSUME NEW m \in 1 .. g.count
          PROVE  /\ y[m - 1] < y[m] /\ g.buf[y[m]] = Nul
                 /\ \A j \in y[m - 1] + 1 .. y[m] - 1 : g.buf[j] # Nul
                 /\ y[m] - y[m - 1] + 1 =< CmdMax
                 /\ Moved(h, z, IF m < n THEN m ELSE m + 1, g, y, m)
      <4>1. /\ m \in 1 .. h.count /\ m - 1 \in 0 .. g.count /\ m \in 0 .. g.count
            /\ m + 1 \in 1 .. h.count
        BY <1>2, <2>1, <2>7
      <4>2. g.buf = moved
        BY <2>7, <2>9
      <4>3. CASE m < n
        <5>1. y[m] = z[m] /\ y[m - 1] = z[m - 1] /\ m \in 0 .. n - 1 /\ m - 1 \in 0 .. n - 1
          BY <1>2, <2>1, <3>3, <4>1, <4>3
        <5>2. /\ z[m] \in 0 .. HistorySize /\ z[m] =< at
              /\ z[m - 1] \in 0 .. HistorySize
          BY <3>2, <5>1
        <5>3. /\ z[m - 1] < z[m] /\ h.buf[z[m]] = Nul
              /\ \A j \in z[m - 1] + 1 .. z[m] - 1 : h.buf[j] # Nul
              /\ z[m] - z[m - 1] + 1 =< CmdMax
          BY <2>5, <4>1
        <5>4. \A j \in 1 .. z[m] : moved[j] = h.buf[j]
          BY <2>3, <5>2, HistoryAssumption DEF moved
        <5>5. z[m] \in 1 .. z[m] /\ \A j \in z[m - 1] + 1 .. z[m] - 1 : j \in 1 .. z[m]
          BY <5>2, <5>3, HistoryAssumption
        <5>6. Moved(h, z, m, g, y, m)
          <6>1. \A j \in z[m - 1] + 1 .. z[m] - 1 : j + (z[m] - z[m]) = j
            BY <5>2
          <6> QED BY <4>2, <5>1, <5>4, <5>5, <6>1 DEF Moved
        <5> QED BY <4>2, <4>3, <5>1, <5>3, <5>4, <5>5, <5>6
      <4>4. CASE ~(m < n)
        <5>1. y[m] = z[m + 1] - gap
          BY <3>3, <4>1, <4>4
        <5>2. y[m - 1] = z[m] - gap
          <6>1. CASE m = n
            <7>1. m - 1 < n
              BY <4>1, <6>1
            <7> QED BY <2>3, <3>3, <4>1, <6>1, <7>1, HistoryAssumption
          <6>2. CASE m # n
            <7>1. ~(m - 1 < n) /\ (m - 1) + 1 = m
              BY <2>1, <4>1, <4>4, <6>2
            <7> QED BY <3>3, <4>1, <7>1
          <6> QED BY <6>1, <6>2
        <5>3. m \in n .. h.count /\ m + 1 \in n .. h.count /\ (m + 1) - 1 = m
          BY <2>1, <4>1, <4>4
        <5>4. /\ z[m] \in 0 .. HistorySize /\ z[m] >= z[n]
              /\ z[m + 1] \in 0 .. HistorySize
          BY <3>1, <5>3
        <5>5. /\ z[m] < z[m + 1] /\ h.buf[z[m + 1]] = Nul
              /\ \A j \in z[m] + 1 .. z[m + 1] - 1 : h.buf[j] # Nul
              /\ z[m + 1] - z[m] + 1 =< CmdMax
          BY <2>5, <4>1, <5>3
        <5>6. /\ z[m] \in Int /\ z[m + 1] \in Int /\ gap \in Int /\ at \in Int
              /\ y[m] \in Int /\ y[m - 1] \in Int
          BY <2>3, <5>1, <5>2, <5>4, SMTT(30)
        <5>7. at >= 0 /\ z[m] - gap >= at /\ z[m + 1] =< HistorySize /\ gap > 0
          BY <2>3, <5>4, HistoryAssumption, SMTT(30)
        <5>8. ASSUME NEW j \in y[m - 1] + 1 .. y[m]
              PROVE  /\ moved[j] = h.buf[j + gap]
                     /\ j # y[m] => j + gap \in z[m] + 1 .. z[m + 1] - 1
          <6>1. j \in Int /\ j > z[m] - gap /\ j =< z[m + 1] - gap
            BY <5>6, <5>1, <5>2
          <6>2. j \in 1 .. HistorySize /\ j > at /\ j + gap =< HistorySize
            BY <5>6, <5>7, <6>1, HistoryAssumption, SMTT(30)
          <6>3. moved[j] = h.buf[j + gap]
            BY <6>2 DEF moved
          <6>4. j + gap > z[m] /\ j + gap =< z[m + 1] /\ j + gap \in Int
            BY <5>6, <6>1, SMTT(30)
          <6>5. j # y[m] => j + gap # z[m + 1]
            BY <5>6, <5>1, <6>1
          <6>6. j # y[m] => j + gap \in z[m] + 1 .. z[m + 1] - 1
            BY <5>6, <6>4, <6>5
          <6> QED BY <6>3, <6>6
        <5>9. /\ y[m - 1] < y[m] /\ y[m] \in y[m - 1] + 1 .. y[m] /\ y[m] + gap = z[m + 1]
              /\ y[m] - y[m - 1] = z[m + 1] - z[m]
          <6>1. z[m] < z[m + 1]
            BY <5>5
          <6>2. y[m] + gap = z[m + 1] /\ y[m - 1] + gap = z[m]
            BY <5>6, <5>1, <5>2
          <6>3. y[m - 1] < y[m] /\ y[m] - y[m - 1] = z[m + 1] - z[m]
            BY <5>6, <6>1, <6>2
          <6> QED BY <5>6, <6>2, <6>3
        <5>10. moved[y[m]] = Nul
          BY <5>5, <5>8, <5>9
        <5>11. \A j \in y[m - 1] + 1 .. y[m] - 1 : moved[j] # Nul
          <6>1. TAKE j \in y[m - 1] + 1 .. y[m] - 1
          <6>2. j \in y[m - 1] + 1 .. y[m] /\ j # y[m]
            BY <5>6
          <6> QED BY <5>5, <5>8, <6>2
        <5>12. Moved(h, z, m + 1, g, y, m)
          <6>1. z[m + 1] - y[m] = gap /\ (m + 1) - 1 = m
            BY <5>3, <5>6, <5>9
          <6>2. \A j \in y[m - 1] + 1 .. y[m] - 1 : j \in y[m - 1] + 1 .. y[m]
            BY <5>6
          <6> QED BY <4>2, <5>8, <5>9, <6>1, <6>2 DEF Moved
        <5> QED BY <4>2, <4>4, <5>5, <5>9, <5>10, <5>11, <5>12
      <4> QED BY <4>3, <4>4
    <3>6. Items(g, y) /\ HistoryOK(g)
      BY <2>6, <3>4, <3>5, ItemsMake
    <3>7. ASSUME NEW m \in 1 .. g.count
          PROVE  Token(g.buf, m) = Token(h.buf, IF m < n THEN m ELSE m + 1)
      <4> DEFINE k == IF m < n THEN m ELSE m + 1
      <4>1. k \in 1 .. h.count
        BY <1>2, <2>1, <2>7
      <4>2. Moved(h, z, k, g, y, m)
        BY <3>5
      <4> HIDE DEF k
      <4>3. Token(g.buf, m) = Token(h.buf, k)
        BY <1>2, <2>2, <2>6, <3>6, <4>1, <4>2, ItemMoves
      <4> QED BY <4>3 DEF k
    <3>8. Removed(h, str, g)
      BY <2>1, <2>7, <3>7, Zenon DEF Removed
    <3> QED BY <1>1, <1>4, <3>6, <3>8
  <2> QED BY <2>8, <2>9
<1> QED BY <1>3, <1>4

\* How many items are kept for a string of that size.
LEMMA KeptIs ==
  ASSUME NEW h, h \in [buf : [1 .. HistorySize -> Byte], count : Nat], NEW z, Items(h, z),
         NEW size \in Nat, size =< HistorySize
  PROVE  /\ Kept(h, size) \in 0 .. h.count /\ z[Kept(h, size)] + size =< HistorySize
         /\ \A m \in Kept(h, size) + 1 .. h.count : z[m] + size > HistorySize
<1> DEFINE Fits(n) == n = 0 \/ NulAt(h.buf, n) + size =< HistorySize
           S == {n \in 0 .. h.count : Fits(n)}
           Best(n) == Fits(n) /\ \A m \in n + 1 .. h.count : NulAt(h.buf, m) + size > HistorySize
<1>1. h.count \in Nat
  OBVIOUS
<1>2. S \in SUBSET Nat /\ 0 \in S /\ \A i \in S : i =< h.count
  BY <1>1
<1>3. PICK n \in S : \A m \in S : m =< n
  <2> HIDE DEF S
  <2>1. S # {}
    BY <1>2
  <2> QED BY <1>1, <1>2, <2>1, GreatestExists
<1>4. n \in 0 .. h.count /\ Fits(n)
  BY <1>3
<1>5. ASSUME NEW m \in n + 1 .. h.count
      PROVE  NulAt(h.buf, m) + size > HistorySize
  <2>1. m \in 0 .. h.count /\ ~(m =< n)
    BY <1>1, <1>4
  <2>2. ~Fits(m)
    BY <1>3, <2>1
  <2>3. NulAt(h.buf, m) \in 0 .. HistorySize
    BY <2>1, EndsAt
  <2> QED BY <2>2, <2>3, HistoryAssumption
<1>6. \E i \in 0 .. h.count : Best(i)
  BY <1>4, <1>5, Zenon
<1> DEFINE k == CHOOSE i \in 0 .. h.count : Best(i)
<1>7. k \in 0 .. h.count /\ Best(k)
  BY <1>6, Zenon
<1>8. Kept(h, size) = k
  BY Zenon DEF Kept
<1>9. /\ k \in 0 .. h.count /\ Fits(k)
      /\ \A m \in k + 1 .. h.count : NulAt(h.buf, m) + size > HistorySize
  BY <1>7
<1> HIDE DEF k
<1>10. z[k] + size =< HistorySize
  <2>1. NulAt(h.buf, k) = z[k] /\ z[0] = 0
    BY <1>9, EndsAt
  <2> QED BY <1>9, <2>1
<1>11. \A m \in k + 1 .. h.count : z[m] + size > HistorySize
  <2>1. TAKE m \in k + 1 .. h.count
  <2>2. m \in 0 .. h.count
    BY <1>1, <1>9
  <2>3. NulAt(h.buf, m) = z[m]
    BY <2>2, EndsAt
  <2> QED BY <1>9, <2>3
<1> QED BY <1>8, <1>9, <1>10, <1>11

\* What historyPut does to the items.
PutIn(h, str, g) ==
    LET rest == HistoryRemove(h, str)
        kept == Kept(rest, Len(str) + 1)
    IN  IF HistorySize < Len(str) + 1 THEN g = h
        ELSE /\ g.count = kept + 1 /\ Token(g.buf, 1) = str
             /\ \A m \in 1 .. kept : Token(g.buf, m + 1) = Token(rest.buf, m)

\* historyPut: the items behind the new one move down.
LEMMA PutKeeps ==
  ASSUME NEW h, HistoryOK(h), NEW str \in Seq(Text), Len(str) =< CmdMax - 2
  PROVE  HistoryOK(HistoryPut(h, str)) /\ PutIn(h, str, HistoryPut(h, str))
<1> DEFINE size == Len(str) + 1
           rest == HistoryRemove(h, str)
           kept == Kept(rest, size)
           used == NulAt(rest.buf, kept)
           buf == [i \in 1 .. HistorySize |->
                      IF i < size THEN str[i] ELSE IF i = size THEN Nul
                      ELSE IF i =< size + used THEN rest.buf[i - size] ELSE rest.buf[i]]
           g == [buf |-> buf, count |-> kept + 1]
<1>1. HistoryPut(h, str) = IF HistorySize < size THEN h ELSE g
  BY Zenon DEF HistoryPut
<1>2. CASE HistorySize < size
  BY <1>1, <1>2 DEF PutIn
<1>3. CASE ~(HistorySize < size)
  <2>1. HistoryOK(rest)
    BY RemoveKeeps, Zenon
  <2>2. rest \in [buf : [1 .. HistorySize -> Byte], count : Nat]
    BY <2>1 DEF HistoryOK
  <2>3. PICK z : Items(rest, z)
    BY <2>1 DEF HistoryOK
  <2>4. size \in Nat /\ size > 0 /\ size =< HistorySize /\ size + 1 =< CmdMax
    BY <1>3, LenProperties, HistoryAssumption, CmdMaxAssumption
  <2> HIDE DEF rest, size
  <2>5. kept \in 0 .. rest.count /\ z[kept] + size =< HistorySize
    BY <2>2, <2>3, <2>4, KeptIs
  <2>6. used = z[kept] /\ used \in 0 .. HistorySize
    BY <2>2, <2>3, <2>5, EndsAt
  <2> HIDE DEF kept, used
  <2>7. /\ z[0] = 0
        /\ \A m \in 0 .. rest.count : z[m] \in 0 .. HistorySize
        /\ \A m \in 1 .. rest.count :
               /\ z[m - 1] < z[m] /\ rest.buf[z[m]] = Nul
               /\ \A j \in z[m - 1] + 1 .. z[m] - 1 : rest.buf[j] # Nul
               /\ z[m] - z[m - 1] + 1 =< CmdMax
    BY <2>2, <2>3, EndsAt
  <2>8. rest.count \in Nat /\ kept \in Nat
    BY <2>2, <2>5
  <2>9. ASSUME NEW m \in 0 .. kept
        PROVE  z[m] \in 0 .. HistorySize /\ z[m] =< used /\ m \in 0 .. rest.count
    <3>1. m \in 0 .. rest.count /\ m =< kept
      BY <2>5, <2>8
    <3>2. z[m] =< z[kept]
      BY <2>2, <2>3, <2>5, <3>1, EndsGrow
    <3> QED BY <2>6, <2>7, <3>1, <3>2
  <2>10. \A j \in 1 .. size - 1 : str[j] \in Text
    BY <2>4, ElementOfSeq DEF size
  <2>11. buf \in [1 .. HistorySize -> Byte]
    <3>1. ASSUME NEW i \in 1 .. HistorySize
          PROVE  (IF i < size THEN str[i] ELSE IF i = size THEN Nul
                  ELSE IF i =< size + used THEN rest.buf[i - size] ELSE rest.buf[i]) \in Byte
      <4>1. CASE i < size
        <5>1. str[i] \in Text
          BY <2>4, <2>10, <4>1, HistoryAssumption
        <5> QED BY <4>1, <5>1 DEF Byte
      <4>2. CASE i = size
        BY <2>4, <4>2 DEF Byte
      <4>3. CASE i > size
        <5>1. i - size \in 1 .. HistorySize
          BY <2>4, <4>3, HistoryAssumption
        <5>2. rest.buf[i - size] \in Byte /\ rest.buf[i] \in Byte
          BY <2>2, <5>1
        <5> QED BY <2>4, <4>3, <5>2, HistoryAssumption
      <4> QED BY <2>4, <4>1, <4>2, <4>3, HistoryAssumption
    <3> QED BY <3>1
  <2>12. /\ g \in [buf : [1 .. HistorySize -> Byte], count : Nat]
         /\ g.count = kept + 1 /\ g.buf = buf
    BY <2>8, <2>11
  <2>13. /\ \A j \in 1 .. size - 1 : buf[j] # Nul /\ buf[j] = str[j]
         /\ buf[size] = Nul
         /\ \A j \in size + 1 .. size + used : buf[j] = rest.buf[j - size]
    <3>1. \A j \in 1 .. size - 1 : j \in 1 .. HistorySize /\ j < size
      BY <2>4, HistoryAssumption
    <3>2. size \in 1 .. HistorySize
      BY <2>4, HistoryAssumption
    <3>3. \A j \in size + 1 .. size + used : j \in 1 .. HistorySize /\ j > size /\ j =< size + used
      BY <2>4, <2>5, <2>6, HistoryAssumption
    <3>4. \A j \in 1 .. size - 1 : buf[j] = str[j]
      BY <3>1
    <3>5. \A j \in 1 .. size - 1 : str[j] # Nul
      BY <2>10, CharAssumption DEF Text
    <3>6. \A j \in size + 1 .. size + used : buf[j] = rest.buf[j - size]
      BY <2>4, <3>3
    <3> QED BY <2>4, <3>2, <3>4, <3>5, <3>6, SMTT(30)
  <2> HIDE DEF buf, g
  <2> DEFINE y == [m \in 0 .. g.count |-> IF m = 0 THEN 0 ELSE size + z[m - 1]]
  <2>14. \A m \in 0 .. g.count : y[m] = IF m = 0 THEN 0 ELSE size + z[m - 1]
    OBVIOUS
  <2>15. y \in [0 .. g.count -> 0 .. HistorySize] /\ y[0] = 0
    <3>1. ASSUME NEW m \in 0 .. g.count
          PROVE  (IF m = 0 THEN 0 ELSE size + z[m - 1]) \in 0 .. HistorySize
      <4>1. CASE m = 0
        BY <4>1, HistoryAssumption
      <4>2. CASE m # 0
        <5>1. m - 1 \in 0 .. kept
          BY <2>8, <2>12, <4>2
        <5>2. z[m - 1] \in 0 .. HistorySize /\ z[m - 1] =< used
          BY <2>9, <5>1
        <5> QED BY <2>4, <2>5, <2>6, <4>2, <5>2, HistoryAssumption, SMTT(30)
      <4> QED BY <4>1, <4>2
    <3>2. 0 \in 0 .. g.count
      BY <2>8, <2>12
    <3> QED BY <2>14, <3>1, <3>2
  <2> HIDE DEF y
  <2>16. ASSUME NEW m \in 1 .. g.count
         PROVE  /\ y[m - 1] < y[m] /\ g.buf[y[m]] = Nul
                /\ \A j \in y[m - 1] + 1 .. y[m] - 1 : g.buf[j] # Nul
                /\ y[m] - y[m - 1] + 1 =< CmdMax
                /\ m # 1 => Moved(rest, z, m - 1, g, y, m)
    <3>1. /\ m \in 0 .. g.count /\ m - 1 \in 0 .. g.count /\ m # 0
          /\ m - 1 \in 0 .. kept
      BY <2>8, <2>12
    <3>2. y[m] = size + z[m - 1]
      BY <2>14, <3>1
    <3>3. CASE m = 1
      <4>1. y[m - 1] = 0 /\ y[m] = size
        BY <2>4, <2>7, <2>15, <3>2, <3>3
      <4> QED BY <2>4, <2>12, <2>13, <3>3, <4>1
    <3>4. CASE m # 1
      <4>1. (m - 1) - 1 \in 0 .. kept /\ m - 1 \in 1 .. rest.count /\ m - 1 # 0
        BY <2>5, <2>8, <3>1, <3>4
      <4> DEFINE b == z[m - 1]
                 a == z[(m - 1) - 1]
      <4>2. y[m - 1] = size + a
        BY <2>14, <3>1, <4>1
      <4>3. /\ a \in 0 .. HistorySize /\ b \in 0 .. HistorySize /\ b =< used
        BY <2>9, <3>1, <4>1
      <4>4. /\ a < b /\ rest.buf[b] = Nul
            /\ \A j \in a + 1 .. b - 1 : rest.buf[j] # Nul
            /\ b - a + 1 =< CmdMax
        BY <2>7, <4>1
      <4>5. y[m] = size + b
        BY <3>2
      <4>10. Moved(rest, z, m - 1, g, y, m) <=>
                /\ y[m] - y[m - 1] = b - a
                /\ \A j \in y[m - 1] + 1 .. y[m] - 1 : g.buf[j] = rest.buf[j + (b - y[m])]
        BY Zenon DEF Moved
      <4> HIDE DEF a, b
      <4>6. /\ a \in Int /\ b \in Int /\ used \in Int /\ a >= 0
            /\ y[m] \in Int /\ y[m - 1] \in Int
        BY <2>4, <2>6, <4>2, <4>3, <4>5
      <4>7. y[m - 1] < y[m] /\ y[m] - y[m - 1] = b - a
        BY <2>4, <4>2, <4>4, <4>5, <4>6
      <4>8. buf[y[m]] = Nul
        <5>1. y[m] \in size + 1 .. size + used /\ y[m] - size = b
          BY <2>4, <4>3, <4>4, <4>5, <4>6
        <5> QED BY <2>13, <4>4, <5>1
      <4>9. ASSUME NEW j \in y[m - 1] + 1 .. y[m] - 1
            PROVE  buf[j] # Nul /\ buf[j] = rest.buf[j + (b - y[m])]
        <5>1. j \in size + 1 .. size + used /\ j - size \in a + 1 .. b - 1
          BY <2>4, <4>2, <4>3, <4>5, <4>6
        <5>2. j + (b - y[m]) = j - size
          BY <2>4, <4>5, <4>6
        <5> QED BY <2>13, <4>4, <5>1, <5>2
      <4>11. Moved(rest, z, m - 1, g, y, m)
        BY <2>12, <4>7, <4>9, <4>10
      <4> QED BY <2>12, <3>4, <4>4, <4>7, <4>8, <4>9, <4>11
    <3> QED BY <3>3, <3>4
  <2>17. Items(g, y) /\ HistoryOK(g)
    BY <2>12, <2>15, <2>16, ItemsMake
  <2>18. Token(g.buf, 1) = str
    <3>1. 1 \in 1 .. g.count /\ y[1] = size /\ y[1 - 1] = 0
      BY <2>4, <2>7, <2>8, <2>12, <2>14, <2>15
    <3> DEFINE t == Token(g.buf, 1)
    <3>2. t \in Seq(Text) /\ Len(t) = y[1] - y[1 - 1] - 1
      BY <2>12, <2>17, <3>1, ItemIs
    <3>3. \A i \in 1 .. y[1] - y[1 - 1] - 1 : t[i] = g.buf[y[1 - 1] + i]
      BY <2>12, <2>17, <3>1, ItemAt
    <3> HIDE DEF t
    <3>4. Len(t) = Len(str) /\ Len(str) = size - 1 /\ Len(str) \in Nat
      BY <2>4, <3>1, <3>2, LenProperties DEF size
    <3>5. \A i \in 1 .. Len(str) : t[i] = str[i]
      <4>1. TAKE i \in 1 .. Len(str)
      <4>2. i \in 1 .. y[1] - y[1 - 1] - 1 /\ y[1 - 1] + i = i /\ i \in 1 .. size - 1
        BY <2>4, <3>1, <3>4
      <4> QED BY <2>12, <2>13, <3>3, <4>2
    <3>6. t = str
      BY <3>2, <3>4, <3>5, SeqEqual
    <3> QED BY <3>6 DEF t
  <2>19. ASSUME NEW m \in 1 .. kept
         PROVE  Token(g.buf, m + 1) = Token(rest.buf, m)
    <3> DEFINE n == m + 1
    <3>1. n \in 1 .. g.count /\ n # 1 /\ n - 1 = m /\ m \in 1 .. rest.count
      BY <2>5, <2>8, <2>12
    <3>2. Moved(rest, z, m, g, y, n)
      BY <2>16, <3>1
    <3> HIDE DEF n
    <3>3. Token(g.buf, n) = Token(rest.buf, m)
      BY <2>2, <2>3, <2>12, <2>17, <3>1, <3>2, ItemMoves
    <3> QED BY <3>3 DEF n
  <2>20. PutIn(h, str, g)
    BY <1>3, <2>12, <2>18, <2>19 DEF PutIn, kept, rest, size
  <2> QED BY <1>1, <1>3, <2>17, <2>20 DEF size
<1> QED BY <1>2, <1>3

-----------------------------------------------------------------------------
(* Completion.                                                             *)

LEMMA NamesAre ==
  ASSUME NEW s, NEW t \in Candidates(s)
  PROVE  /\ t \in Seq(Letters) /\ t \in Seq(Text) /\ Len(t) =< CmdMax - 3
         /\ IsPrefix(s, t) /\ s # << >>
<1>1. PICK i \in DOMAIN Bindings : t = Bindings[i].name /\ IsPrefix(s, t)
  BY DEF Candidates
<1>2. t \in Seq(Letters) /\ Len(t) + 3 =< CmdMax
  BY <1>1, NameAssumption
<1>3. t \in Seq(Text)
  BY <1>2, SeqMonotonic DEF Text
<1>4. s # << >>
  BY DEF Candidates
<1> QED BY <1>1, <1>2, <1>3, <1>4, LenProperties, CmdMaxAssumption

\* A prefix, character by character.
LEMMA PrefixIs ==
  ASSUME NEW S, NEW s \in Seq(S), NEW t \in Seq(S)
  PROVE  IsPrefix(s, t) <=> Len(s) =< Len(t) /\ \A i \in 1 .. Len(s) : s[i] = t[i]
<1>1. Len(s) \in Nat /\ Len(t) \in Nat /\ SubSeq(s, 1, Len(s)) = s
  BY LenProperties, SubSeqFull
<1>2. ASSUME Len(s) =< Len(t)
      PROVE  /\ SubSeq(t, 1, Len(s)) \in Seq(S) /\ Len(SubSeq(t, 1, Len(s))) = Len(s)
             /\ \A i \in 1 .. Len(s) : SubSeq(t, 1, Len(s))[i] = t[i]
  <2>1. /\ SubSeq(t, 1, Len(s)) \in Seq(S)
        /\ Len(SubSeq(t, 1, Len(s))) = IF 1 =< Len(s) THEN Len(s) - 1 + 1 ELSE 0
        /\ \A i \in 1 .. Len(s) - 1 + 1 : SubSeq(t, 1, Len(s))[i] = t[1 + i - 1]
    BY <1>1, <1>2, PieceIs
  <2> QED BY <1>1, <2>1
<1>3. ASSUME Len(s) =< Len(t)
      PROVE  s = SubSeq(t, 1, Len(s)) <=> \A i \in 1 .. Len(s) : s[i] = t[i]
  BY <1>2, <1>3, SeqEqual
<1> QED BY <1>1, <1>3 DEF IsPrefix

\* The names that begin with s have a longest common prefix, which does so too.
LEMMA CommonIs ==
  ASSUME NEW s \in Seq(Text), Candidates(s) # {}
  PROVE  LET c == LongestCommonPrefix(Candidates(s))
         IN  c \in Seq(Text) /\ IsPrefix(s, c) /\ Len(c) =< CmdMax - 3
<1> DEFINE C == CommonPrefixes(Candidates(s))
           c == LongestCommonPrefix(Candidates(s))
<1>1. PICK t \in Candidates(s) : TRUE
  OBVIOUS
<1>2. t \in Seq(Text) /\ IsPrefix(s, t) /\ Len(t) =< CmdMax - 3 /\ Len(s) \in Nat /\ Len(t) \in Nat
  BY NamesAre, LenProperties
<1>3. s \in C
  <2>1. s = SubSeq(t, 1, Len(s)) /\ Len(s) \in 0 .. Len(t)
    BY <1>2, SubSeqFull DEF IsPrefix
  <2>2. s \in Prefixes(t)
    BY <2>1, Zenon DEF Prefixes
  <2>3. \A n \in Candidates(s) : IsPrefix(s, n)
    BY NamesAre, Zenon
  <2> QED BY <2>2, <2>3, Zenon DEF CommonPrefixes
<1>4. ASSUME NEW p \in C
      PROVE  p \in Seq(Text) /\ Len(p) \in Nat /\ Len(p) =< Len(t) /\ IsPrefix(p, t)
  <2>1. PICK n \in Candidates(s) : \E l \in 0 .. Len(n) : p = SubSeq(n, 1, l)
    BY Zenon DEF CommonPrefixes, Prefixes
  <2>2. n \in Seq(Text) /\ Len(n) \in Nat
    BY NamesAre, LenProperties
  <2>3. p \in Seq(Text)
    BY <2>1, <2>2, PieceIs
  <2>4. IsPrefix(p, t)
    BY Zenon DEF CommonPrefixes
  <2> QED BY <2>3, <2>4, LenProperties DEF IsPrefix
<1> HIDE DEF C
<1>5. PICK longest \in C : \A other \in C : Len(other) <= Len(longest)
  <2> DEFINE Lengths == {Len(p) : p \in C}
  <2>1. Lengths \in SUBSET Nat /\ Lengths # {} /\ \A i \in Lengths : i =< Len(t)
    BY <1>3, <1>4
  <2> HIDE DEF Lengths
  <2>2. PICK k \in Lengths : \A i \in Lengths : i =< k
    BY <1>2, <2>1, GreatestExists
  <2>3. PICK p \in C : k = Len(p)
    BY <2>2 DEF Lengths
  <2>4. \A other \in C : Len(other) \in Lengths
    BY DEF Lengths
  <2> QED BY <2>2, <2>3, <2>4
<1>6. c \in C /\ \A other \in C : Len(other) <= Len(c)
  BY <1>5, Zenon DEF LongestCommonPrefix, C
<1> HIDE DEF c
<1>7. c \in Seq(Text) /\ Len(c) \in Nat /\ Len(c) =< Len(t) /\ IsPrefix(c, t) /\ Len(s) =< Len(c)
  BY <1>3, <1>4, <1>6
<1>8. IsPrefix(s, c)
  <2>1. \A i \in 1 .. Len(s) : s[i] = t[i]
    BY <1>2, PrefixIs
  <2>2. \A i \in 1 .. Len(c) : c[i] = t[i]
    BY <1>2, <1>7, PrefixIs
  <2>3. \A i \in 1 .. Len(s) : s[i] = c[i]
    BY <1>2, <1>7, <2>1, <2>2
  <2> QED BY <1>7, <2>3, PrefixIs
<1>9. Len(c) =< CmdMax - 3
  BY <1>2, <1>7, CmdMaxAssumption
<1> QED BY <1>7, <1>8, <1>9 DEF c

\* What may be shown behind a line continues it, and there is room for it.
LEMMA CompletedIs ==
  ASSUME NEW s \in Seq(Text), Len(s) =< CmdMax - 2
  PROVE  /\ Completed(s) \in Seq(Text) /\ Len(Completed(s)) \in Nat /\ Len(s) \in Nat
         /\ Len(s) =< Len(Completed(s)) /\ Len(Completed(s)) =< CmdMax - 2
         /\ \A i \in 1 .. Len(s) : Completed(s)[i] = s[i]
         /\ Candidates(s) # {} => Len(Completed(s)) =< CmdMax - 3
<1>1. CASE Candidates(s) = {}
  <2>1. Completed(s) = s
    BY <1>1 DEF Completed
  <2> QED BY <1>1, <2>1, LenProperties
<1>2. CASE Candidates(s) # {}
  <2> DEFINE c == LongestCommonPrefix(Candidates(s))
  <2>1. Completed(s) = c
    BY <1>2, Zenon DEF Completed
  <2>2. c \in Seq(Text) /\ IsPrefix(s, c) /\ Len(c) =< CmdMax - 3
    BY <1>2, CommonIs, Zenon
  <2> HIDE DEF c
  <2>3. Len(s) =< Len(c) /\ \A i \in 1 .. Len(s) : s[i] = c[i]
    BY <2>2, PrefixIs
  <2>4. Len(c) \in Nat /\ Len(s) \in Nat
    BY <2>2, LenProperties
  <2> QED BY <2>1, <2>2, <2>3, <2>4, CmdMaxAssumption
<1> QED BY <1>1, <1>2

LEMMA EmptyCompleted == Completed(<< >>) = << >>
BY DEF Completed, Candidates

-----------------------------------------------------------------------------
(* What the sequences do to the terminal.                                  *)

Cell == Text \union {">"}
Screen == [row : [1 .. Width -> Cell], col : Nat, saved : Nat]

LEMMA BlanksAre ==
  ASSUME NEW n \in Int
  PROVE  /\ Blanks(n) \in Seq(Text) /\ Len(Blanks(n)) = IF n > 0 THEN n ELSE 0
         /\ \A i \in 1 .. n : Blanks(n)[i] = Blank
<1>1. CASE n > 0
  <2>1. Blanks(n) \in [1 .. n -> Text]
    BY DEF Blanks, Text, Blank, Space
  <2> QED BY <1>1, <2>1, FunctionIsSeq DEF Blanks
<1>2. CASE ~(n > 0)
  <2>1. Blanks(n) \in [1 .. 0 -> Text]
    BY <1>2 DEF Blanks
  <2> QED BY <1>2, <2>1, FunctionIsSeq
<1> QED BY <1>1, <1>2

LEMMA FromIs ==
  ASSUME NEW S, NEW s \in Seq(S), NEW a \in 1 .. Len(s) + 1
  PROVE  /\ From(s, a) \in Seq(S) /\ Len(From(s, a)) = Len(s) - a + 1
         /\ \A i \in 1 .. Len(s) - a + 1 : From(s, a)[i] = s[a + i - 1]
<1>1. Len(s) \in Nat /\ a \in Nat /\ a >= 1 /\ (a =< Len(s) \/ Len(s) - a + 1 = 0)
  BY LenProperties
<1>2. /\ SubSeq(s, a, Len(s)) \in Seq(S)
      /\ Len(SubSeq(s, a, Len(s))) = IF a =< Len(s) THEN Len(s) - a + 1 ELSE 0
      /\ \A i \in 1 .. Len(s) - a + 1 : SubSeq(s, a, Len(s))[i] = s[a + i - 1]
  BY <1>1, PieceIs
<1> QED BY <1>1, <1>2 DEF From

LEMMA WriteIs ==
  ASSUME NEW t \in Screen, NEW s \in Seq(Cell)
  PROVE  /\ Write(t, s) \in Screen
         /\ Write(t, s).col = t.col + Len(s) /\ Write(t, s).saved = t.saved
         /\ \A i \in 1 .. Width :
                Write(t, s).row[i] = IF i - t.col \in 1 .. Len(s) THEN s[i - t.col] ELSE t.row[i]
<1>1. DOMAIN s = 1 .. Len(s) /\ Len(s) \in Nat /\ \A j \in 1 .. Len(s) : s[j] \in Cell
  BY LenProperties, ElementOfSeq
<1> DEFINE row == [i \in 1 .. Width |->
                      IF i - t.col \in DOMAIN s THEN s[i - t.col] ELSE t.row[i]]
<1>2. row \in [1 .. Width -> Cell]
  BY <1>1 DEF Screen
<1>3. Write(t, s) = [t EXCEPT !.row = row, !.col = t.col + Len(s)]
  BY Zenon DEF Write
<1>4. \A i \in 1 .. Width : row[i] = IF i - t.col \in 1 .. Len(s) THEN s[i - t.col] ELSE t.row[i]
  BY <1>1
<1> HIDE DEF row
<1>5. t.col + Len(s) \in Nat
  BY <1>1 DEF Screen
<1> DEFINE u == [t EXCEPT !.row = row, !.col = t.col + Len(s)]
<1>6. u \in Screen /\ u.col = t.col + Len(s) /\ u.saved = t.saved /\ u.row = row
  BY <1>2, <1>5 DEF Screen
<1>7. Write(t, s) = u
  BY <1>3
<1> HIDE DEF u
<1> QED BY <1>4, <1>6, <1>7

LEMMA MovesAre ==
  ASSUME NEW t \in Screen, NEW n \in Nat
  PROVE  /\ Return(t) \in Screen /\ Return(t).col = 0 /\ Return(t).row = t.row
         /\ Left(t, n) \in Screen /\ Left(t, n).row = t.row
         /\ Left(t, n).col = IF t.col > n THEN t.col - n ELSE 0
         /\ Right(t, n) \in Screen /\ Right(t, n).row = t.row /\ Right(t, n).saved = t.saved
         /\ Right(t, n).col = IF t.col + n < Width THEN t.col + n ELSE Width - 1
         /\ Save(t) \in Screen /\ Save(t).row = t.row /\ Save(t).col = t.col
         /\ Save(t).saved = t.col
         /\ Restore(t) \in Screen /\ Restore(t).row = t.row /\ Restore(t).col = t.saved
<1>1. /\ Return(t) \in Screen /\ Return(t).col = 0 /\ Return(t).row = t.row
      /\ Save(t) \in Screen /\ Save(t).row = t.row /\ Save(t).col = t.col
      /\ Save(t).saved = t.col
      /\ Restore(t) \in Screen /\ Restore(t).row = t.row /\ Restore(t).col = t.saved
  BY DEF Screen, Return, Save, Restore
<1>2. /\ Left(t, n) \in Screen /\ Left(t, n).row = t.row
      /\ Left(t, n).col = IF t.col > n THEN t.col - n ELSE 0
  BY DEF Screen, Left
<1>3. /\ Right(t, n) \in Screen /\ Right(t, n).row = t.row /\ Right(t, n).saved = t.saved
      /\ Right(t, n).col = IF t.col + n < Width THEN t.col + n ELSE Width - 1
  <2>1. (IF t.col + n < Width THEN t.col + n ELSE Width - 1) \in Nat
    BY WidthAssumption DEF Screen
  <2> QED BY <2>1 DEF Screen, Right
<1> HIDE DEF Screen
<1> QED BY <1>1, <1>2, <1>3, Zenon

LEMMA NewRowIs ==
  ASSUME NEW t \in Screen
  PROVE  /\ NewRow(t) \in Screen /\ NewRow(t).col = 0
         /\ \A i \in 1 .. Width : NewRow(t).row[i] = Blank
<1>1. EmptyRow \in [1 .. Width -> Cell] /\ \A i \in 1 .. Width : EmptyRow[i] = Blank
  BY DEF EmptyRow, Blank, Cell, Text, Space
<1>2. NewRow(t) \in Screen /\ NewRow(t).col = 0 /\ NewRow(t).row = EmptyRow
  <2> DEFINE row == EmptyRow
             col == 0
             u == [t EXCEPT !.row = row, !.col = col]
  <2>1. row \in [1 .. Width -> Cell] /\ col \in Nat
    BY <1>1
  <2>2. NewRow(t) = u /\ row = EmptyRow /\ col = 0
    BY Zenon DEF NewRow
  <2> HIDE DEF row, col
  <2>3. u \in Screen /\ u.col = col /\ u.row = row
    BY <2>1 DEF Screen
  <2> HIDE DEF u
  <2> QED BY <2>2, <2>3
<1> QED BY <1>1, <1>2

LEMMA ShiftsAre ==
  ASSUME NEW t \in Screen
  PROVE  /\ InsertChar(t) \in Screen /\ InsertChar(t).col = t.col
         /\ \A i \in 1 .. Width : InsertChar(t).row[i] =
                IF i =< t.col THEN t.row[i] ELSE IF i = t.col + 1 THEN Blank ELSE t.row[i - 1]
         /\ DeleteChar(t) \in Screen /\ DeleteChar(t).col = t.col
         /\ \A i \in 1 .. Width : DeleteChar(t).row[i] =
                IF i =< t.col THEN t.row[i] ELSE IF i = Width THEN Blank ELSE t.row[i + 1]
<1> DEFINE ins == [i \in 1 .. Width |-> IF i =< t.col THEN t.row[i]
                                        ELSE IF i = t.col + 1 THEN Blank ELSE t.row[i - 1]]
           del == [i \in 1 .. Width |-> IF i =< t.col THEN t.row[i]
                                        ELSE IF i = Width THEN Blank ELSE t.row[i + 1]]
<1>1. Blank \in Cell /\ t.row \in [1 .. Width -> Cell] /\ t.col \in Nat /\ Width \in Nat
  BY WidthAssumption DEF Screen, Blank, Cell, Text, Space
<1>2. ins \in [1 .. Width -> Cell]
  <2>1. ASSUME NEW i \in 1 .. Width, i > t.col, i # t.col + 1
        PROVE  i - 1 \in 1 .. Width
    BY <1>1, <2>1
  <2> QED BY <1>1, <2>1
<1>3. del \in [1 .. Width -> Cell]
  <2>1. ASSUME NEW i \in 1 .. Width, i # Width
        PROVE  i + 1 \in 1 .. Width
    BY <1>1, <2>1
  <2> QED BY <1>1, <2>1
<1>4. InsertChar(t) = [t EXCEPT !.row = ins] /\ DeleteChar(t) = [t EXCEPT !.row = del]
  BY Zenon DEF InsertChar, DeleteChar
<1>5. /\ \A i \in 1 .. Width : ins[i] =
             IF i =< t.col THEN t.row[i] ELSE IF i = t.col + 1 THEN Blank ELSE t.row[i - 1]
      /\ \A i \in 1 .. Width : del[i] =
             IF i =< t.col THEN t.row[i] ELSE IF i = Width THEN Blank ELSE t.row[i + 1]
  OBVIOUS
<1> HIDE DEF ins, del
<1> QED BY <1>2, <1>3, <1>4, <1>5 DEF Screen

-----------------------------------------------------------------------------
(* Edits: the line with its screen, and what keeps it good.                *)

Edits == [line : Seq(Text), size : Nat, cursor : Nat, shown : Nat, term : Screen]

\* The line fits, and the cursor is in it.
EditOK(e) ==
    /\ e \in Edits
    /\ e.size = Len(e.line) /\ e.size =< CmdMax - 2 /\ e.cursor =< e.size

\* Cell i of a row with prompt and text.
At(s, i) ==
    IF i = 1 THEN ">" ELSE IF i = 2 THEN Space
    ELSE IF i =< 2 + Len(s) THEN s[i - 2] ELSE Blank

\* The row shows the line, and nothing behind what was shown before.
OnScreen(e) ==
    /\ e.term.col = 2 + e.size - e.cursor /\ e.size =< e.shown
    /\ \A i \in 1 .. Width :
           /\ i =< 2 + e.size => e.term.row[i] = At(e.line, i)
           /\ i > 2 + e.shown => e.term.row[i] = Blank

LEMMA TextIsCells ==
  ASSUME NEW s \in Seq(Text)
  PROVE  s \in Seq(Cell) /\ Len(s) \in Nat
BY SeqMonotonic, LenProperties DEF Cell

\* What is written by printLiveAutocompletion.
LEMMA SuggestionIs ==
  ASSUME NEW e, EditOK(e)
  PROVE  LET full == Completed(e.line)
             s == From(full, e.size + 1) \o Blanks(e.shown - Len(full))
         IN  /\ s \in Seq(Cell) /\ Len(s) \in Nat /\ Len(s) >= Len(full) - e.size
             /\ Len(s) >= e.shown - e.size /\ Len(full) - e.size \in Nat
             /\ \A i \in 1 .. Len(s) :
                    s[i] = IF i =< Len(full) - e.size THEN full[e.size + i] ELSE Blank
<1> DEFINE full == Completed(e.line)
           a == From(full, e.size + 1)
           b == Blanks(e.shown - Len(full))
<1>1. /\ full \in Seq(Text) /\ Len(full) \in Nat /\ e.size \in Nat /\ e.shown \in Nat
      /\ e.size =< Len(full)
  BY CompletedIs DEF EditOK, Edits
<1> HIDE DEF full
<1>2. /\ a \in Seq(Text) /\ Len(a) = Len(full) - e.size
      /\ \A i \in 1 .. Len(full) - e.size : a[i] = full[e.size + i]
  <2>1. e.size + 1 \in 1 .. Len(full) + 1
    BY <1>1
  <2>2. /\ a \in Seq(Text) /\ Len(a) = Len(full) - (e.size + 1) + 1
        /\ \A i \in 1 .. Len(full) - (e.size + 1) + 1 : a[i] = full[(e.size + 1) + i - 1]
    BY <1>1, <2>1, FromIs
  <2> HIDE DEF a
  <2>3. Len(full) - (e.size + 1) + 1 = Len(full) - e.size
    BY <1>1
  <2>4. \A i \in 1 .. Len(full) - e.size : (e.size + 1) + i - 1 = e.size + i
    BY <1>1
  <2>5. \A i \in 1 .. Len(full) - e.size : a[i] = full[e.size + i]
    BY <2>2, <2>3, <2>4, Zenon
  <2> QED BY <2>2, <2>3, <2>5, Zenon
<1>3. /\ b \in Seq(Text)
      /\ Len(b) = IF e.shown - Len(full) > 0 THEN e.shown - Len(full) ELSE 0
      /\ \A i \in 1 .. e.shown - Len(full) : b[i] = Blank
  <2> DEFINE d == e.shown - Len(full)
  <2>1. d \in Int
    BY <1>1
  <2> HIDE DEF d
  <2>2. /\ Blanks(d) \in Seq(Text) /\ Len(Blanks(d)) = IF d > 0 THEN d ELSE 0
        /\ \A i \in 1 .. d : Blanks(d)[i] = Blank
    BY <2>1, BlanksAre
  <2> QED BY <2>2, Zenon DEF d
<1> HIDE DEF a, b
<1>4. Len(a) \in Nat /\ Len(b) \in Nat
  BY <1>1, <1>2, <1>3
<1>5. /\ a \o b \in Seq(Text) /\ Len(a \o b) = Len(a) + Len(b)
      /\ \A i \in 1 .. Len(a) + Len(b) : (a \o b)[i] = IF i <= Len(a) THEN a[i] ELSE b[i - Len(a)]
  BY <1>2, <1>3, ConcatProperties
<1>6. ASSUME NEW i \in 1 .. Len(a) + Len(b)
      PROVE  (a \o b)[i] = IF i =< Len(full) - e.size THEN full[e.size + i] ELSE Blank
  <2>1. CASE i =< Len(a)
    BY <1>1, <1>2, <1>5, <2>1
  <2>2. CASE i > Len(a)
    <3>1. i - Len(a) \in 1 .. e.shown - Len(full)
      BY <1>1, <1>3, <1>4, <2>2
    <3>2. (a \o b)[i] = b[i - Len(a)]
      BY <1>4, <1>5, <2>2
    <3>3. b[i - Len(a)] = Blank
      BY <1>3, <3>1
    <3>4. ~(i =< Len(full) - e.size)
      BY <1>1, <1>2, <2>2
    <3> QED BY <3>2, <3>3, <3>4
  <2> QED BY <1>4, <2>1, <2>2
<1>7. a \o b \in Seq(Cell)
  BY <1>5, TextIsCells
<1>8. /\ Len(a \o b) \in Nat /\ Len(a \o b) >= Len(full) - e.size
      /\ Len(a \o b) >= e.shown - e.size /\ Len(full) - e.size \in Nat
  BY <1>1, <1>2, <1>3, <1>4, <1>5, SMTT(30)
<1> QED BY <1>5, <1>6, <1>7, <1>8 DEF full, a, b

LEMMA LiveIs ==
  ASSUME NEW e, EditOK(e)
  PROVE  /\ EditOK(Live(e))
         /\ Live(e).line = e.line /\ Live(e).size = e.size /\ Live(e).cursor = e.cursor
         /\ Live(e).shown = Len(Completed(e.line))
         /\ Width > CmdMax /\ OnScreen(e) =>
                /\ Live(e).term.col = 2 + e.size - e.cursor
                /\ \A i \in 1 .. Width : Live(e).term.row[i] = At(Completed(e.line), i)
<1> DEFINE full == Completed(e.line)
           ahead == Right(Save(e.term), e.cursor)
           s == From(full, e.size + 1) \o Blanks(e.shown - Len(full))
           written == Write(ahead, s)
           t == Restore(written)
           n == Len(full)
<1>1. /\ s \in Seq(Cell) /\ Len(s) \in Nat /\ Len(s) >= Len(full) - e.size
      /\ Len(s) >= e.shown - e.size /\ Len(full) - e.size \in Nat
      /\ \A i \in 1 .. Len(s) :
             s[i] = IF i =< Len(full) - e.size THEN full[e.size + i] ELSE Blank
  BY SuggestionIs, Zenon
<1>2. /\ e \in Edits /\ e.term \in Screen /\ e.size \in Nat /\ e.cursor \in Nat /\ e.shown \in Nat
      /\ e.size = Len(e.line) /\ e.size =< CmdMax - 2 /\ e.cursor =< e.size /\ e.line \in Seq(Text)
  BY DEF EditOK, Edits
<1>3. /\ ahead \in Screen /\ ahead.row = e.term.row /\ ahead.saved = e.term.col
      /\ ahead.col = IF e.term.col + e.cursor < Width THEN e.term.col + e.cursor ELSE Width - 1
  <2> DEFINE saved == Save(e.term)
  <2>1. saved \in Screen /\ saved.row = e.term.row /\ saved.col = e.term.col /\ saved.saved = e.term.col
    BY <1>2, MovesAre
  <2> HIDE DEF saved
  <2>2. /\ Right(saved, e.cursor) \in Screen /\ Right(saved, e.cursor).row = saved.row
        /\ Right(saved, e.cursor).saved = saved.saved
        /\ Right(saved, e.cursor).col =
               IF saved.col + e.cursor < Width THEN saved.col + e.cursor ELSE Width - 1
    BY <1>2, <2>1, MovesAre
  <2>3. ahead = Right(saved, e.cursor)
    BY DEF saved
  <2> QED BY <2>1, <2>2, <2>3
<1> HIDE DEF ahead, s
<1>4. /\ written \in Screen /\ written.saved = e.term.col
      /\ \A i \in 1 .. Width : written.row[i] =
             IF i - ahead.col \in 1 .. Len(s) THEN s[i - ahead.col] ELSE e.term.row[i]
  BY <1>1, <1>3, WriteIs
<1> HIDE DEF written
<1>5. t \in Screen /\ t.row = written.row /\ t.col = e.term.col
  BY <1>4, MovesAre
<1> HIDE DEF t
<1>6. Live(e) = [e EXCEPT !.term = t, !.shown = n]
  BY Zenon DEF Live, t, written, ahead, s
<1>7. /\ full \in Seq(Text) /\ n \in Nat /\ e.size =< n /\ n =< CmdMax - 2
      /\ \A i \in 1 .. e.size : full[i] = e.line[i]
  BY <1>2, CompletedIs
<1> HIDE DEF n, full
<1>8. /\ Live(e) \in Edits /\ Live(e).line = e.line /\ Live(e).size = e.size
      /\ Live(e).cursor = e.cursor /\ Live(e).shown = n /\ Live(e).term = t
  BY <1>2, <1>5, <1>6, <1>7 DEF Edits
<1>9. EditOK(Live(e))
  BY <1>2, <1>8 DEF EditOK
<1>10. ASSUME Width > CmdMax, OnScreen(e)
       PROVE  /\ t.col = 2 + e.size - e.cursor
              /\ \A i \in 1 .. Width : t.row[i] = At(full, i)
  <2>1. e.term.col = 2 + e.size - e.cursor
    BY <1>10 DEF OnScreen
  <2>2. ahead.col = 2 + e.size
    <3>1. e.term.col + e.cursor = 2 + e.size
      BY <1>2, <2>1
    <3>2. 2 + e.size < Width
      BY <1>2, <1>10, CmdMaxAssumption, WidthAssumption
    <3> QED BY <1>3, <3>1, <3>2
  <2>3. ASSUME NEW i \in 1 .. Width
        PROVE  t.row[i] = At(full, i)
    <3>1. /\ i =< 2 + e.size => e.term.row[i] = At(e.line, i)
          /\ i > 2 + e.shown => e.term.row[i] = Blank
      BY <1>10 DEF OnScreen
    <3>2. t.row[i] = IF i - (2 + e.size) \in 1 .. Len(s) THEN s[i - (2 + e.size)] ELSE e.term.row[i]
      BY <1>4, <1>5, <2>2
    <3>3. i \in Int /\ i >= 1
      BY WidthAssumption
    <3>4. CASE i =< 2 + e.size
      <4>1. t.row[i] = At(e.line, i)
        <5>1. ~(i - (2 + e.size) \in 1 .. Len(s))
          BY <1>2, <3>3, <3>4
        <5> QED BY <3>1, <3>2, <3>4, <5>1
      <4>2. At(e.line, i) = At(full, i)
        <5>1. CASE i > 2
          <6>1. i - 2 \in 1 .. e.size
            BY <1>2, <3>3, <3>4, <5>1
          <6>2. full[i - 2] = e.line[i - 2]
            BY <1>7, <6>1
          <6> QED BY <1>2, <1>7, <3>3, <3>4, <5>1, <6>2 DEF At, n
        <5>2. CASE ~(i > 2)
          BY <3>3, <5>2 DEF At
        <5> QED BY <5>1, <5>2
      <4> QED BY <4>1, <4>2
    <3>5. CASE i > 2 + e.size
      <4> DEFINE k == i - (2 + e.size)
      <4>1. k \in Nat /\ k >= 1 /\ e.size + k = i - 2 /\ i # 1 /\ i # 2
        BY <1>2, <3>3, <3>5
      <4>2. t.row[i] = IF k \in 1 .. Len(s) THEN s[k] ELSE e.term.row[i]
        BY <3>2
      <4> HIDE DEF k
      <4>3. At(full, i) = IF i =< 2 + n THEN full[i - 2] ELSE Blank
        BY <4>1 DEF At, n
      <4>4. CASE k =< Len(s)
        <5>1. t.row[i] = s[k] /\ k \in 1 .. Len(s)
          BY <1>1, <4>1, <4>4, <4>2
        <5>2. s[k] = IF k =< n - e.size THEN full[e.size + k] ELSE Blank
          BY <1>1, <5>1 DEF n
        <5>3. k =< n - e.size <=> i =< 2 + n
          BY <1>2, <1>7, <3>3, <4>1
        <5> QED BY <4>1, <4>3, <5>1, <5>2, <5>3
      <4>5. CASE k > Len(s)
        <5>1. t.row[i] = e.term.row[i]
          BY <1>1, <4>5, <4>2
        <5>2. k > e.shown - e.size /\ k > n - e.size
          BY <1>1, <1>2, <1>7, <4>1, <4>5 DEF n
        <5>3. i > 2 + e.shown
          BY <1>2, <3>3, <4>1, <5>2
        <5>4. ~(i =< 2 + n)
          BY <1>2, <1>7, <3>3, <4>1, <5>2
        <5> QED BY <3>1, <4>3, <5>1, <5>4, <5>3
      <4> QED BY <1>1, <4>1, <4>4, <4>5
    <3> QED BY <1>2, <3>3, <3>4, <3>5
  <2> QED BY <1>5, <2>1, <2>3
<1> QED BY <1>8, <1>9, <1>10 DEF full, n

LEMMA InsertAtIs ==
  ASSUME NEW S, NEW s \in Seq(S), NEW p \in 1 .. Len(s) + 1, NEW c \in S
  PROVE  /\ InsertAt(s, p, c) \in Seq(S) /\ Len(InsertAt(s, p, c)) = Len(s) + 1
         /\ \A i \in 1 .. Len(s) + 1 :
                InsertAt(s, p, c)[i] = IF i < p THEN s[i] ELSE IF i = p THEN c ELSE s[i - 1]
<1> DEFINE a == SubSeq(s, 1, p - 1)
           b == SubSeq(s, p, Len(s))
           m == <<c>>
<1>1. Len(s) \in Nat /\ p \in Nat
  BY LenProperties
<1>2. /\ a \in Seq(S) /\ Len(a) = p - 1 /\ \A i \in 1 .. p - 1 : a[i] = s[i]
  <2>1. /\ a \in Seq(S) /\ Len(a) = IF 1 =< p - 1 THEN p - 1 - 1 + 1 ELSE 0
        /\ \A i \in 1 .. p - 1 - 1 + 1 : a[i] = s[1 + i - 1]
    BY <1>1, PieceIs
  <2> HIDE DEF a
  <2> QED BY <1>1, <2>1
<1>3. /\ b \in Seq(S) /\ Len(b) = Len(s) - p + 1
      /\ \A i \in 1 .. Len(s) - p + 1 : b[i] = s[p + i - 1]
  <2>1. /\ b \in Seq(S) /\ Len(b) = IF p =< Len(s) THEN Len(s) - p + 1 ELSE 0
        /\ \A i \in 1 .. Len(s) - p + 1 : b[i] = s[p + i - 1]
    BY <1>1, PieceIs
  <2> HIDE DEF b
  <2> QED BY <1>1, <2>1
<1>4. m \in Seq(S) /\ Len(m) = 1 /\ m[1] = c
  OBVIOUS
<1>5. InsertAt(s, p, c) = (a \o m) \o b
  BY DEF InsertAt
<1> HIDE DEF a, b, m
<1>6. /\ a \o m \in Seq(S) /\ Len(a \o m) = p
      /\ \A i \in 1 .. p : (a \o m)[i] = IF i < p THEN s[i] ELSE c
  <2>1. /\ a \o m \in Seq(S) /\ Len(a \o m) = Len(a) + Len(m)
        /\ \A i \in 1 .. Len(a) + Len(m) : (a \o m)[i] = IF i <= Len(a) THEN a[i] ELSE m[i - Len(a)]
    BY <1>2, <1>4, ConcatProperties
  <2> QED BY <1>1, <1>2, <1>4, <2>1
<1> DEFINE am == a \o m
<1>7. am \in Seq(S) /\ Len(am) = p /\ \A i \in 1 .. p : am[i] = IF i < p THEN s[i] ELSE c
  BY <1>6
<1> HIDE DEF am
<1> DEFINE r == am \o b
<1>8. Len(am) + Len(b) = Len(s) + 1
  BY <1>1, <1>3, <1>7
<1>9. /\ r \in Seq(S) /\ Len(r) = Len(s) + 1
      /\ \A i \in 1 .. Len(s) + 1 : r[i] = IF i <= p THEN am[i] ELSE b[i - p]
  <2>1. /\ r \in Seq(S) /\ Len(r) = Len(am) + Len(b)
        /\ \A i \in 1 .. Len(am) + Len(b) : r[i] = IF i <= Len(am) THEN am[i] ELSE b[i - Len(am)]
    BY <1>3, <1>7, ConcatProperties
  <2> HIDE DEF r
  <2> QED BY <1>7, <1>8, <2>1
<1> HIDE DEF r
<1>10. ASSUME NEW i \in 1 .. Len(s) + 1
       PROVE  r[i] = IF i < p THEN s[i] ELSE IF i = p THEN c ELSE s[i - 1]
  <2>1. CASE i =< p
    <3>1. r[i] = am[i]
      BY <1>9, <2>1
    <3> QED BY <1>1, <1>7, <2>1, <3>1
  <2>2. CASE i > p
    <3>1. i - p \in 1 .. Len(s) - p + 1 /\ p + (i - p) - 1 = i - 1
      BY <1>1, <2>2
    <3>2. b[i - p] = s[i - 1]
      BY <1>3, <3>1
    <3>3. i \in Int /\ ~(i =< p) /\ ~(i < p) /\ i # p
      BY <1>1, <2>2
    <3>4. r[i] = b[i - p]
      BY <1>9, <3>3
    <3> QED BY <3>2, <3>3, <3>4
  <2> QED BY <1>1, <2>1, <2>2
<1> QED BY <1>5, <1>9, <1>10 DEF r, am

LEMMA RemoveAtIs ==
  ASSUME NEW S, NEW s \in Seq(S), NEW p \in 1 .. Len(s)
  PROVE  /\ RemoveAt(s, p) \in Seq(S) /\ Len(RemoveAt(s, p)) = Len(s) - 1
         /\ \A i \in 1 .. Len(s) - 1 : RemoveAt(s, p)[i] = IF i < p THEN s[i] ELSE s[i + 1]
<1> DEFINE a == SubSeq(s, 1, p - 1)
           b == SubSeq(s, p + 1, Len(s))
<1>1. Len(s) \in Nat /\ p \in Nat
  BY LenProperties
<1>2. /\ a \in Seq(S) /\ Len(a) = p - 1 /\ \A i \in 1 .. p - 1 : a[i] = s[i]
  <2>1. /\ a \in Seq(S) /\ Len(a) = IF 1 =< p - 1 THEN p - 1 - 1 + 1 ELSE 0
        /\ \A i \in 1 .. p - 1 - 1 + 1 : a[i] = s[1 + i - 1]
    BY <1>1, PieceIs
  <2> HIDE DEF a
  <2> QED BY <1>1, <2>1
<1>3. /\ b \in Seq(S) /\ Len(b) = Len(s) - p
      /\ \A i \in 1 .. Len(s) - p : b[i] = s[p + i]
  <2>1. /\ b \in Seq(S) /\ Len(b) = IF p + 1 =< Len(s) THEN Len(s) - (p + 1) + 1 ELSE 0
        /\ \A i \in 1 .. Len(s) - (p + 1) + 1 : b[i] = s[(p + 1) + i - 1]
    BY <1>1, PieceIs
  <2> HIDE DEF b
  <2> QED BY <1>1, <2>1
<1>4. RemoveAt(s, p) = a \o b
  BY DEF RemoveAt
<1> HIDE DEF a, b
<1>5. /\ a \o b \in Seq(S) /\ Len(a \o b) = Len(a) + Len(b)
      /\ \A i \in 1 .. Len(a) + Len(b) : (a \o b)[i] = IF i <= Len(a) THEN a[i] ELSE b[i - Len(a)]
  BY <1>2, <1>3, ConcatProperties
<1>6. Len(a) + Len(b) = Len(s) - 1
  BY <1>1, <1>2, <1>3
<1>7. ASSUME NEW i \in 1 .. Len(s) - 1
      PROVE  (a \o b)[i] = IF i < p THEN s[i] ELSE s[i + 1]
  <2>1. CASE i < p
    BY <1>1, <1>2, <1>5, <1>6, <2>1
  <2>2. CASE ~(i < p)
    <3>1. i - (p - 1) \in 1 .. Len(s) - p /\ p + (i - (p - 1)) = i + 1
      BY <1>1, <2>2
    <3>2. b[i - (p - 1)] = s[i + 1]
      BY <1>3, <3>1
    <3> QED BY <1>1, <1>2, <1>5, <1>6, <2>2, <3>2
  <2> QED BY <2>1, <2>2
<1> QED BY <1>4, <1>5, <1>6, <1>7

\* onCharInput
LEMMA InsertIs ==
  ASSUME NEW e, EditOK(e), NEW c \in Text
  PROVE  EditOK(Insert(e, c)) /\ (Width > CmdMax /\ OnScreen(e) => OnScreen(Insert(e, c)))
<1>1. CASE e.size + 2 >= CmdMax
  BY <1>1 DEF Insert
<1>2. CASE ~(e.size + 2 >= CmdMax)
  <2> DEFINE p == Len(e.line) - e.cursor + 1
             l == InsertAt(e.line, p, c)
             t == IF e.cursor > 0 THEN InsertChar(e.term) ELSE e.term
             w == Write(t, <<c>>)
             f == [line |-> l, size |-> e.size + 1, cursor |-> e.cursor,
                   shown |-> e.shown + 1, term |-> w]
  <2>1. /\ e \in Edits /\ e.term \in Screen /\ e.size \in Nat /\ e.cursor \in Nat /\ e.shown \in Nat
        /\ e.size = Len(e.line) /\ e.size =< CmdMax - 2 /\ e.cursor =< e.size /\ e.line \in Seq(Text)
    BY DEF EditOK, Edits
  <2>2. Insert(e, c) = f
    BY <1>2, Zenon DEF Insert
  <2>3. p \in 1 .. Len(e.line) + 1 /\ p = e.size - e.cursor + 1 /\ p \in Nat
    BY <2>1
  <2> HIDE DEF p
  <2>4. /\ l \in Seq(Text) /\ Len(l) = e.size + 1
        /\ \A i \in 1 .. e.size + 1 :
               l[i] = IF i < p THEN e.line[i] ELSE IF i = p THEN c ELSE e.line[i - 1]
    BY <2>1, <2>3, InsertAtIs, SMTT(30)
  <2> HIDE DEF l
  <2>5. f.line = l /\ f.size = e.size + 1 /\ f.cursor = e.cursor /\ f.shown = e.shown + 1 /\ f.term = w
    OBVIOUS
  <2>6. <<c>> \in Seq(Cell) /\ Len(<<c>>) = 1 /\ <<c>>[1] = c
    BY DEF Cell
  <2>7. w \in Screen
    <3>1. t \in Screen
      BY <2>1, ShiftsAre
    <3> QED BY <2>6, <3>1, WriteIs
  <2>8. EditOK(f)
    <3>1. f \in Edits
      BY <2>1, <2>4, <2>7 DEF Edits
    <3> QED BY <1>2, <2>1, <2>3, <2>4, <2>5, <3>1, CmdMaxAssumption DEF EditOK
  <2>9. ASSUME Width > CmdMax, OnScreen(e)
        PROVE  OnScreen(f)
    <3>1. e.term.col = p + 1 /\ e.size =< e.shown /\ p + 1 >= 0
      BY <2>1, <2>3, <2>9 DEF OnScreen
    <3>2. /\ t \in Screen /\ t.col = p + 1
          /\ \A i \in 1 .. Width : t.row[i] =
                 IF e.cursor = 0 \/ i =< p + 1 THEN e.term.row[i]
                 ELSE IF i = p + 2 THEN Blank ELSE e.term.row[i - 1]
      <4>1. CASE e.cursor = 0
        BY <2>1, <3>1, <4>1
      <4>2. CASE e.cursor # 0
        <5>1. t = InsertChar(e.term)
          BY <2>1, <4>2
        <5> HIDE DEF t
        <5>2. /\ InsertChar(e.term) \in Screen /\ InsertChar(e.term).col = p + 1
              /\ \A i \in 1 .. Width : InsertChar(e.term).row[i] =
                     IF i =< p + 1 THEN e.term.row[i]
                     ELSE IF i = (p + 1) + 1 THEN Blank ELSE e.term.row[i - 1]
          BY <2>1, <3>1, ShiftsAre
        <5> QED BY <2>3, <4>2, <5>1, <5>2
      <4> QED BY <4>1, <4>2
    <3> HIDE DEF t
    <3>3. /\ w.col = p + 2
          /\ \A i \in 1 .. Width : w.row[i] = IF i = p + 2 THEN c ELSE t.row[i]
      <4>1. /\ w.col = t.col + 1
            /\ \A i \in 1 .. Width :
                   w.row[i] = IF i - t.col \in 1 .. 1 THEN <<c>>[i - t.col] ELSE t.row[i]
        BY <2>6, <3>2, WriteIs
      <4>2. ASSUME NEW i \in 1 .. Width
            PROVE  w.row[i] = IF i = p + 2 THEN c ELSE t.row[i]
        <5>1. i - t.col \in 1 .. 1 <=> i = p + 2
          BY <2>3, <3>2, WidthAssumption
        <5>2. i = p + 2 => i - t.col = 1
          BY <2>3, <3>2
        <5>3. w.row[i] = IF i - t.col \in 1 .. 1 THEN <<c>>[i - t.col] ELSE t.row[i]
          BY <4>1
        <5> HIDE DEF w
        <5> QED BY <2>6, <5>1, <5>2, <5>3
      <4>3. w.col = p + 2
        <5> HIDE DEF w
        <5> QED BY <2>3, <3>2, <4>1
      <4> HIDE DEF w
      <4> QED BY <4>2, <4>3
    <3> HIDE DEF w, f
    <3>4. ASSUME NEW i \in 1 .. Width
          PROVE  /\ i =< 2 + (e.size + 1) => w.row[i] = At(l, i)
                 /\ i > 2 + (e.shown + 1) => w.row[i] = Blank
      <4>1. i \in Int /\ i >= 1 /\ Width \in Nat
        BY WidthAssumption
      <4>2. /\ i =< 2 + e.size => e.term.row[i] = At(e.line, i)
            /\ i > 2 + e.shown => e.term.row[i] = Blank
        BY <2>9 DEF OnScreen
      <4>3. CASE i = p + 2
        <5>1. i - 2 = p /\ p \in 1 .. e.size + 1 /\ i # 1 /\ i # 2 /\ i =< 2 + Len(l)
          BY <2>1, <2>3, <2>4, <4>3
        <5>2. At(l, i) = c
          BY <2>3, <2>4, <5>1 DEF At
        <5>3. ~(i > 2 + (e.shown + 1))
          BY <2>1, <3>1, <2>3, <4>3
        <5> QED BY <3>3, <4>3, <5>2, <5>3
      <4>4. CASE i < p + 2
        <5>1. w.row[i] = e.term.row[i] /\ i =< 2 + e.size /\ i =< 2 + (e.size + 1)
          BY <2>1, <2>3, <3>2, <3>3, <4>1, <4>4, SMTT(30)
        <5>2. i =< 2 + Len(l) /\ i =< 2 + Len(e.line)
          BY <2>1, <2>4, <5>1
        <5>3. i > 2 => l[i - 2] = e.line[i - 2]
          <6>1. i > 2 => i - 2 \in 1 .. e.size + 1 /\ i - 2 < p
            BY <2>1, <2>3, <4>1, <4>4
          <6> QED BY <2>4, <6>1
        <5>4. At(l, i) = At(e.line, i)
          BY <4>1, <5>2, <5>3 DEF At
        <5>5. ~(i > 2 + (e.shown + 1))
          BY <2>1, <3>1, <2>3, <4>1, <4>4
        <5> QED BY <4>2, <5>1, <5>4, <5>5
      <4>5. CASE i > p + 2 /\ e.cursor = 0
        <5>1. w.row[i] = e.term.row[i]
          BY <2>3, <3>2, <3>3, <4>1, <4>5
        <5>2. ~(i =< 2 + (e.size + 1))
          BY <2>1, <2>3, <4>1, <4>5
        <5>3. i > 2 + (e.shown + 1) => i > 2 + e.shown
          BY <2>1, <4>1
        <5> QED BY <4>2, <5>1, <5>2, <5>3
      <4>6. CASE i > p + 2 /\ e.cursor # 0
        <5> DEFINE k == i - 1
        <5>1. k \in 1 .. Width /\ k > 2 /\ k > p /\ i - 2 = k - 1 /\ i - 2 # p /\ ~(i - 2 < p)
          BY <2>3, <4>1, <4>6
        <5>2. w.row[i] = e.term.row[k]
          BY <2>3, <3>2, <3>3, <4>1, <4>6
        <5>3. /\ k =< 2 + e.size => e.term.row[k] = At(e.line, k)
              /\ k > 2 + e.shown => e.term.row[k] = Blank
          BY <2>9, <5>1 DEF OnScreen
        <5>4. /\ i =< 2 + (e.size + 1) <=> k =< 2 + e.size
              /\ i > 2 + (e.shown + 1) <=> k > 2 + e.shown
          BY <2>1, <4>1
        <5>5. ASSUME i =< 2 + (e.size + 1)
              PROVE  At(l, i) = At(e.line, k)
          <6>1. i - 2 \in 1 .. e.size + 1 /\ (i - 2) - 1 = k - 2
            BY <2>1, <4>1, <5>1, <5>5
          <6>2. l[i - 2] = e.line[k - 2]
            BY <2>4, <5>1, <6>1
          <6>3. At(l, i) = l[i - 2]
            BY <2>4, <4>1, <5>1, <5>5 DEF At
          <6>4. At(e.line, k) = e.line[k - 2]
            BY <2>1, <5>1, <5>4, <5>5 DEF At
          <6> QED BY <6>2, <6>3, <6>4
        <5> HIDE DEF k
        <5> QED BY <5>2, <5>3, <5>4, <5>5
      <4> QED BY <2>3, <4>1, <4>3, <4>4, <4>5, <4>6
    <3>5. w.col = 2 + (e.size + 1) - e.cursor /\ e.size + 1 =< e.shown + 1
      <4>1. w.col = p + 2 /\ p = e.size - e.cursor + 1 /\ e.size =< e.shown
        BY <2>3, <3>1, <3>3
      <4>2. e.size \in Nat /\ e.cursor \in Nat /\ e.shown \in Nat
        BY <2>1
      <4> QED BY <4>1, <4>2
    <3> QED BY <2>5, <3>4, <3>5 DEF OnScreen
  <2> QED BY <2>2, <2>8, <2>9
<1> QED BY <1>1, <1>2

LEMMA BackspaceIs ==
  ASSUME NEW e, EditOK(e)
  PROVE  EditOK(Backspace(e)) /\ (Width > CmdMax /\ OnScreen(e) => OnScreen(Backspace(e)))
<1>1. CASE ~(e.size - e.cursor > 0)
  BY <1>1 DEF Backspace
<1>2. CASE e.size - e.cursor > 0
  <2> DEFINE p == Len(e.line) - e.cursor
             l == RemoveAt(e.line, p)
             n == e.size - 1
             back == Left(e.term, 1)
             t == DeleteChar(back)
             f == [e EXCEPT !.line = l, !.size = n, !.term = t]
  <2>1. /\ e \in Edits /\ e.term \in Screen /\ e.size \in Nat /\ e.cursor \in Nat /\ e.shown \in Nat
        /\ e.size = Len(e.line) /\ e.size =< CmdMax - 2 /\ e.cursor =< e.size /\ e.line \in Seq(Text)
    BY DEF EditOK, Edits
  <2>2. Backspace(e) = f
    BY <1>2, Zenon DEF Backspace
  <2>3. /\ p \in 1 .. Len(e.line) /\ p = e.size - e.cursor /\ p \in Nat /\ p >= 1 /\ p =< e.size
        /\ n \in Nat
    BY <1>2, <2>1
  <2> HIDE DEF p
  <2>4. l \in Seq(Text) /\ Len(l) = n /\ \A i \in 1 .. n : l[i] = IF i < p THEN e.line[i] ELSE e.line[i + 1]
    BY <2>1, <2>3, RemoveAtIs
  <2>5. back \in Screen /\ back.row = e.term.row /\ back.col = IF e.term.col > 1 THEN e.term.col - 1 ELSE 0
    BY <2>1, MovesAre, ZenonT(60)
  <2> HIDE DEF l, back
  <2>6. /\ t \in Screen /\ t.col = back.col
        /\ \A i \in 1 .. Width : t.row[i] =
               IF i =< back.col THEN back.row[i] ELSE IF i = Width THEN Blank ELSE back.row[i + 1]
    BY <2>5, ShiftsAre
  <2> HIDE DEF t
  <2>7. /\ f \in Edits /\ f.line = l /\ f.size = n /\ f.cursor = e.cursor
        /\ f.shown = e.shown /\ f.term = t
    <3>1. n \in Nat
      BY <2>3
    <3> HIDE DEF n
    <3> QED BY <2>1, <2>4, <2>6, <3>1 DEF Edits
  <2> HIDE DEF f
  <2>8. EditOK(f)
    <3>1. n = Len(l) /\ n =< CmdMax - 2 /\ e.cursor =< n
      BY <2>1, <2>3, <2>4, CmdMaxAssumption
    <3> QED BY <2>7, <3>1 DEF EditOK
  <2>9. ASSUME Width > CmdMax, OnScreen(e)
        PROVE  OnScreen(f)
    <3>1. e.term.col = 2 + p /\ e.size =< e.shown
      <4>1. e.term.col = 2 + e.size - e.cursor /\ e.size =< e.shown
        BY <2>9 DEF OnScreen
      <4> QED BY <2>1, <2>3, <4>1
    <3>2. back.col = 1 + p
      BY <2>3, <2>5, <3>1
    <3>3. \A i \in 1 .. Width : t.row[i] =
              IF i =< 1 + p THEN e.term.row[i] ELSE IF i = Width THEN Blank ELSE e.term.row[i + 1]
      BY <2>5, <2>6, <3>2
    <3>4. ASSUME NEW i \in 1 .. Width
          PROVE  /\ i =< 2 + n => t.row[i] = At(l, i)
                 /\ i > 2 + e.shown => t.row[i] = Blank
      <4>1. i \in Int /\ i >= 1 /\ Width \in Nat /\ i =< Width
        BY WidthAssumption
      <4>2. /\ i =< 2 + e.size => e.term.row[i] = At(e.line, i)
            /\ i > 2 + e.shown => e.term.row[i] = Blank
        BY <2>9 DEF OnScreen
      <4>3. CASE i =< 1 + p
        <5>1. t.row[i] = e.term.row[i] /\ i =< 2 + e.size /\ i =< 2 + n /\ ~(i > 2 + e.shown)
          BY <2>1, <2>3, <3>1, <3>3, <4>1, <4>3
        <5>2. i > 2 => l[i - 2] = e.line[i - 2]
          <6>1. i > 2 => i - 2 \in 1 .. n /\ i - 2 < p
            BY <2>1, <2>3, <4>1, <4>3
          <6> QED BY <2>4, <6>1
        <5>3. At(l, i) = At(e.line, i)
          BY <2>1, <2>4, <4>1, <5>1, <5>2, SMTT(30) DEF At
        <5> QED BY <4>2, <5>1, <5>3
      <4>4. CASE i > 1 + p /\ i = Width
        <5>1. t.row[i] = Blank
          BY <2>3, <3>3, <4>1, <4>4
        <5>2. ~(i =< 2 + n)
          BY <2>1, <2>3, <2>9, <4>1, <4>4, CmdMaxAssumption
        <5> QED BY <5>1, <5>2
      <4>5. CASE i > 1 + p /\ i # Width
        <5> DEFINE k == i + 1
        <5>1. k \in 1 .. Width /\ k > 2 /\ i > 2 /\ k - 2 = i - 1 /\ ~(i - 2 < p) /\ (i - 2) + 1 = k - 2
          BY <2>3, <4>1, <4>5
        <5>2. t.row[i] = e.term.row[k]
          BY <2>3, <3>3, <4>1, <4>5
        <5>3. /\ k =< 2 + e.size => e.term.row[k] = At(e.line, k)
              /\ k > 2 + e.shown => e.term.row[k] = Blank
          BY <2>9, <5>1 DEF OnScreen
        <5>4. /\ i =< 2 + n <=> k =< 2 + e.size
              /\ i > 2 + e.shown => k > 2 + e.shown
          BY <2>1, <4>1
        <5> HIDE DEF k
        <5>5. ASSUME i =< 2 + n
              PROVE  At(l, i) = At(e.line, k)
          <6>1. i - 2 \in 1 .. n
            BY <2>3, <4>1, <5>1, <5>5
          <6>2. l[i - 2] = e.line[k - 2]
            BY <2>4, <5>1, <6>1
          <6>3. At(l, i) = l[i - 2]
            BY <2>4, <4>1, <5>1, <5>5 DEF At
          <6>4. At(e.line, k) = e.line[k - 2]
            BY <2>1, <5>1, <5>4, <5>5 DEF At
          <6> QED BY <6>2, <6>3, <6>4
        <5> QED BY <5>2, <5>3, <5>4, <5>5
      <4> QED BY <2>3, <4>1, <4>3, <4>4, <4>5
    <3>5. t.col = 2 + n - e.cursor /\ n =< e.shown
      <4>1. t.col = 1 + p /\ p = e.size - e.cursor /\ e.size =< e.shown
        BY <2>3, <2>6, <3>1, <3>2
      <4>2. e.size \in Nat /\ e.cursor \in Nat /\ e.shown \in Nat
        BY <2>1
      <4> QED BY <4>1, <4>2
    <3> QED BY <2>7, <3>4, <3>5 DEF OnScreen
  <2> QED BY <2>2, <2>8, <2>9
<1> QED BY <1>1, <1>2

\* The prompt and a text, on an empty row.
LEMMA PromptedIs ==
  ASSUME NEW t \in Screen, t.col = 0, \A i \in 1 .. Width : t.row[i] = Blank,
         NEW s \in Seq(Text)
  PROVE  /\ Write(Write(t, Invitation), s) \in Screen
         /\ Write(Write(t, Invitation), s).col = 2 + Len(s)
         /\ \A i \in 1 .. Width : Write(Write(t, Invitation), s).row[i] = At(s, i)
<1> DEFINE u == Write(t, Invitation)
           w == Write(u, s)
<1>1. Invitation \in Seq(Cell) /\ Len(Invitation) = 2 /\ Invitation[1] = ">" /\ Invitation[2] = Space
  BY DEF Invitation, Cell, Text
<1>2. s \in Seq(Cell) /\ Len(s) \in Nat
  BY TextIsCells
<1>3. /\ u \in Screen /\ u.col = 2
      /\ \A i \in 1 .. Width : u.row[i] = IF i - 0 \in 1 .. 2 THEN Invitation[i - 0] ELSE t.row[i]
  <2>1. /\ u \in Screen /\ u.col = t.col + Len(Invitation)
        /\ \A i \in 1 .. Width :
               u.row[i] = IF i - t.col \in 1 .. Len(Invitation) THEN Invitation[i - t.col] ELSE t.row[i]
    BY <1>1, WriteIs
  <2> HIDE DEF u
  <2> QED BY <1>1, <2>1
<1> HIDE DEF u
<1>4. /\ w \in Screen /\ w.col = 2 + Len(s)
      /\ \A i \in 1 .. Width : w.row[i] = IF i - 2 \in 1 .. Len(s) THEN s[i - 2] ELSE u.row[i]
  <2>1. /\ w \in Screen /\ w.col = u.col + Len(s)
        /\ \A i \in 1 .. Width :
               w.row[i] = IF i - u.col \in 1 .. Len(s) THEN s[i - u.col] ELSE u.row[i]
    BY <1>2, <1>3, WriteIs
  <2> HIDE DEF w
  <2> QED BY <1>3, <2>1
<1> HIDE DEF w
<1>5. ASSUME NEW i \in 1 .. Width
      PROVE  w.row[i] = At(s, i)
  <2>1. i \in Int /\ i >= 1 /\ i - 0 = i
    BY WidthAssumption
  <2>2. w.row[i] = IF i - 2 \in 1 .. Len(s) THEN s[i - 2] ELSE u.row[i]
    BY <1>4
  <2>3. u.row[i] = IF i \in 1 .. 2 THEN Invitation[i] ELSE Blank
    BY <1>3, <2>1
  <2>4. CASE i =< 2
    <3>1. w.row[i] = Invitation[i]
      BY <1>2, <2>1, <2>2, <2>3, <2>4
    <3>2. i = 1 \/ i = 2
      BY <2>1, <2>4
    <3> QED BY <1>1, <3>1, <3>2 DEF At
  <2>5. CASE i > 2
    <3>1. u.row[i] = Blank
      BY <2>1, <2>3, <2>5
    <3>2. i - 2 \in 1 .. Len(s) <=> i =< 2 + Len(s)
      BY <1>2, <2>1, <2>5
    <3> QED BY <2>1, <2>2, <2>5, <3>1, <3>2 DEF At
  <2> QED BY <2>1, <2>4, <2>5
<1> QED BY <1>4, <1>5 DEF u, w

\* The same with one output, as navigateHistory writes them.
LEMMA PromptedAtOnce ==
  ASSUME NEW t \in Screen, t.col = 0, \A i \in 1 .. Width : t.row[i] = Blank,
         NEW s \in Seq(Text)
  PROVE  /\ Write(t, Invitation \o s) \in Screen
         /\ Write(t, Invitation \o s).col = 2 + Len(s)
         /\ \A i \in 1 .. Width : Write(t, Invitation \o s).row[i] = At(s, i)
<1> DEFINE u == Invitation \o s
           w == Write(t, u)
<1>1. Invitation \in Seq(Cell) /\ Len(Invitation) = 2 /\ Invitation[1] = ">" /\ Invitation[2] = Space
  BY DEF Invitation, Cell, Text
<1>2. s \in Seq(Cell) /\ Len(s) \in Nat
  BY TextIsCells
<1>3. /\ u \in Seq(Cell) /\ Len(u) = 2 + Len(s)
      /\ \A i \in 1 .. 2 + Len(s) : u[i] = IF i <= 2 THEN Invitation[i] ELSE s[i - 2]
  <2>1. /\ u \in Seq(Cell) /\ Len(u) = Len(Invitation) + Len(s)
        /\ \A i \in 1 .. Len(Invitation) + Len(s) :
               u[i] = IF i <= Len(Invitation) THEN Invitation[i] ELSE s[i - Len(Invitation)]
    BY <1>1, <1>2, ConcatProperties
  <2> HIDE DEF u
  <2> QED BY <1>1, <2>1
<1> HIDE DEF u
<1>4. /\ w \in Screen /\ w.col = 2 + Len(s)
      /\ \A i \in 1 .. Width : w.row[i] = IF i - 0 \in 1 .. 2 + Len(s) THEN u[i - 0] ELSE t.row[i]
  <2>1. /\ w \in Screen /\ w.col = 0 + Len(u)
        /\ \A i \in 1 .. Width : w.row[i] = IF i - 0 \in 1 .. Len(u) THEN u[i - 0] ELSE t.row[i]
    BY <1>3, WriteIs
  <2> HIDE DEF w
  <2> QED BY <1>2, <1>3, <2>1
<1> HIDE DEF w
<1>5. ASSUME NEW i \in 1 .. Width
      PROVE  w.row[i] = At(s, i)
  <2>1. i \in Int /\ i >= 1 /\ i - 0 = i
    BY WidthAssumption
  <2>2. w.row[i] = IF i \in 1 .. 2 + Len(s) THEN u[i] ELSE Blank
    BY <1>4, <2>1
  <2>3. CASE i =< 2
    <3>1. w.row[i] = Invitation[i]
      BY <1>2, <1>3, <2>1, <2>2, <2>3
    <3>2. i = 1 \/ i = 2
      BY <2>1, <2>3
    <3> QED BY <1>1, <3>1, <3>2 DEF At
  <2>4. CASE i > 2
    <3>1. i \in 1 .. 2 + Len(s) <=> i =< 2 + Len(s)
      BY <1>2, <2>1
    <3>2. i =< 2 + Len(s) => u[i] = s[i - 2]
      BY <1>3, <2>1, <2>4, <3>1
    <3> QED BY <2>1, <2>2, <2>4, <3>1, <3>2 DEF At
  <2> QED BY <2>1, <2>3, <2>4
<1> QED BY <1>4, <1>5 DEF u, w

LEMMA ClearIs ==
  ASSUME NEW e, EditOK(e)
  PROVE  /\ ClearCurrentLine(e) \in Edits
         /\ ClearCurrentLine(e).line = e.line /\ ClearCurrentLine(e).size = e.size
         /\ ClearCurrentLine(e).cursor = 0 /\ ClearCurrentLine(e).shown = 0
         /\ ClearCurrentLine(e).term \in Screen /\ ClearCurrentLine(e).term.col = 0
         /\ OnScreen(e) => \A i \in 1 .. Width : ClearCurrentLine(e).term.row[i] = Blank
<1> DEFINE home == Return(e.term)
           n == e.shown + Len(Invitation)
           s == Blanks(n)
           w == Write(home, s)
           t == Return(w)
           zero == 0
           f == [e EXCEPT !.term = t, !.shown = zero, !.cursor = zero]
<1>1. e \in Edits /\ e.term \in Screen /\ e.shown \in Nat
  BY DEF EditOK, Edits
<1>2. n = e.shown + 2 /\ n \in Nat
  BY <1>1 DEF Invitation
<1>3. ClearCurrentLine(e) = f
  BY Zenon DEF ClearCurrentLine
<1>4. zero \in Nat /\ zero = 0
  OBVIOUS
<1> HIDE DEF n, zero
<1>5. home \in Screen /\ home.row = e.term.row /\ home.col = 0
  BY <1>1, MovesAre
<1> HIDE DEF home
<1>6. s \in Seq(Cell) /\ Len(s) = n /\ \A i \in 1 .. n : s[i] = Blank
  <2>1. /\ s \in Seq(Text) /\ Len(s) = IF n > 0 THEN n ELSE 0
        /\ \A i \in 1 .. n : s[i] = Blank
    <3>1. n \in Int
      BY <1>2
    <3> QED BY <3>1, BlanksAre, Zenon
  <2> HIDE DEF s
  <2> QED BY <1>2, <2>1, TextIsCells
<1> HIDE DEF s
<1>7. /\ w \in Screen
      /\ \A i \in 1 .. Width : w.row[i] = IF i - home.col \in 1 .. Len(s) THEN s[i - home.col]
                                          ELSE home.row[i]
  BY <1>5, <1>6, WriteIs
<1> HIDE DEF w
<1>8. t \in Screen /\ t.row = w.row /\ t.col = 0
  BY <1>7, MovesAre
<1> HIDE DEF t
<1>9. /\ f \in Edits /\ f.line = e.line /\ f.size = e.size /\ f.cursor = zero /\ f.shown = zero
      /\ f.term = t
  BY <1>1, <1>4, <1>8 DEF Edits
<1>10. ASSUME OnScreen(e), NEW i \in 1 .. Width
       PROVE  t.row[i] = Blank
  <2>1. i \in Int /\ i >= 1 /\ i - 0 = i
    BY WidthAssumption
  <2>2. t.row[i] = IF i \in 1 .. n THEN s[i] ELSE e.term.row[i]
    BY <1>5, <1>6, <1>7, <1>8, <2>1
  <2>3. CASE i =< n
    BY <1>2, <1>6, <2>1, <2>2, <2>3
  <2>4. CASE i > n
    <3>1. e.term.row[i] = Blank
      <4>1. i > 2 + e.shown
        BY <1>1, <1>2, <2>1, <2>4
      <4> QED BY <1>10, <4>1 DEF OnScreen
    <3> QED BY <1>2, <2>1, <2>2, <2>4, <3>1
  <2> QED BY <1>2, <2>1, <2>3, <2>4
<1> HIDE DEF f
<1> QED BY <1>3, <1>4, <1>8, <1>9, <1>10

\* onAutocompleteRequest
LEMMA AutocompleteIs ==
  ASSUME NEW e, EditOK(e)
  PROVE  /\ EditOK(Autocomplete(e))
         /\ Width > CmdMax /\ OnScreen(e) /\ e.shown = Len(Completed(e.line)) =>
                OnScreen(Autocomplete(e))
<1> DEFINE n == Cardinality(Candidates(e.line))
           common == Completed(e.line)
           full == IF n = 1 THEN Append(common, Space) ELSE common
           cleared == ClearCurrentLine(e)
           at == e.size - e.cursor
           w == Write(e.term, From(full, at + 1))
           f == [line |-> full, size |-> Len(full), cursor |-> 0, shown |-> Len(full), term |-> w]
           g == [cleared EXCEPT !.term = Write(Prompt(@), e.line), !.shown = e.size]
<1>1. Autocomplete(e) = IF n = 0 THEN e ELSE IF n = 1 \/ Len(common) > e.size THEN f ELSE g
  BY Zenon DEF Autocomplete
<1>2. /\ e \in Edits /\ e.term \in Screen /\ e.size \in Nat /\ e.cursor \in Nat /\ e.shown \in Nat
      /\ e.size = Len(e.line) /\ e.size =< CmdMax - 2 /\ e.cursor =< e.size /\ e.line \in Seq(Text)
  BY DEF EditOK, Edits
<1>3. /\ common \in Seq(Text) /\ Len(common) \in Nat /\ e.size =< Len(common)
      /\ Len(common) =< CmdMax - 2 /\ \A i \in 1 .. e.size : common[i] = e.line[i]
      /\ n = 1 => Len(common) =< CmdMax - 3
  <2>1. n = 1 => Candidates(e.line) # {}
    BY FS_EmptySet
  <2> HIDE DEF n
  <2> QED BY <1>2, <2>1, CompletedIs
<1> HIDE DEF n, common
<1>4. /\ full \in Seq(Text) /\ Len(full) \in Nat /\ e.size =< Len(full) /\ Len(common) =< Len(full)
      /\ Len(full) =< CmdMax - 2 /\ \A i \in 1 .. e.size : full[i] = e.line[i]
  <2>1. CASE n = 1
    <3> DEFINE a == Append(common, Space)
    <3>1. a \in Seq(Text) /\ Len(a) = Len(common) + 1 /\ \A i \in 1 .. Len(common) : a[i] = common[i]
      <4>1. Space \in Text
        BY DEF Text
      <4> QED BY <1>3, <4>1, AppendProperties
    <3> HIDE DEF a
    <3>2. \A i \in 1 .. e.size : a[i] = e.line[i]
      BY <1>2, <1>3, <3>1
    <3>3. full = a
      BY <2>1 DEF a
    <3> HIDE DEF full
    <3> QED BY <1>2, <1>3, <2>1, <3>1, <3>2, <3>3, CmdMaxAssumption
  <2>2. CASE n # 1
    BY <1>3, <2>2
  <2> QED BY <2>1, <2>2
<1> HIDE DEF full
<1>5. /\ at + 1 \in 1 .. Len(full) + 1 /\ at \in Nat
      /\ From(full, at + 1) \in Seq(Text) /\ Len(From(full, at + 1)) = Len(full) - at
      /\ \A i \in 1 .. Len(full) - at : From(full, at + 1)[i] = full[at + i]
  <2>1. at + 1 \in 1 .. Len(full) + 1 /\ at \in Nat
    BY <1>2, <1>4, SMTT(30)
  <2> HIDE DEF at
  <2>2. /\ From(full, at + 1) \in Seq(Text) /\ Len(From(full, at + 1)) = Len(full) - (at + 1) + 1
        /\ \A i \in 1 .. Len(full) - (at + 1) + 1 : From(full, at + 1)[i] = full[(at + 1) + i - 1]
    BY <1>4, <2>1, FromIs
  <2> DEFINE r == From(full, at + 1)
  <2>3. /\ r \in Seq(Text) /\ Len(r) = Len(full) - (at + 1) + 1
        /\ \A i \in 1 .. Len(full) - (at + 1) + 1 : r[i] = full[(at + 1) + i - 1]
    BY <2>2
  <2> HIDE DEF r
  <2>4. r \in Seq(Text) /\ Len(r) = Len(full) - at /\ \A i \in 1 .. Len(full) - at : r[i] = full[at + i]
    <3>1. Len(full) \in Nat /\ at \in Nat
      BY <1>4, <2>1
    <3>2. Len(full) - (at + 1) + 1 = Len(full) - at
      BY <3>1
    <3>3. ASSUME NEW i \in 1 .. Len(full) - at
          PROVE  r[i] = full[at + i]
      <4>1. (at + 1) + i - 1 = at + i
        BY <3>1
      <4> QED BY <2>3, <3>2, <4>1
    <3> QED BY <2>3, <3>2, <3>3
  <2> QED BY <2>1, <2>4 DEF r
<1> DEFINE r == From(full, at + 1)
<1>6. /\ r \in Seq(Cell) /\ Len(r) = Len(full) - at /\ Len(r) \in Nat
      /\ \A i \in 1 .. Len(full) - at : r[i] = full[at + i]
  BY <1>5, TextIsCells
<1>7. w = Write(e.term, r)
  OBVIOUS
<1> HIDE DEF r, w, at
<1>8. /\ w \in Screen /\ w.col = e.term.col + Len(r)
      /\ \A i \in 1 .. Width : w.row[i] =
             IF i - e.term.col \in 1 .. Len(r) THEN r[i - e.term.col] ELSE e.term.row[i]
  BY <1>2, <1>6, <1>7, WriteIs
<1>9. EditOK(f)
  <2>1. /\ f \in Edits /\ f.size = Len(f.line) /\ f.cursor = 0 /\ f.size = Len(full)
    BY <1>4, <1>8 DEF Edits
  <2> HIDE DEF f
  <2> QED BY <1>4, <2>1 DEF EditOK
<1>10. ASSUME Width > CmdMax, OnScreen(e), e.shown = Len(common)
       PROVE  OnScreen(f)
  <2>1. e.term.col = 2 + at
    <3>1. e.term.col = 2 + e.size - e.cursor
      BY <1>10 DEF OnScreen
    <3> QED BY <1>2, <3>1 DEF at
  <2>2. w.col = 2 + Len(full)
    BY <1>4, <1>5, <1>6, <1>8, <2>1
  <2>3. ASSUME NEW i \in 1 .. Width
        PROVE  /\ i =< 2 + Len(full) => w.row[i] = At(full, i)
               /\ i > 2 + Len(full) => w.row[i] = Blank
    <3>1. i \in Int /\ i >= 1
      BY WidthAssumption
    <3>2. /\ i =< 2 + e.size => e.term.row[i] = At(e.line, i)
          /\ i > 2 + e.shown => e.term.row[i] = Blank
      BY <1>10 DEF OnScreen
    <3>3. w.row[i] = IF i - (2 + at) \in 1 .. Len(r) THEN r[i - (2 + at)] ELSE e.term.row[i]
      BY <1>8, <2>1
    <3>4. at =< e.size
      BY <1>2 DEF at
    <3>5. CASE i =< 2 + at
      <4>1. ~(i - (2 + at) \in 1 .. Len(r)) /\ i =< 2 + e.size /\ i =< 2 + Len(full)
        BY <1>2, <1>4, <1>5, <3>1, <3>4, <3>5, SMTT(30)
      <4>2. i > 2 => full[i - 2] = e.line[i - 2]
        <5>1. i > 2 => i - 2 \in 1 .. e.size
          BY <1>2, <3>1, <4>1
        <5> QED BY <1>4, <5>1
      <4>3. At(full, i) = At(e.line, i)
        BY <1>2, <3>1, <4>1, <4>2 DEF At
      <4> QED BY <1>4, <3>1, <3>2, <3>3, <4>1, <4>3
    <3>6. CASE i > 2 + at /\ i =< 2 + Len(full)
      <4> DEFINE k == i - (2 + at)
      <4>1. k \in 1 .. Len(full) - at /\ at + k = i - 2
        BY <1>4, <1>5, <3>1, <3>6
      <4>2. w.row[i] = r[k]
        BY <1>6, <3>3, <4>1
      <4> HIDE DEF k
      <4>3. r[k] = full[i - 2]
        BY <1>6, <4>1
      <4>4. At(full, i) = full[i - 2]
        BY <1>5, <3>1, <3>6 DEF At
      <4> QED BY <1>4, <3>1, <3>6, <4>2, <4>3, <4>4
    <3>7. CASE i > 2 + Len(full)
      <4>1. ~(i - (2 + at) \in 1 .. Len(r))
        BY <1>4, <1>5, <1>6, <3>1, <3>7
      <4>2. i > 2 + e.shown
        BY <1>3, <1>4, <1>10, <3>1, <3>7
      <4> QED BY <1>4, <3>1, <3>2, <3>3, <3>7, <4>1, <4>2
    <3> QED BY <1>4, <1>5, <3>1, <3>5, <3>6, <3>7
  <2>4. f.line = full /\ f.size = Len(full) /\ f.cursor = 0 /\ f.shown = Len(full) /\ f.term = w
    OBVIOUS
  <2> HIDE DEF f
  <2>5. w.col = 2 + Len(full) - 0 /\ Len(full) =< Len(full)
    BY <1>4, <2>2
  <2> QED BY <2>3, <2>4, <2>5 DEF OnScreen
<1>11. /\ EditOK(g) /\ (Width > CmdMax => OnScreen(g))
  <2> DEFINE row == NewRow(cleared.term)
             t == Write(Write(row, Invitation), e.line)
  <2>1. /\ cleared \in Edits /\ cleared.line = e.line /\ cleared.size = e.size
        /\ cleared.cursor = 0 /\ cleared.term \in Screen
    BY ClearIs
  <2>2. g = [cleared EXCEPT !.term = t, !.shown = e.size]
    BY Zenon DEF Prompt
  <2> HIDE DEF cleared
  <2>3. row \in Screen /\ row.col = 0 /\ \A i \in 1 .. Width : row.row[i] = Blank
    BY <2>1, NewRowIs
  <2> HIDE DEF row
  <2>4. t \in Screen /\ t.col = 2 + Len(e.line) /\ \A i \in 1 .. Width : t.row[i] = At(e.line, i)
    BY <1>2, <2>3, PromptedIs
  <2> HIDE DEF t, g
  <2>5. /\ g \in Edits /\ g.line = e.line /\ g.size = e.size /\ g.cursor = 0
        /\ g.shown = e.size /\ g.term = t
    BY <1>2, <2>1, <2>2, <2>4 DEF Edits
  <2>6. EditOK(g)
    BY <1>2, <2>5 DEF EditOK
  <2>7. OnScreen(g)
    <3>1. ASSUME NEW i \in 1 .. Width, i > 2 + e.size
          PROVE  t.row[i] = Blank
      <4>1. i \in Int
        OBVIOUS
      <4> QED BY <1>2, <2>4, <3>1, <4>1 DEF At
    <3>2. t.col = 2 + e.size - 0 /\ e.size =< e.size
      BY <1>2, <2>4
    <3> QED BY <2>4, <2>5, <3>1, <3>2 DEF OnScreen
  <2> QED BY <2>6, <2>7
<1> HIDE DEF f, g
<1> QED BY <1>1, <1>9, <1>10, <1>11 DEF common

\* navigateHistory
LEMMA RecallIs ==
  ASSUME NEW e, EditOK(e), HistoryOK(history), NEW n \in Nat
  PROVE  \E r : /\ EditOK(r) /\ Recall(e, n) = Live(r)
                /\ r.line = HistoryGet(history, n) /\ r.cursor = 0
                /\ Width > CmdMax /\ OnScreen(e) => OnScreen(r)
<1> DEFINE item == HistoryGet(history, n)
           cleared == ClearCurrentLine(e)
           blank == cleared.term
           t == Write(blank, Invitation \o item)
           r == [line |-> item, size |-> Len(item), cursor |-> 0, shown |-> Len(item), term |-> t]
<1>1. Recall(e, n) = Live(r)
  BY Zenon DEF Recall
<1>2. item \in Seq(Text) /\ Len(item) =< CmdMax - 2 /\ Len(item) \in Nat
  BY GetIs, LenProperties
<1> HIDE DEF item
<1>3. blank \in Screen /\ blank.col = 0 /\ (OnScreen(e) => \A i \in 1 .. Width : blank.row[i] = Blank)
  BY ClearIs
<1> HIDE DEF blank
<1>4. t \in Screen
  <2>1. Invitation \o item \in Seq(Cell)
    <3>1. Invitation \in Seq(Cell)
      BY DEF Invitation, Cell, Text
    <3> QED BY <1>2, <3>1, TextIsCells, ConcatProperties
  <2> QED BY <1>3, <2>1, WriteIs
<1>5. OnScreen(e) => t.col = 2 + Len(item) /\ \A i \in 1 .. Width : t.row[i] = At(item, i)
  BY <1>2, <1>3, PromptedAtOnce
<1> HIDE DEF t
<1>6. /\ r \in Edits /\ r.line = item /\ r.size = Len(item) /\ r.cursor = 0
      /\ r.shown = Len(item) /\ r.term = t
  BY <1>2, <1>4 DEF Edits
<1> HIDE DEF r
<1>7. EditOK(r)
  BY <1>2, <1>6 DEF EditOK
<1>8. ASSUME OnScreen(e)
      PROVE  OnScreen(r)
  <2>1. ASSUME NEW i \in 1 .. Width, i > 2 + Len(item)
        PROVE  t.row[i] = Blank
    <3>1. i \in Int
      OBVIOUS
    <3> QED BY <1>2, <1>5, <1>8, <2>1, <3>1 DEF At
  <2>2. t.col = 2 + Len(item) - 0 /\ Len(item) =< Len(item)
    BY <1>2, <1>5, <1>8
  <2> QED BY <1>5, <1>6, <1>8, <2>1, <2>2 DEF OnScreen
<1> QED BY <1>1, <1>6, <1>7, <1>8 DEF item

-----------------------------------------------------------------------------
(* The invariant.                                                          *)

\* The history and the terminal are what the functions on them rely on.
EditorInv == EditorTypeOK /\ term \in Screen /\ HistoryOK(history)

\* The screen cell by cell, and its length as the code knows it.
ShownInv ==
    /\ inputLineLength = Len(Completed(line))
    /\ term.col = 2 + Len(line) - cursorPos
    /\ \A i \in 1 .. Width : term.row[i] = At(Completed(line), i)

\* A screen that shows line and suggestion may be edited.
LEMMA ShownIsOnScreen ==
  ASSUME NEW e, EditOK(e), e.shown = Len(Completed(e.line)),
         e.term.col = 2 + e.size - e.cursor,
         \A i \in 1 .. Width : e.term.row[i] = At(Completed(e.line), i)
  PROVE  OnScreen(e)
<1> DEFINE full == Completed(e.line)
<1>1. /\ e.size \in Nat /\ e.size = Len(e.line) /\ e.size =< CmdMax - 2 /\ e.line \in Seq(Text)
  BY DEF EditOK, Edits
<1>2. /\ Len(full) \in Nat /\ e.size =< Len(full)
      /\ \A i \in 1 .. e.size : full[i] = e.line[i]
  BY <1>1, CompletedIs
<1>3. e.shown = Len(full) /\ \A i \in 1 .. Width : e.term.row[i] = At(full, i)
  OBVIOUS
<1> HIDE DEF full
<1>4. ASSUME NEW i \in 1 .. Width
      PROVE  /\ i =< 2 + e.size => e.term.row[i] = At(e.line, i)
             /\ i > 2 + e.shown => e.term.row[i] = Blank
  <2>1. i \in Int /\ i >= 1 /\ e.term.row[i] = At(full, i)
    BY <1>3, WidthAssumption
  <2>2. ASSUME i =< 2 + e.size
        PROVE  At(full, i) = At(e.line, i)
    <3>1. i > 2 => full[i - 2] = e.line[i - 2]
      <4>1. i > 2 => i - 2 \in 1 .. e.size
        BY <1>1, <2>1, <2>2
      <4> QED BY <1>2, <4>1
    <3> QED BY <1>1, <1>2, <2>1, <2>2, <3>1 DEF At
  <2>3. ASSUME i > 2 + e.shown
        PROVE  At(full, i) = Blank
    BY <1>2, <1>3, <2>1, <2>3 DEF At
  <2> QED BY <2>1, <2>2, <2>3
<1> QED BY <1>2, <1>3, <1>4 DEF OnScreen

LEMMA EditIs ==
  ASSUME EditorInv
  PROVE  /\ EditOK(Edit)
         /\ ShownInv => OnScreen(Edit) /\ Edit.shown = Len(Completed(Edit.line))
<1>1. /\ line \in Seq(Text) /\ cmdSize = Len(line) /\ cmdSize =< CmdMax - 2
      /\ cursorPos \in 0 .. cmdSize /\ inputLineLength \in Nat /\ term \in Screen
  BY DEF EditorInv, EditorTypeOK, Text
<1>2. cmdSize \in Nat /\ cursorPos \in Nat /\ cursorPos =< cmdSize
  BY <1>1, LenProperties
<1>3. /\ Edit \in Edits /\ Edit.line = line /\ Edit.size = cmdSize /\ Edit.cursor = cursorPos
      /\ Edit.shown = inputLineLength /\ Edit.term = term
  BY <1>1, <1>2 DEF Edit, Edits
<1>4. EditOK(Edit)
  BY <1>1, <1>2, <1>3 DEF EditOK
<1>5. ASSUME ShownInv
      PROVE  OnScreen(Edit) /\ Edit.shown = Len(Completed(Edit.line))
  <2>1. /\ Edit.shown = Len(Completed(Edit.line))
        /\ Edit.term.col = 2 + Edit.size - Edit.cursor
        /\ \A i \in 1 .. Width : Edit.term.row[i] = At(Completed(Edit.line), i)
    BY <1>1, <1>3, <1>5 DEF ShownInv
  <2> QED BY <1>4, <2>1, ShownIsOnScreen
<1> QED BY <1>4, <1>5

\* The suggestion may be written once more.
LEMMA LiveOnScreen ==
  ASSUME NEW e, EditOK(e), Width > CmdMax, OnScreen(e)
  PROVE  OnScreen(Live(e))
<1> DEFINE f == Live(e)
<1>1. /\ EditOK(f) /\ f.line = e.line /\ f.size = e.size /\ f.cursor = e.cursor
      /\ f.shown = Len(Completed(e.line))
      /\ f.term.col = 2 + e.size - e.cursor
      /\ \A i \in 1 .. Width : f.term.row[i] = At(Completed(e.line), i)
  BY LiveIs
<1> HIDE DEF f
<1>2. OnScreen(f)
  BY <1>1, ShownIsOnScreen
<1> QED BY <1>2 DEF f

\* The state after a good edit is good.
LEMMA BecomesIs ==
  ASSUME NEW e, EditOK(e), Becomes(e)
  PROVE  /\ line' \in Seq(Text) /\ cmdSize' = Len(line') /\ cmdSize' =< CmdMax - 2
         /\ cursorPos' \in 0 .. cmdSize' /\ inputLineLength' \in Nat /\ term' \in Screen
         /\ Width > CmdMax /\ OnScreen(e) => ShownInv'
<1> DEFINE f == Live(e)
<1>1. /\ EditOK(f) /\ f.line = e.line /\ f.size = e.size /\ f.cursor = e.cursor
      /\ f.shown = Len(Completed(e.line))
      /\ Width > CmdMax /\ OnScreen(e) =>
             /\ f.term.col = 2 + e.size - e.cursor
             /\ \A i \in 1 .. Width : f.term.row[i] = At(Completed(e.line), i)
  BY LiveIs
<1>2. /\ line' = f.line /\ cmdSize' = f.size /\ cursorPos' = f.cursor
      /\ inputLineLength' = f.shown /\ term' = f.term
  BY Zenon DEF Becomes
<1> HIDE DEF f
<1>3. /\ f.line \in Seq(Text) /\ f.size = Len(f.line) /\ f.size =< CmdMax - 2
      /\ f.cursor \in 0 .. f.size /\ f.shown \in Nat /\ f.term \in Screen
  BY <1>1 DEF EditOK, Edits
<1>4. ASSUME Width > CmdMax, OnScreen(e)
      PROVE  ShownInv'
  BY <1>1, <1>2, <1>3, <1>4 DEF ShownInv
<1> QED BY <1>2, <1>3, <1>4

\* The line goes on with a good edit, and the history is as it was.
Edited(e) ==
    /\ EditOK(e) /\ Becomes(e)
    /\ Width > CmdMax /\ ShownInv => OnScreen(e)
    /\ history' = history /\ current' \in 0 .. history.count
    /\ torn' = torn

LEMMA CurrentIs ==
  ASSUME EditorInv
  PROVE  /\ history.count \in Nat /\ current \in 0 .. history.count /\ cursorPos \in Nat
         /\ cmdSize \in Nat /\ cursorPos =< cmdSize /\ cmdSize = Len(line) /\ HistoryOK(history)
BY LenProperties DEF EditorInv, EditorTypeOK, Text

LEMMA KeepsEdited ==
  ASSUME EditorInv, NEW e, EditOK(e), Width > CmdMax /\ ShownInv => OnScreen(e), Becomes(e), Keeps
  PROVE  Edited(e)
BY CurrentIs DEF Edited, Keeps

\* onEscapedInput
LEMMA ArrowIs ==
  ASSUME EditorInv, NEW c, Arrow(c)
  PROVE  \E e : Edited(e)
<1>1. EditOK(Edit) /\ (ShownInv => OnScreen(Edit))
  BY EditIs
<1>2. CASE c = "A" /\ current < history.count
  <2>1. /\ current' = current + 1 /\ Becomes(Recall(Edit, current + 1)) /\ history' = history
        /\ torn' = torn
    BY <1>2, Zenon DEF Arrow
  <2>2. current + 1 \in Nat /\ current + 1 \in 0 .. history.count
    BY <1>2, CurrentIs
  <2>3. PICK r : /\ EditOK(r) /\ Recall(Edit, current + 1) = Live(r)
                 /\ Width > CmdMax /\ OnScreen(Edit) => OnScreen(r)
    BY <1>1, <2>2, RecallIs, CurrentIs
  <2>4. EditOK(Live(r)) /\ (Width > CmdMax /\ OnScreen(r) => OnScreen(Live(r)))
    BY <2>3, LiveIs, LiveOnScreen
  <2>5. Edited(Live(r))
    BY <1>1, <2>1, <2>2, <2>3, <2>4 DEF Edited
  <2> QED BY <2>5
<1>3. CASE c = "B" /\ current > 0
  <2>1. /\ current' = current - 1 /\ Becomes(Recall(Edit, current - 1)) /\ history' = history
        /\ torn' = torn
    BY <1>3 DEF Arrow
  <2>2. current - 1 \in Nat /\ current - 1 \in 0 .. history.count
    BY <1>3, CurrentIs
  <2>3. PICK r : /\ EditOK(r) /\ Recall(Edit, current - 1) = Live(r)
                 /\ Width > CmdMax /\ OnScreen(Edit) => OnScreen(r)
    BY <1>1, <2>2, RecallIs, CurrentIs
  <2>4. EditOK(Live(r)) /\ (Width > CmdMax /\ OnScreen(r) => OnScreen(Live(r)))
    BY <2>3, LiveIs, LiveOnScreen
  <2>5. Edited(Live(r))
    BY <1>1, <2>1, <2>2, <2>3, <2>4 DEF Edited
  <2> QED BY <2>5
<1>4. CASE c = "C" /\ cursorPos > 0
  <2> DEFINE k == Edit.cursor - 1
             t == Right(Edit.term, 1)
             e == [Edit EXCEPT !.cursor = k, !.term = t]
  <2>1. Becomes(e) /\ Keeps
    BY <1>4 DEF Arrow
  <2>2. /\ Edit \in Edits /\ Edit.term \in Screen /\ Edit.cursor = cursorPos /\ Edit.size \in Nat
        /\ Edit.size =< CmdMax - 2 /\ Edit.cursor =< Edit.size /\ Edit.size = Len(Edit.line)
        /\ Edit.cursor \in Nat
    BY <1>1 DEF EditOK, Edits, Edit
  <2>3. k \in Nat /\ k = Edit.cursor - 1 /\ k =< Edit.size
    BY <1>4, <2>2
  <2>4. /\ t \in Screen /\ t.row = Edit.term.row
        /\ t.col = IF Edit.term.col + 1 < Width THEN Edit.term.col + 1 ELSE Width - 1
    BY <2>2, MovesAre, ZenonT(60)
  <2> HIDE DEF k, t
  <2>5. /\ e \in Edits /\ e.line = Edit.line /\ e.size = Edit.size /\ e.cursor = k
        /\ e.shown = Edit.shown /\ e.term = t
    BY <2>2, <2>3, <2>4 DEF Edits
  <2> HIDE DEF e
  <2>6. EditOK(e)
    BY <2>2, <2>3, <2>5 DEF EditOK
  <2>7. ASSUME Width > CmdMax, ShownInv
        PROVE  OnScreen(e)
    <3>1. /\ Edit.term.col = 2 + Edit.size - Edit.cursor /\ Edit.size =< Edit.shown
          /\ \A i \in 1 .. Width :
                 /\ i =< 2 + Edit.size => Edit.term.row[i] = At(Edit.line, i)
                 /\ i > 2 + Edit.shown => Edit.term.row[i] = Blank
      BY <1>1, <2>7 DEF OnScreen
    <3>2. Edit.term.col + 1 < Width
      BY <1>4, <2>2, <2>7, <3>1, CmdMaxAssumption, WidthAssumption
    <3>3. t.col = 2 + e.size - e.cursor
      BY <2>2, <2>3, <2>4, <2>5, <3>1, <3>2
    <3> QED BY <2>4, <2>5, <3>1, <3>3 DEF OnScreen
  <2> QED BY <2>1, <2>6, <2>7, KeepsEdited
<1>5. CASE c = "D" /\ cursorPos < Len(line)
  <2> DEFINE k == Edit.cursor + 1
             t == Left(Edit.term, 1)
             e == [Edit EXCEPT !.cursor = k, !.term = t]
  <2>1. Becomes(e) /\ Keeps
    BY <1>5 DEF Arrow
  <2>2. /\ Edit \in Edits /\ Edit.term \in Screen /\ Edit.cursor = cursorPos /\ Edit.size \in Nat
        /\ Edit.size =< CmdMax - 2 /\ Edit.cursor =< Edit.size /\ Edit.size = Len(Edit.line)
        /\ Edit.cursor \in Nat /\ Edit.size = cmdSize
    BY <1>1 DEF EditOK, Edits, Edit
  <2>3. k \in Nat /\ k = Edit.cursor + 1 /\ k =< Edit.size
    BY <1>5, <2>2, CurrentIs
  <2>4. /\ t \in Screen /\ t.row = Edit.term.row
        /\ t.col = IF Edit.term.col > 1 THEN Edit.term.col - 1 ELSE 0
    BY <2>2, MovesAre, ZenonT(60)
  <2> HIDE DEF k, t
  <2>5. /\ e \in Edits /\ e.line = Edit.line /\ e.size = Edit.size /\ e.cursor = k
        /\ e.shown = Edit.shown /\ e.term = t
    BY <2>2, <2>3, <2>4 DEF Edits
  <2> HIDE DEF e
  <2>6. EditOK(e)
    BY <2>2, <2>3, <2>5 DEF EditOK
  <2>7. ASSUME Width > CmdMax, ShownInv
        PROVE  OnScreen(e)
    <3>1. /\ Edit.term.col = 2 + Edit.size - Edit.cursor /\ Edit.size =< Edit.shown
          /\ \A i \in 1 .. Width :
                 /\ i =< 2 + Edit.size => Edit.term.row[i] = At(Edit.line, i)
                 /\ i > 2 + Edit.shown => Edit.term.row[i] = Blank
      BY <1>1, <2>7 DEF OnScreen
    <3>2. t.col = 2 + e.size - e.cursor
      BY <2>2, <2>3, <2>4, <2>5, <3>1
    <3> QED BY <2>4, <2>5, <3>1, <3>2 DEF OnScreen
  <2> QED BY <2>1, <2>6, <2>7, KeepsEdited
<1>6. CASE /\ ~(c = "A" /\ current < history.count) /\ ~(c = "B" /\ current > 0)
           /\ ~(c = "C" /\ cursorPos > 0) /\ ~(c = "D" /\ cursorPos < Len(line))
  <2>1. Becomes(Edit) /\ Keeps
    BY <1>6 DEF Arrow
  <2> QED BY <1>1, <2>1, KeepsEdited
<1> QED BY <1>2, <1>3, <1>4, <1>5, <1>6

\* onControlInput, but for a line that is entered.
LEMMA ControlIs ==
  ASSUME EditorInv, NEW c, Control(c)
  PROVE  Enter \/ \E e : Edited(e)
<1>1. EditOK(Edit) /\ (ShownInv => OnScreen(Edit) /\ Edit.shown = Len(Completed(Edit.line)))
  BY EditIs
<1>2. CASE Enter
  BY <1>2
<1>3. CASE Becomes(Edit) /\ Keeps
  BY <1>1, <1>3, KeepsEdited
<1>4. CASE Becomes(Backspace(Edit)) /\ Keeps
  BY <1>1, <1>4, BackspaceIs, KeepsEdited
<1>5. CASE Becomes(Autocomplete(Edit)) /\ Keeps
  BY <1>1, <1>5, AutocompleteIs, KeepsEdited
<1> QED BY <1>2, <1>3, <1>4, <1>5, Zenon DEF Control

LEMMA KeyIs ==
  ASSUME EditorInv, NEW c \in Char, Key(c)
  PROVE  /\ Enter \/ \E e : Edited(e)
         /\ lastChar' \in {"other", "CR", "LF", "ESC"} /\ escape' \in BOOLEAN
<1>1. EditOK(Edit) /\ (ShownInv => OnScreen(Edit))
  BY EditIs
<1>2. escape \in BOOLEAN
  BY DEF EditorInv, EditorTypeOK
<1>3. lastChar' \in {"other", "CR", "LF", "ESC"}
  BY DEF Key
<1>4. escape' \in BOOLEAN
  BY <1>2 DEF Key
<1>5. Enter \/ \E e : Edited(e)
  <2>1. CASE Arrow(IF c \in Final THEN c ELSE "none")
    BY <2>1, ArrowIs
  <2>2. CASE Becomes(Edit) /\ Keeps
    BY <1>1, <2>2, KeepsEdited
  <2>3. CASE Control(c)
    BY <2>3, ControlIs
  <2>4. CASE c \in Letters \union {Space} /\ Becomes(Insert(Edit, c)) /\ Keeps
    <3>1. c \in Text
      BY <2>4 DEF Text
    <3> QED BY <1>1, <2>4, <3>1, InsertIs, KeepsEdited
  <2>5. \/ Arrow(IF c \in Final THEN c ELSE "none")
        \/ Becomes(Edit) /\ Keeps
        \/ Control(c)
        \/ c \in Letters \union {Space} /\ Becomes(Insert(Edit, c)) /\ Keeps
    BY Zenon DEF Key
  <2> QED BY <2>1, <2>2, <2>3, <2>4, <2>5
<1> QED BY <1>3, <1>4, <1>5

\* A line is entered: the history takes it, and an empty line follows.
LEMMA EnterIs ==
  ASSUME EditorInv, Enter
  PROVE  /\ line' \in Seq(Text) /\ cmdSize' = Len(line') /\ cmdSize' =< CmdMax - 2
         /\ cursorPos' \in 0 .. cmdSize' /\ inputLineLength' \in Nat /\ term' \in Screen
         /\ HistoryOK(history') /\ current' = 0 /\ torn' = FALSE
         /\ Width > CmdMax => ShownInv'
<1> DEFINE e == Autocomplete(Edit)
           row == NewRow(e.term)
           t == Prompt(e.term)
           x == [line |-> << >>, size |-> 0, cursor |-> 0, shown |-> 0, term |-> t]
           f == Live(x)
<1>1. /\ line' = << >> /\ cmdSize' = 0 /\ cursorPos' = 0 /\ inputLineLength' = 0
      /\ term' = f.term /\ current' = 0 /\ torn' = FALSE
      /\ history' = IF ~IsBlank(e.line) THEN HistoryPut(history, e.line) ELSE history
  BY Zenon DEF Enter
<1>2. EditOK(e)
  BY EditIs, AutocompleteIs
<1>3. e.line \in Seq(Text) /\ Len(e.line) =< CmdMax - 2 /\ e.term \in Screen
  BY <1>2 DEF EditOK, Edits
<1>4. row \in Screen /\ row.col = 0 /\ \A i \in 1 .. Width : row.row[i] = Blank
  BY <1>3, NewRowIs
<1>5. t = Write(row, Invitation \o << >>)
  <2>1. Invitation \in Seq(Cell)
    BY DEF Invitation, Cell, Text
  <2>2. Invitation \o << >> = Invitation
    BY <2>1, ConcatEmptySeq
  <2> QED BY <2>2, Zenon DEF Prompt
<1> HIDE DEF e, row
<1>6. << >> \in Seq(Text) /\ Len(<< >>) = 0
  BY EmptySeq
<1>7. t \in Screen /\ t.col = 2 /\ \A i \in 1 .. Width : t.row[i] = At(<< >>, i)
  <2>1. t \in Screen /\ t.col = 2 + Len(<< >>) /\ \A i \in 1 .. Width : t.row[i] = At(<< >>, i)
    BY <1>4, <1>5, <1>6, PromptedAtOnce
  <2> HIDE DEF t
  <2> QED BY <1>6, <2>1
<1> HIDE DEF t
<1>8. /\ x \in Edits /\ x.line = << >> /\ x.size = 0 /\ x.cursor = 0 /\ x.shown = 0 /\ x.term = t
  BY <1>6, <1>7 DEF Edits
<1> HIDE DEF x
<1>9. EditOK(x) /\ OnScreen(x)
  <2>1. EditOK(x)
    BY <1>6, <1>8, CmdMaxAssumption DEF EditOK
  <2>2. x.shown = Len(Completed(x.line)) /\ x.term.col = 2 + x.size - x.cursor
    BY <1>6, <1>7, <1>8, EmptyCompleted
  <2>3. \A i \in 1 .. Width : x.term.row[i] = At(Completed(x.line), i)
    BY <1>7, <1>8, EmptyCompleted
  <2> QED BY <2>1, <2>2, <2>3, ShownIsOnScreen
<1>10. /\ EditOK(f)
       /\ Width > CmdMax =>
              /\ f.term.col = 2 + x.size - x.cursor
              /\ \A i \in 1 .. Width : f.term.row[i] = At(Completed(x.line), i)
  BY <1>9, LiveIs
<1> HIDE DEF f
<1>11. term' \in Screen
  BY <1>1, <1>10 DEF EditOK, Edits
<1>12. Width > CmdMax => ShownInv'
  BY <1>1, <1>6, <1>8, <1>10, EmptyCompleted DEF ShownInv
<1>13. HistoryOK(history')
  <2>1. HistoryOK(history)
    BY DEF EditorInv
  <2>2. HistoryOK(HistoryPut(history, e.line))
    BY <1>3, <2>1, PutKeeps
  <2> QED BY <1>1, <2>1, <2>2
<1> QED BY <1>1, <1>6, <1>11, <1>12, <1>13, CmdMaxAssumption

LEMMA EditorInit == Init => EditorInv /\ ShownInv
<1> SUFFICES ASSUME Init PROVE EditorInv /\ ShownInv
  OBVIOUS
<1>1. << >> \in Seq(Text) /\ Len(<< >>) = 0
  BY EmptySeq
<1>2. /\ term \in Screen /\ term.col = 2
      /\ \A i \in 1 .. Width : term.row[i] = At(<< >>, i)
  <2> DEFINE t == FreshTerminal
  <2>1. t \in Screen /\ t.col = 0 /\ \A i \in 1 .. Width : t.row[i] = Blank
    BY DEF FreshTerminal, EmptyRow, Screen, Blank, Cell, Text, Space
  <2>2. Invitation \o << >> = Invitation
    <3>1. Invitation \in Seq(Cell)
      BY DEF Invitation, Cell, Text
    <3> QED BY <3>1, ConcatEmptySeq
  <2>3. term = Write(t, Invitation \o << >>)
    BY <2>2, Zenon DEF Init
  <2> HIDE DEF t
  <2>4. /\ term \in Screen /\ term.col = 2 + Len(<< >>)
        /\ \A i \in 1 .. Width : term.row[i] = At(<< >>, i)
    BY <1>1, <2>1, <2>3, PromptedAtOnce
  <2> QED BY <1>1, <2>4
<1>3. HistoryOK(history)
  <2> DEFINE h == EmptyHistory
             z == [n \in 0 .. 0 |-> 0]
  <2>1. h \in [buf : [1 .. HistorySize -> Byte], count : Nat] /\ h.count = 0
    BY DEF EmptyHistory, Byte
  <2> HIDE DEF h
  <2>2. z \in [0 .. h.count -> 0 .. HistorySize] /\ z[0] = 0
    BY <2>1, HistoryAssumption
  <2>3. \A n \in 1 .. h.count : FALSE
    BY <2>1
  <2> HIDE DEF z
  <2>4. HistoryOK(h)
    BY <2>1, <2>2, <2>3, ItemsMake
  <2> QED BY <2>4 DEF Init, h
<1>4. EditorTypeOK
  <2>1. history.count = 0 /\ \A i \in 1 .. HistorySize : history.buf[i] = Nul
    BY DEF Init, EmptyHistory
  <2>2. /\ line = << >> /\ cmdSize = 0 /\ cursorPos = 0 /\ inputLineLength = 0 /\ current = 0
        /\ lastChar = "other" /\ escape = FALSE /\ torn = FALSE
    BY DEF Init
  <2>3. line \in Seq(Letters \union {Space}) /\ cmdSize = Len(line) /\ cmdSize =< CmdMax - 2
    BY <1>1, <2>2, CmdMaxAssumption DEF Text
  <2>4. cursorPos \in 0 .. cmdSize /\ current \in 0 .. history.count
    BY <2>1, <2>2
  <2>5. \A i \in 1 .. HistorySize : history.buf[i] \in Letters \union {Space, Nul}
    BY <2>1
  <2>6. inputLineLength \in Nat /\ history.count \in Nat
    BY <2>1, <2>2
  <2>7. lastChar \in {"other", "CR", "LF", "ESC"} /\ escape \in BOOLEAN /\ torn \in BOOLEAN
    BY <2>2
  <2> QED BY <2>3, <2>4, <2>5, <2>6, <2>7, Zenon DEF EditorTypeOK
<1>5. ShownInv
  BY <1>1, <1>2, EmptyCompleted DEF Init, ShownInv
<1> QED BY <1>2, <1>3, <1>4, <1>5 DEF EditorInv

\* A row that nothing has been logged into.
WholeInv == ~torn => ShownInv

\* Something is logged: a new row, and nothing else.
LEMMA LogIs ==
  ASSUME EditorInv, Log
  PROVE  EditorInv' /\ torn' = TRUE
<1>1. term' = NewRow(term) /\ torn' = TRUE
  BY DEF Log
<1>2. term' \in Screen
  BY <1>1, NewRowIs DEF EditorInv
<1>3. EditorTypeOK' /\ HistoryOK(history')
  BY DEF Log, EditorInv, EditorTypeOK
<1> QED BY <1>1, <1>2, <1>3 DEF EditorInv

LEMMA EditorStep ==
  EditorInv /\ [Next]_vars => EditorInv' /\ (Width > CmdMax /\ WholeInv => WholeInv')
<1> SUFFICES ASSUME EditorInv, [Next]_vars
             PROVE  EditorInv' /\ (Width > CmdMax /\ WholeInv => WholeInv')
  OBVIOUS
<1>1. CASE UNCHANGED vars
  BY <1>1 DEF vars, EditorInv, EditorTypeOK, ShownInv, WholeInv
<1>3. CASE Log
  BY <1>3, LogIs DEF WholeInv
<1>2. ASSUME NEW c \in Char, Key(c)
      PROVE  EditorInv' /\ (Width > CmdMax /\ WholeInv => WholeInv')
  <2>2. /\ Enter \/ \E e : Edited(e)
        /\ lastChar' \in {"other", "CR", "LF", "ESC"} /\ escape' \in BOOLEAN
    BY <1>2, KeyIs
  <2>3. /\ line' \in Seq(Text) /\ cmdSize' = Len(line') /\ cmdSize' =< CmdMax - 2
        /\ cursorPos' \in 0 .. cmdSize' /\ inputLineLength' \in Nat /\ term' \in Screen
        /\ HistoryOK(history') /\ current' \in 0 .. history'.count /\ torn' \in BOOLEAN
        /\ Width > CmdMax /\ WholeInv => WholeInv'
    <3>1. CASE Enter
      <4>1. /\ line' \in Seq(Text) /\ cmdSize' = Len(line') /\ cmdSize' =< CmdMax - 2
            /\ cursorPos' \in 0 .. cmdSize' /\ inputLineLength' \in Nat /\ term' \in Screen
            /\ HistoryOK(history') /\ current' = 0 /\ torn' = FALSE
            /\ Width > CmdMax => ShownInv'
        BY <3>1, EnterIs
      <4>2. history'.count \in Nat
        BY <4>1 DEF HistoryOK
      <4>3. current' \in 0 .. history'.count
        BY <4>1, <4>2
      <4>4. Width > CmdMax => WholeInv'
        BY <4>1, Zenon DEF WholeInv
      <4> QED BY <4>1, <4>3, <4>4
    <3>2. CASE \E e : Edited(e)
      <4>1. PICK e : Edited(e)
        BY <3>2
      <4>2. /\ EditOK(e) /\ Becomes(e) /\ (Width > CmdMax /\ ShownInv => OnScreen(e))
            /\ history' = history /\ current' \in 0 .. history.count /\ torn' = torn
        BY <4>1 DEF Edited
      <4>3. HistoryOK(history') /\ current' \in 0 .. history'.count
        BY <4>2, CurrentIs
      <4>4. /\ line' \in Seq(Text) /\ cmdSize' = Len(line') /\ cmdSize' =< CmdMax - 2
            /\ cursorPos' \in 0 .. cmdSize' /\ inputLineLength' \in Nat /\ term' \in Screen
            /\ Width > CmdMax /\ OnScreen(e) => ShownInv'
        BY <4>2, BecomesIs
      <4>5. torn \in BOOLEAN
        BY DEF EditorInv, EditorTypeOK
      <4> QED BY <4>2, <4>3, <4>4, <4>5 DEF WholeInv
    <3> QED BY <2>2, <3>1, <3>2
  <2>4. history'.count \in Nat /\ \A i \in 1 .. HistorySize : history'.buf[i] \in Letters \union {Space, Nul}
    BY <2>3 DEF HistoryOK, Byte, Text
  <2>5. EditorTypeOK'
    BY <2>2, <2>3, <2>4 DEF EditorTypeOK, Text
  <2> QED BY <2>3, <2>5 DEF EditorInv
<1> QED BY <1>1, <1>2, <1>3 DEF Next

LEMMA EditorInvariant == Spec => []EditorInv
<1>1. Init => EditorInv
  BY EditorInit
<1>2. EditorInv /\ [Next]_vars => EditorInv'
  BY EditorStep
<1> QED BY <1>1, <1>2, PTL DEF Spec

\* What is typed, completed and recalled stays in the buffer, and both lengths
\* of the line agree (embedded_cli.h 1055-1168, 1414-1459, 1529-1599).
THEOREM EditorTypes == Spec => []EditorTypeOK
<1>1. EditorInv => EditorTypeOK
  BY DEF EditorInv
<1> QED BY <1>1, EditorInvariant, PTL

\* The cells are those of prompt, line, suggestion and blanks.
LEMMA ShownIsRow ==
  ASSUME EditorInv, ShownInv, Width > CmdMax
  PROVE  ScreenShowsLine
<1> DEFINE full == Completed(line)
           rest == From(full, Len(line) + 1)
           front == Invitation \o line
           shown == front \o rest
           n == Width - Len(shown)
           b == Blanks(n)
           row == shown \o b
<1>1. /\ line \in Seq(Text) /\ Len(line) \in Nat /\ Len(line) =< CmdMax - 2 /\ cursorPos \in Nat
      /\ term \in Screen
  BY CurrentIs DEF EditorInv, EditorTypeOK, Text
<1>2. /\ full \in Seq(Text) /\ Len(full) \in Nat /\ Len(line) =< Len(full)
      /\ Len(full) =< CmdMax - 2 /\ \A i \in 1 .. Len(line) : full[i] = line[i]
  BY <1>1, CompletedIs
<1>3. term.col = 2 + Len(line) - cursorPos /\ \A i \in 1 .. Width : term.row[i] = At(full, i)
  BY DEF ShownInv
<1> HIDE DEF full
<1>4. /\ Invitation \in Seq(Cell) /\ Len(Invitation) = 2
      /\ Invitation[1] = ">" /\ Invitation[2] = Space
  BY DEF Invitation, Cell, Text
<1>5. /\ rest \in Seq(Cell) /\ Len(rest) = Len(full) - Len(line)
      /\ \A i \in 1 .. Len(full) - Len(line) : rest[i] = full[Len(line) + i]
  <2> DEFINE k == Len(line) + 1
             r == From(full, k)
  <2>1. k \in 1 .. Len(full) + 1 /\ k = Len(line) + 1 /\ k \in Nat
    BY <1>1, <1>2
  <2> HIDE DEF k
  <2>2. /\ r \in Seq(Text) /\ Len(r) = Len(full) - k + 1
        /\ \A i \in 1 .. Len(full) - k + 1 : r[i] = full[k + i - 1]
    BY <1>2, <2>1, FromIs, ZenonT(60)
  <2> HIDE DEF r
  <2>3. Len(full) - k + 1 = Len(full) - Len(line)
    BY <1>1, <1>2, <2>1
  <2>4. ASSUME NEW i \in 1 .. Len(full) - Len(line)
        PROVE  r[i] = full[Len(line) + i]
    <3>1. k + i - 1 = Len(line) + i
      BY <1>1, <2>1
    <3> QED BY <2>2, <2>3, <3>1
  <2>5. r \in Seq(Cell)
    BY <2>2, TextIsCells
  <2> QED BY <2>2, <2>3, <2>4, <2>5 DEF r, k
<1> HIDE DEF rest
<1>6. /\ front \in Seq(Cell) /\ Len(front) = 2 + Len(line)
      /\ \A i \in 1 .. 2 + Len(line) : front[i] = IF i <= 2 THEN Invitation[i] ELSE line[i - 2]
  <2>1. /\ front \in Seq(Cell) /\ Len(front) = Len(Invitation) + Len(line)
        /\ \A i \in 1 .. Len(Invitation) + Len(line) :
               front[i] = IF i <= Len(Invitation) THEN Invitation[i] ELSE line[i - Len(Invitation)]
    BY <1>1, <1>4, TextIsCells, ConcatProperties
  <2> HIDE DEF front
  <2> QED BY <1>4, <2>1
<1> HIDE DEF front
<1>7. /\ shown \in Seq(Cell) /\ Len(shown) = 2 + Len(full)
      /\ \A i \in 1 .. 2 + Len(full) :
             shown[i] = IF i <= 2 + Len(line) THEN front[i] ELSE rest[i - (2 + Len(line))]
  <2>1. /\ shown \in Seq(Cell) /\ Len(shown) = Len(front) + Len(rest)
        /\ \A i \in 1 .. Len(front) + Len(rest) :
               shown[i] = IF i <= Len(front) THEN front[i] ELSE rest[i - Len(front)]
    BY <1>5, <1>6, ConcatProperties
  <2>2. Len(front) + Len(rest) = 2 + Len(full)
    BY <1>1, <1>2, <1>5, <1>6
  <2> HIDE DEF shown
  <2> QED BY <1>6, <2>1, <2>2
<1> HIDE DEF shown
<1>8. n \in Nat /\ 2 + Len(full) + n = Width /\ Width \in Nat
  BY <1>2, <1>7, CmdMaxAssumption, WidthAssumption
<1> HIDE DEF n
<1>9. b \in Seq(Cell) /\ Len(b) = n /\ \A i \in 1 .. n : b[i] = Blank
  <2>1. n \in Int
    BY <1>8
  <2>2. b \in Seq(Text) /\ Len(b) = (IF n > 0 THEN n ELSE 0) /\ \A i \in 1 .. n : b[i] = Blank
    BY <2>1, BlanksAre, Zenon
  <2> HIDE DEF b
  <2> QED BY <1>8, <2>2, TextIsCells
<1> HIDE DEF b
<1>10. /\ row \in Seq(Cell) /\ Len(row) = Width
       /\ \A i \in 1 .. Width :
              row[i] = IF i <= 2 + Len(full) THEN shown[i] ELSE b[i - (2 + Len(full))]
  <2>1. /\ row \in Seq(Cell) /\ Len(row) = Len(shown) + Len(b)
        /\ \A i \in 1 .. Len(shown) + Len(b) :
               row[i] = IF i <= Len(shown) THEN shown[i] ELSE b[i - Len(shown)]
    BY <1>7, <1>9, ConcatProperties, ZenonT(60)
  <2>2. Len(shown) + Len(b) = Width
    BY <1>7, <1>8, <1>9
  <2> HIDE DEF row
  <2> QED BY <1>7, <2>1, <2>2
<1> HIDE DEF row
<1>11. ASSUME NEW i \in 1 .. Width
       PROVE  row[i] = At(full, i)
  <2>1. i \in Int /\ i >= 1 /\ row[i] = IF i <= 2 + Len(full) THEN shown[i] ELSE b[i - (2 + Len(full))]
    BY <1>10, WidthAssumption
  <2>2. CASE i =< 2 + Len(line)
    <3>1. i \in 1 .. 2 + Len(line) /\ i \in 1 .. 2 + Len(full) /\ i =< 2 + Len(full)
      BY <1>1, <1>2, <2>1, <2>2
    <3>2. row[i] = IF i <= 2 THEN Invitation[i] ELSE line[i - 2]
      BY <1>6, <1>7, <2>1, <2>2, <3>1
    <3>3. CASE i =< 2
      <4>1. i = 1 \/ i = 2
        BY <2>1, <3>3
      <4> QED BY <1>4, <3>2, <3>3, <4>1 DEF At
    <3>4. CASE i > 2
      <4>1. i - 2 \in 1 .. Len(line) /\ i # 1 /\ i # 2 /\ ~(i =< 2)
        BY <1>1, <2>1, <2>2, <3>4
      <4>2. full[i - 2] = line[i - 2]
        BY <1>2, <4>1
      <4> QED BY <3>1, <3>2, <4>1, <4>2 DEF At
    <3> QED BY <2>1, <3>3, <3>4
  <2>3. CASE i > 2 + Len(line) /\ i =< 2 + Len(full)
    <3> DEFINE k == i - (2 + Len(line))
    <3>1. k \in 1 .. Len(full) - Len(line) /\ Len(line) + k = i - 2 /\ i \in 1 .. 2 + Len(full)
      BY <1>1, <1>2, <2>1, <2>3
    <3>2. row[i] = rest[k]
      BY <1>1, <1>7, <2>1, <2>3, <3>1
    <3> HIDE DEF k
    <3>3. rest[k] = full[i - 2]
      BY <1>5, <3>1
    <3> QED BY <1>1, <2>1, <2>3, <3>2, <3>3 DEF At
  <2>4. CASE i > 2 + Len(full)
    <3>1. i - (2 + Len(full)) \in 1 .. n
      BY <1>2, <1>8, <2>1, <2>4
    <3>2. ~(i =< 2 + Len(full)) /\ i # 1 /\ i # 2
      BY <1>2, <2>1, <2>4
    <3>3. row[i] = Blank
      BY <1>9, <2>1, <3>1, <3>2
    <3> QED BY <3>2, <3>3 DEF At
  <2> QED BY <1>1, <1>2, <2>1, <2>2, <2>3, <2>4
<1>12. term.row = row
  <2>1. term.row \in Seq(Cell) /\ Len(term.row) = Width
    BY <1>1, WidthAssumption, FunctionIsSeq DEF Screen
  <2> QED BY <1>3, <1>10, <1>11, <2>1, SeqEqual
<1>13. term.col = Len(Invitation) + Len(line) - cursorPos
  BY <1>3, <1>4
<1> QED BY <1>12, <1>13, Zenon DEF ScreenShowsLine, row, b, n, shown, front, rest, full

\* On a row that is wide enough the screen shows the line after every key, from
\* when a line is entered until something is logged (embedded_cli.h 1087-1168,
\* 1383-1496, global.h 24-29).
THEOREM ScreenRight ==
  ASSUME Width > CmdMax
  PROVE  Spec => []ScreenShowsLine
<1> DEFINE Good == EditorInv /\ WholeInv
<1>1. Init => Good
  BY EditorInit DEF WholeInv
<1>2. Good /\ [Next]_vars => Good'
  BY EditorStep
<1>3. Good => ScreenShowsLine
  <2>1. CASE torn
    BY <2>1 DEF ScreenShowsLine
  <2>2. CASE ~torn
    BY <2>2, ShownIsRow DEF WholeInv
  <2> QED BY <2>1, <2>2
<1> HIDE DEF Good
<1> QED BY <1>1, <1>2, <1>3, PTL DEF Spec
-----------------------------------------------------------------------------
(* The edited line: the list of commands.                                  *)

Recent(h) == [n \in 1 .. h.count |-> HistoryGet(h, n)]

LEMMA RecentIs ==
  ASSUME NEW h, HistoryOK(h)
  PROVE  /\ Recent(h) \in Seq(Seq(Text)) /\ Len(Recent(h)) = h.count /\ h.count \in Nat
         /\ \A n \in 1 .. h.count : Recent(h)[n] = Token(h.buf, n)
<1>1. h.count \in Nat
  BY DEF HistoryOK
<1>2. \A n \in 1 .. h.count : HistoryGet(h, n) \in Seq(Text) /\ n \in Nat
  BY <1>1, GetIs
<1>3. Recent(h) \in [1 .. h.count -> Seq(Text)]
  BY <1>2 DEF Recent
<1>4. \A n \in 1 .. h.count : Recent(h)[n] = Token(h.buf, n)
  BY DEF Recent, HistoryGet
<1> QED BY <1>1, <1>3, <1>4, FunctionIsSeq

\* The recursive function of Bytes is the one that adds up.
LEMMA BytesAre ==
  ASSUME NEW list \in Seq(Seq(Text)), NEW w \in [0 .. Len(list) -> Nat], w[0] = 0,
         \A n \in 1 .. Len(list) : w[n] = w[n - 1] + Len(list[n]) + 1
  PROVE  L!Bytes(list) = w
<1> DEFINE N == Len(list)
           Sum(f) == [n \in 0 .. N |-> IF n = 0 THEN 0 ELSE f[n - 1] + Len(list[n]) + 1]
           f == CHOOSE f : f = Sum(f)
<1>1. N \in Nat
  BY LenProperties
<1>2. w = Sum(w)
  <2>1. \A n \in 0 .. N : w[n] = IF n = 0 THEN 0 ELSE w[n - 1] + Len(list[n]) + 1
    <3>1. TAKE n \in 0 .. N
    <3>2. n # 0 => n \in 1 .. N
      BY <1>1
    <3> QED BY <3>2
  <2>2. w = [n \in 0 .. N |-> w[n]]
    OBVIOUS
  <2> QED BY <2>1, <2>2
<1>3. f = Sum(f)
  <2> HIDE DEF Sum
  <2> QED BY <1>2, Zenon
<1>4. L!Bytes(list) = f
  BY Zenon DEF L!Bytes
<1> HIDE DEF f
<1>5. \A n \in 0 .. N : f[n] = IF n = 0 THEN 0 ELSE f[n - 1] + Len(list[n]) + 1
  BY <1>3, Zenon
<1>6. \A n \in 0 .. N : f[n] = w[n]
  <2> DEFINE Wrong == {n \in 0 .. N : f[n] # w[n]}
  <2>1. SUFFICES ASSUME Wrong # {} PROVE FALSE
    BY Zenon
  <2>2. Wrong \in SUBSET Nat
    BY <1>1
  <2>3. PICK n \in Wrong : \A m \in Wrong : n =< m
    <3> HIDE DEF Wrong
    <3> QED BY <2>1, <2>2, LeastExists, Zenon
  <2>4. n \in 0 .. N /\ f[n] # w[n]
    BY <2>3
  <2>5. n # 0
    BY <1>1, <1>5, <2>4
  <2>6. n \in 1 .. N /\ n - 1 \in 0 .. N /\ ~(n =< n - 1)
    BY <1>1, <2>4, <2>5
  <2>7. f[n - 1] = w[n - 1]
    BY <2>3, <2>6
  <2>8. f[n] = f[n - 1] + Len(list[n]) + 1
    BY <1>5, <2>4, <2>5
  <2> QED BY <2>4, <2>6, <2>7, <2>8
<1>7. f = [n \in 0 .. N |-> f[n]]
  BY <1>3
<1>8. f = w
  BY <1>6, <1>7
<1> QED BY <1>4, <1>8

LEMMA WithoutIs ==
  ASSUME NEW h, HistoryOK(h), NEW g, HistoryOK(g), NEW str, Removed(h, str, g)
  PROVE  L!Without(Recent(h), str) = Recent(g)
<1> DEFINE r == Recent(h)
           found == {n \in 1 .. Len(r) : r[n] = str}
           first == CHOOSE n \in found : \A m \in found : n =< m
           cut == [i \in 1 .. Len(r) - 1 |-> IF i < first THEN r[i] ELSE r[i + 1]]
<1>1. L!Without(r, str) = IF found = {} THEN r ELSE cut
  BY Zenon DEF L!Without
<1>2. Len(r) = h.count /\ h.count \in Nat /\ \A n \in 1 .. h.count : r[n] = Token(h.buf, n)
  BY RecentIs
<1>3. g.count \in Nat /\ \A n \in 1 .. g.count : Recent(g)[n] = Token(g.buf, n)
  BY RecentIs
<1>4. CASE g = h /\ \A m \in 1 .. h.count : Token(h.buf, m) # str
  <2>1. found = {}
    BY <1>2, <1>4
  <2> QED BY <1>1, <1>4, <2>1
<1>5. CASE ~(g = h /\ \A m \in 1 .. h.count : Token(h.buf, m) # str)
  <2>1. g.count = h.count - 1
    BY <1>5 DEF Removed
  <2>2. PICK n \in 1 .. h.count :
              /\ Token(h.buf, n) = str /\ \A m \in 1 .. n - 1 : Token(h.buf, m) # str
              /\ \A m \in 1 .. g.count :
                     Token(g.buf, m) = Token(h.buf, IF m < n THEN m ELSE m + 1)
    BY <1>5 DEF Removed
  <2> HIDE DEF r
  <2>3. n \in found /\ \A m \in found : m \in Int /\ (m < n => m \in 1 .. n - 1 /\ Token(h.buf, m) = str)
    BY <1>2, <2>2
  <2>4. \A m \in found : n =< m
    BY <1>2, <2>2, <2>3
  <2>5. first \in found /\ \A m \in found : first =< m
    <3> HIDE DEF found
    <3> QED BY <2>3, <2>4, Zenon
  <2>6. first = n
    BY <1>2, <2>2, <2>3, <2>4, <2>5
  <2> HIDE DEF first, found
  <2>7. Recent(g) = [i \in 1 .. g.count |-> Recent(g)[i]]
    BY DEF Recent
  <2>8. ASSUME NEW i \in 1 .. g.count
        PROVE  Recent(g)[i] = IF i < first THEN r[i] ELSE r[i + 1]
    <3>1. Recent(g)[i] = Token(h.buf, IF i < n THEN i ELSE i + 1)
      BY <1>3, <2>2
    <3>2. i \in 1 .. h.count /\ i + 1 \in 1 .. h.count
      BY <1>2, <2>1
    <3> QED BY <1>2, <2>6, <3>1, <3>2
  <2>9. Recent(g) = cut
    <3>1. Len(r) - 1 = g.count
      BY <1>2, <2>1
    <3> QED BY <2>7, <2>8, <3>1
  <2>10. found # {}
    BY <2>3
  <2> QED BY <1>1, <2>9, <2>10 DEF r
<1> QED BY <1>4, <1>5

\* What is remembered is what historyPut keeps.
LEMMA RememberedIs ==
  ASSUME HistoryOK(history), NEW str \in Seq(Text), Len(str) =< CmdMax - 2
  PROVE  L!Remembered(str) = Recent(HistoryPut(history, str))
<1> DEFINE size == Len(str) + 1
           rest == HistoryRemove(history, str)
           kept == Kept(rest, size)
           g == HistoryPut(history, str)
           list == <<str>> \o Recent(rest)
           fits == {n \in 0 .. Len(list) : L!Bytes(list)[n] =< HistorySize}
           top == CHOOSE n \in fits : \A m \in fits : m =< n
<1>1. HistoryOK(g) /\ PutIn(history, str, g) /\ HistoryOK(rest) /\ Removed(history, str, rest)
  BY PutKeeps, RemoveKeeps, Zenon
<1>2. L!Without(Recent(history), str) = Recent(rest)
  BY <1>1, WithoutIs, Zenon
<1>3. L!Remembered(str) = IF HistorySize < size THEN Recent(history) ELSE SubSeq(list, 1, top)
  <2>1. L!Remembered(str) =
          LET l == <<str>> \o L!Without(Recent(history), str)
              f == {n \in 0 .. Len(l) : L!Bytes(l)[n] =< HistorySize}
          IN  IF HistorySize < size THEN Recent(history)
              ELSE SubSeq(l, 1, CHOOSE n \in f : \A m \in f : m =< n)
    BY Zenon DEF L!Remembered, Recent
  <2> QED BY <1>2, <2>1, Zenon
<1>4. CASE HistorySize < size
  <2>1. g = history
    BY <1>1, <1>4, Zenon DEF PutIn
  <2> QED BY <1>3, <1>4, <2>1
<1>5. CASE ~(HistorySize < size)
  <2>1. /\ g.count = kept + 1 /\ Token(g.buf, 1) = str
        /\ \A m \in 1 .. kept : Token(g.buf, m + 1) = Token(rest.buf, m)
    BY <1>1, <1>5, Zenon DEF PutIn
  <2>2. /\ Recent(rest) \in Seq(Seq(Text)) /\ Len(Recent(rest)) = rest.count /\ rest.count \in Nat
        /\ \A n \in 1 .. rest.count : Recent(rest)[n] = Token(rest.buf, n)
    BY <1>1, RecentIs
  <2>3. /\ Recent(g) \in Seq(Seq(Text)) /\ Len(Recent(g)) = g.count /\ g.count \in Nat
        /\ \A n \in 1 .. g.count : Recent(g)[n] = Token(g.buf, n)
    BY <1>1, RecentIs
  <2>4. rest \in [buf : [1 .. HistorySize -> Byte], count : Nat]
    BY <1>1 DEF HistoryOK
  <2>5. PICK z : Items(rest, z)
    BY <1>1 DEF HistoryOK
  <2>6. size \in Nat /\ size =< HistorySize /\ size = Len(str) + 1
    BY <1>5, LenProperties, HistoryAssumption
  <2> HIDE DEF rest, size
  <2>7. /\ kept \in 0 .. rest.count /\ z[kept] + size =< HistorySize
        /\ \A m \in kept + 1 .. rest.count : z[m] + size > HistorySize
    BY <2>4, <2>5, <2>6, KeptIs
  <2> HIDE DEF kept, g
  <2>8. /\ list \in Seq(Seq(Text)) /\ Len(list) = rest.count + 1 /\ list[1] = str
        /\ \A n \in 1 .. rest.count : list[n + 1] = Token(rest.buf, n)
    <3> DEFINE one == <<str>>
    <3>1. one \in Seq(Seq(Text)) /\ Len(one) = 1 /\ one[1] = str
      OBVIOUS
    <3> HIDE DEF one
    <3>2. /\ one \o Recent(rest) \in Seq(Seq(Text))
          /\ Len(one \o Recent(rest)) = Len(one) + Len(Recent(rest))
          /\ \A n \in 1 .. Len(one) + Len(Recent(rest)) :
                 (one \o Recent(rest))[n] = IF n <= Len(one) THEN one[n]
                                            ELSE Recent(rest)[n - Len(one)]
      BY <2>2, <3>1, ConcatProperties
    <3>3. list = one \o Recent(rest)
      BY DEF one
    <3> HIDE DEF list
    <3>4. list[1] = str
      BY <2>2, <3>1, <3>2, <3>3
    <3>5. ASSUME NEW n \in 1 .. rest.count
          PROVE  list[n + 1] = Token(rest.buf, n)
      <4>1. n + 1 \in 1 .. 1 + rest.count /\ ~(n + 1 <= 1) /\ (n + 1) - 1 = n
        BY <2>2
      <4> QED BY <2>2, <3>1, <3>2, <3>3, <4>1
    <3>6. list \in Seq(Seq(Text)) /\ Len(list) = rest.count + 1
      BY <2>2, <3>1, <3>2, <3>3
    <3> QED BY <3>4, <3>5, <3>6
  <2> HIDE DEF list
  <2> DEFINE w == [n \in 0 .. Len(list) |-> IF n = 0 THEN 0 ELSE size + z[n - 1]]
  <2>9. \A m \in 0 .. rest.count : z[m] \in Nat
    BY <2>4, <2>5, EndsAt
  <2>10. /\ w \in [0 .. Len(list) -> Nat] /\ w[0] = 0
         /\ \A m \in 0 .. rest.count : w[m + 1] = size + z[m]
    <3>1. ASSUME NEW n \in 0 .. Len(list)
          PROVE  (IF n = 0 THEN 0 ELSE size + z[n - 1]) \in Nat
      <4>1. n # 0 => n - 1 \in 0 .. rest.count
        BY <2>2, <2>8
      <4>2. n # 0 => z[n - 1] \in Nat
        BY <2>9, <4>1
      <4> QED BY <2>6, <4>2
    <3>2. ASSUME NEW m \in 0 .. rest.count
          PROVE  w[m + 1] = size + z[m]
      <4>1. m + 1 \in 0 .. Len(list) /\ m + 1 # 0 /\ (m + 1) - 1 = m
        BY <2>2, <2>8
      <4> QED BY <4>1
    <3>3. 0 \in 0 .. Len(list)
      BY <2>2, <2>8
    <3> QED BY <3>1, <3>2, <3>3
  <2> HIDE DEF w
  <2>11. ASSUME NEW n \in 1 .. Len(list)
         PROVE  w[n] = w[n - 1] + Len(list[n]) + 1
    <3>1. CASE n = 1
      <4>1. z[0] = 0 /\ 0 \in 0 .. rest.count
        BY <2>2, <2>4, <2>5, EndsAt
      <4>2. w[0 + 1] = size + z[0]
        BY <2>10, <4>1
      <4>3. w[1] = size
        BY <2>6, <4>1, <4>2
      <4> QED BY <2>6, <2>8, <2>10, <3>1, <4>3
    <3>2. CASE n # 1
      <4> DEFINE k == n - 1
                 j == n - 2
      <4>5. n \in 2 .. rest.count + 1 /\ rest.count \in Nat
        BY <2>2, <2>8, <3>2
      <4>1. k \in 1 .. rest.count /\ k \in 0 .. rest.count /\ j \in 0 .. rest.count /\ k - 1 = j
            /\ k + 1 = n /\ j + 1 = k /\ n - 1 = k
        BY <4>5
      <4> HIDE DEF k, j
      <4>2. w[n] = size + z[k] /\ w[k] = size + z[j] /\ list[n] = Token(rest.buf, k)
        BY <2>8, <2>10, <4>1
      <4>3. Len(Token(rest.buf, k)) = z[k] - z[k - 1] - 1
        BY <2>4, <2>5, <4>1, ItemIs
      <4>4. z[k] \in Nat /\ z[j] \in Nat
        BY <2>9, <4>1
      <4>6. Len(list[n]) = z[k] - z[j] - 1 /\ w[n - 1] = size + z[j]
        BY <4>1, <4>2, <4>3
      <4> DEFINE u == z[k]
                 v == z[j]
                 q == Len(list[n])
      <4>7. w[n] = size + u /\ w[n - 1] = size + v /\ q = u - v - 1 /\ u \in Nat /\ v \in Nat
        BY <4>2, <4>4, <4>6
      <4> HIDE DEF u, v, q
      <4>8. w[n] = w[n - 1] + q + 1
        BY <2>6, <4>7
      <4> QED BY <4>8 DEF q
    <3> QED BY <3>1, <3>2
  <2>12. L!Bytes(list) = w
    BY <2>8, <2>10, <2>11, BytesAre
  <2>13. kept + 1 \in fits /\ \A m \in fits : m \in Int /\ m =< kept + 1
    <3>1. kept + 1 \in 0 .. Len(list) /\ w[kept + 1] = size + z[kept] /\ z[kept] \in Nat
      BY <2>2, <2>7, <2>8, <2>9, <2>10
    <3>2. kept + 1 \in fits
      BY <2>6, <2>7, <2>12, <3>1
    <3>3. ASSUME NEW m \in fits
          PROVE  m \in Int /\ m =< kept + 1
      <4>1. m \in 0 .. Len(list) /\ w[m] =< HistorySize
        BY <2>12
      <4>2. ASSUME ~(m =< kept + 1)
            PROVE  FALSE
        <5> DEFINE k == m - 1
        <5>4. m \in 0 .. rest.count + 1 /\ rest.count \in Nat /\ kept \in Nat
          BY <2>2, <2>7, <2>8, <4>1
        <5>1. k \in kept + 1 .. rest.count /\ k \in 0 .. rest.count /\ k + 1 = m
          BY <4>2, <5>4
        <5> HIDE DEF k
        <5>2. z[k] + size > HistorySize /\ w[k + 1] = size + z[k] /\ z[k] \in Nat
          BY <2>7, <2>9, <2>10, <5>1
        <5>3. w[m] = size + z[k]
          BY <5>1, <5>2
        <5> QED BY <2>6, <4>1, <5>2, <5>3, HistoryAssumption
      <4> QED BY <4>1, <4>2
    <3> QED BY <3>2, <3>3
  <2>14. top = kept + 1
    <3> DEFINE t == kept + 1
    <3>1. t \in fits /\ \A m \in fits : m =< t
      BY <2>13
    <3>2. \A m \in fits : m \in Int
      BY <2>13
    <3> HIDE DEF fits, t
    <3>3. top \in fits /\ \A m \in fits : m =< top
      BY <3>1, Zenon
    <3>4. t =< top /\ top =< t /\ t \in Int /\ top \in Int
      BY <3>1, <3>2, <3>3
    <3> HIDE DEF top
    <3>5. top = t
      BY <3>4
    <3> QED BY <3>5 DEF t
  <2> HIDE DEF top, fits
  <2> DEFINE a == kept + 1
             s == SubSeq(list, 1, a)
  <2>15. a \in Nat /\ a =< Len(list) /\ a >= 1 /\ a = g.count
    BY <2>1, <2>2, <2>7, <2>8
  <2> HIDE DEF a
  <2>16. s \in Seq(Seq(Text)) /\ Len(s) = a /\ \A i \in 1 .. a : s[i] = list[i]
    <3>1. /\ SubSeq(list, 1, a) \in Seq(Seq(Text))
          /\ Len(SubSeq(list, 1, a)) = IF 1 =< a THEN a - 1 + 1 ELSE 0
          /\ \A i \in 1 .. a - 1 + 1 : SubSeq(list, 1, a)[i] = list[1 + i - 1]
      BY <2>8, <2>15, PieceIs
    <3> QED BY <2>15, <3>1
  <2> HIDE DEF s
  <2>17. ASSUME NEW i \in 1 .. a
         PROVE  list[i] = Recent(g)[i]
    <3>1. CASE i = 1
      BY <2>1, <2>3, <2>8, <2>15, <3>1
    <3>2. CASE i # 1
      <4> DEFINE k == i - 1
      <4>1. k \in 1 .. kept /\ k \in 1 .. rest.count /\ k + 1 = i
        BY <2>2, <2>7, <3>2 DEF a
      <4> HIDE DEF k
      <4>2. list[k + 1] = Token(rest.buf, k) /\ Token(g.buf, k + 1) = Token(rest.buf, k)
        BY <2>1, <2>8, <4>1
      <4>3. Recent(g)[i] = Token(g.buf, i)
        BY <2>3, <2>15
      <4> QED BY <4>1, <4>2, <4>3
    <3> QED BY <3>1, <3>2
  <2>18. s = Recent(g)
    BY <2>3, <2>15, <2>16, <2>17, SeqEqual
  <2>19. L!Remembered(str) = SubSeq(list, 1, top)
    BY <1>3, <1>5, Zenon DEF size
  <2> QED BY <2>14, <2>18, <2>19 DEF s, a, g
<1> QED BY <1>4, <1>5

-----------------------------------------------------------------------------
(* The edited line: completion.                                            *)

LEMMA CandidatesFinite ==
  ASSUME NEW s
  PROVE  IsFiniteSet(Candidates(s))
<1> DEFINE J == {j \in DOMAIN Bindings : IsPrefix(s, Bindings[j].name)}
           T == {Bindings[i].name : i \in J}
           f == [i \in J |-> Bindings[i].name]
<1>1. IsFiniteSet(J)
  BY BindingAssumption, FS_Subset
<1>2. f \in Surjection(J, T)
  BY DEF Surjection
<1> HIDE DEF J, f
<1>3. IsFiniteSet(T)
  BY <1>1, <1>2, FS_Surjection
<1>4. Candidates(s) = IF s = << >> THEN {} ELSE T
  BY Zenon DEF Candidates, J
<1> QED BY <1>3, <1>4, FS_EmptySet

LEMMA BeginsIs ==
  ASSUME NEW s \in Seq(Text), NEW t \in Seq(Text)
  PROVE  L!Begins(s, t) <=> IsPrefix(s, t)
<1>1. SubSeq(s, 1, Len(s)) = s
  BY SubSeqFull
<1> QED BY <1>1, Zenon DEF L!Begins, IsPrefix

LEMMA MatchesAre ==
  ASSUME NEW s \in Seq(Text)
  PROVE  L!Matches(s) = Candidates(s)
<1>1. \A i \in DOMAIN Bindings : Bindings[i].name \in Seq(Text)
  BY NameAssumption, SeqMonotonic DEF Text
<1>2. \A i \in DOMAIN Bindings : L!Begins(s, Bindings[i].name) <=> IsPrefix(s, Bindings[i].name)
  BY <1>1, BeginsIs
<1> DEFINE names == {Bindings[i].name : i \in DOMAIN Bindings}
<1>3. L!Matches(s) = IF s = << >> THEN {} ELSE {n \in names : L!Begins(s, n)}
  BY Zenon DEF L!Matches
<1>4. Candidates(s) =
        IF s = << >> THEN {}
        ELSE {Bindings[i].name : i \in {j \in DOMAIN Bindings : IsPrefix(s, Bindings[j].name)}}
  BY Zenon DEF Candidates
<1>5. {n \in names : L!Begins(s, n)}
        = {Bindings[i].name : i \in {j \in DOMAIN Bindings : IsPrefix(s, Bindings[j].name)}}
  BY <1>2, Zenon
<1> QED BY <1>3, <1>4, <1>5

LEMMA SharedIs ==
  ASSUME NEW s \in Seq(Text)
  PROVE  L!Shared(Candidates(s)) = LongestCommonPrefix(Candidates(s))
<1> DEFINE S == Candidates(s)
           texts == UNION {{SubSeq(n, 1, k) : k \in 0 .. Len(n)} : n \in S}
           common == {p \in texts : \A n \in S : L!Begins(p, n)}
<1>1. \A n \in S : n \in Seq(Text)
  BY NamesAre
<1>2. texts = UNION {Prefixes(n) : n \in S}
  BY Zenon DEF Prefixes
<1>3. \A p \in texts : p \in Seq(Text)
  <2>1. TAKE p \in texts
  <2>2. PICK n \in S : \E k \in 0 .. Len(n) : p = SubSeq(n, 1, k)
    BY Zenon
  <2>3. n \in Seq(Text) /\ Len(n) \in Nat
    BY <1>1, LenProperties
  <2> QED BY <2>2, <2>3, PieceIs
<1> HIDE DEF S
<1>4. CommonPrefixes(S) = {p \in texts : \A n \in S : IsPrefix(p, n)}
  BY <1>2, Zenon DEF CommonPrefixes
<1> HIDE DEF texts
<1>5. \A p \in texts : \A n \in S : L!Begins(p, n) <=> IsPrefix(p, n)
  BY <1>1, <1>3, BeginsIs
<1>6. common = CommonPrefixes(S)
  <2>1. common \subseteq CommonPrefixes(S)
    BY <1>4, <1>5, Zenon
  <2>2. CommonPrefixes(S) \subseteq common
    BY <1>4, <1>5, Zenon
  <2> QED BY <2>1, <2>2
<1>7. L!Shared(S) = CHOOSE p \in common : \A t \in common : Len(t) =< Len(p)
  BY Zenon DEF L!Shared, texts
<1>8. LongestCommonPrefix(S) =
        CHOOSE p \in CommonPrefixes(S) : \A t \in CommonPrefixes(S) : Len(t) =< Len(p)
  BY Zenon DEF LongestCommonPrefix
<1> HIDE DEF common
<1> QED BY <1>6, <1>7, <1>8 DEF S

LEMMA CompletionIs ==
  ASSUME NEW s \in Seq(Text)
  PROVE  L!Completion(s) = IF Cardinality(Candidates(s)) = 1 THEN Append(Completed(s), Space)
                           ELSE Completed(s)
<1> DEFINE S == Candidates(s)
<1>1. L!Matches(s) = S /\ L!Shared(S) = LongestCommonPrefix(S)
  BY MatchesAre, SharedIs
<1>2. L!Completion(s) = IF S = {} THEN s
                        ELSE IF \E n \in S : S = {n} THEN Append(L!Shared(S), " ") ELSE L!Shared(S)
  BY <1>1, Zenon DEF L!Completion
<1>3. Completed(s) = IF S = {} THEN s ELSE LongestCommonPrefix(S)
  BY Zenon DEF Completed
<1>4. IsFiniteSet(S)
  BY CandidatesFinite
<1> HIDE DEF S
<1>5. Cardinality(S) = 1 <=> \E n \in S : S = {n}
  <2>1. Cardinality(S) = 1 <=> \E n : S = {n}
    BY <1>4, FS_Singleton, Zenon
  <2>2. \A n : S = {n} => n \in S
    OBVIOUS
  <2> QED BY <2>1, <2>2, Zenon
<1>6. S = {} => ~(\E n \in S : S = {n})
  OBVIOUS
<1>7. Space = " "
  BY DEF Space
<1> QED BY <1>1, <1>2, <1>3, <1>5, <1>6, <1>7, Zenon DEF S

\* The line after a completion, and where the cursor is.
LEMMA AutocompletedIs ==
  ASSUME NEW e, EditOK(e)
  PROVE  /\ Autocomplete(e).line = L!Completion(e.line)
         /\ Candidates(e.line) = {} => Autocomplete(e) = e
         /\ Candidates(e.line) # {} => Autocomplete(e).cursor = 0
<1> DEFINE n == Cardinality(Candidates(e.line))
           common == Completed(e.line)
           full == IF n = 1 THEN Append(common, Space) ELSE common
           cleared == ClearCurrentLine(e)
           f == [line |-> full, size |-> Len(full), cursor |-> 0, shown |-> Len(full),
                 term |-> Write(e.term, From(full, e.size - e.cursor + 1))]
           t == Write(Prompt(cleared.term), e.line)
           g == [cleared EXCEPT !.term = t, !.shown = e.size]
<1>1. Autocomplete(e) = IF n = 0 THEN e ELSE IF n = 1 \/ Len(common) > e.size THEN f ELSE g
  BY Zenon DEF Autocomplete
<1>2. /\ e \in Edits /\ e.size \in Nat /\ e.size = Len(e.line) /\ e.size =< CmdMax - 2
      /\ e.line \in Seq(Text)
  BY DEF EditOK, Edits
<1>3. L!Completion(e.line) = full
  BY <1>2, CompletionIs, Zenon
<1>4. n = 0 <=> Candidates(e.line) = {}
  BY CandidatesFinite, FS_EmptySet
<1>5. n = 0 => common = e.line
  BY <1>4 DEF Completed
<1>6. /\ common \in Seq(Text) /\ Len(common) \in Nat /\ Len(e.line) =< Len(common)
      /\ \A i \in 1 .. Len(e.line) : common[i] = e.line[i]
  BY <1>2, CompletedIs
<1>7. /\ f.line = full /\ f.cursor = 0
      /\ g.line = e.line /\ g.cursor = 0
  <2>1. f.line = full /\ f.cursor = 0
    BY Zenon
  <2>2. g.line = cleared.line /\ g.cursor = cleared.cursor
    <3>1. cleared \in Edits
      BY ClearIs
    <3> HIDE DEF cleared, t
    <3> QED BY <3>1 DEF Edits
  <2>3. cleared.line = e.line /\ cleared.cursor = 0
    BY ClearIs
  <2> QED BY <2>1, <2>2, <2>3
<1> HIDE DEF n, common, f, g
<1>8. CASE n = 0
  BY <1>1, <1>3, <1>4, <1>5, <1>8
<1>9. CASE n # 0 /\ (n = 1 \/ Len(common) > e.size)
  BY <1>1, <1>3, <1>4, <1>7, <1>9
<1>10. CASE n # 0 /\ ~(n = 1 \/ Len(common) > e.size)
  <2>1. common = e.line
    <3>1. Len(common) = Len(e.line)
      BY <1>2, <1>6, <1>10
    <3> QED BY <1>2, <1>6, <3>1, SeqEqual
  <2>2. full = e.line
    BY <1>10, <2>1
  <2> QED BY <1>1, <1>3, <1>4, <1>7, <1>10, <2>2
<1> QED BY <1>8, <1>9, <1>10

-----------------------------------------------------------------------------
(* The edited line: what is left and right of the cursor.                  *)

LeftOf(s, k) == SubSeq(s, 1, Len(s) - k)
RightOf(s, k) == SubSeq(s, Len(s) - k + 1, Len(s))

LEMMA HalvesAre ==
  ASSUME NEW s \in Seq(Text), NEW k \in Nat, k =< Len(s)
  PROVE  /\ LeftOf(s, k) \in Seq(Text) /\ Len(LeftOf(s, k)) = Len(s) - k
         /\ \A i \in 1 .. Len(s) - k : LeftOf(s, k)[i] = s[i]
         /\ RightOf(s, k) \in Seq(Text) /\ Len(RightOf(s, k)) = k
         /\ \A i \in 1 .. k : RightOf(s, k)[i] = s[Len(s) - k + i]
<1> DEFINE n == Len(s)
           b == n - k
           a == n - k + 1
<1>0. n \in Nat /\ k =< n
  BY LenProperties
<1> HIDE DEF n
<1>1. b \in Nat /\ b =< n /\ a \in Nat /\ a >= 1 /\ n - a + 1 = k /\ b - 1 + 1 = b
  BY <1>0
<1>2. (1 =< b \/ b = 0) /\ (a =< n \/ k = 0)
  BY <1>0
<1>3. \A i \in Int : 1 + i - 1 = i /\ a + i - 1 = b + i
  BY <1>0, <1>1
<1> HIDE DEF a, b
<1>4. /\ SubSeq(s, 1, b) \in Seq(Text) /\ Len(SubSeq(s, 1, b)) = IF 1 =< b THEN b - 1 + 1 ELSE 0
      /\ \A i \in 1 .. b - 1 + 1 : SubSeq(s, 1, b)[i] = s[1 + i - 1]
  BY <1>0, <1>1, PieceIs DEF n
<1>5. /\ SubSeq(s, a, n) \in Seq(Text) /\ Len(SubSeq(s, a, n)) = IF a =< n THEN n - a + 1 ELSE 0
      /\ \A i \in 1 .. n - a + 1 : SubSeq(s, a, n)[i] = s[a + i - 1]
  BY <1>0, <1>1, PieceIs DEF n
<1>6. Len(SubSeq(s, 1, b)) = b /\ \A i \in 1 .. b : SubSeq(s, 1, b)[i] = s[i]
  BY <1>1, <1>2, <1>3, <1>4
<1>7. Len(SubSeq(s, a, n)) = k /\ \A i \in 1 .. k : SubSeq(s, a, n)[i] = s[b + i]
  BY <1>0, <1>1, <1>2, <1>3, <1>5
<1> QED BY <1>4, <1>5, <1>6, <1>7 DEF LeftOf, RightOf, n, a, b

LEMMA HalvesMake ==
  ASSUME NEW s \in Seq(Text), NEW k \in Nat, k =< Len(s)
  PROVE  /\ LeftOf(s, k) \o RightOf(s, k) = s
         /\ LeftOf(s, k) = << >> <=> k = Len(s)
         /\ RightOf(s, k) = << >> <=> k = 0
<1> DEFINE l == LeftOf(s, k)
           r == RightOf(s, k)
<1>1. /\ l \in Seq(Text) /\ Len(l) = Len(s) - k /\ \A i \in 1 .. Len(s) - k : l[i] = s[i]
      /\ r \in Seq(Text) /\ Len(r) = k /\ \A i \in 1 .. k : r[i] = s[Len(s) - k + i]
  BY HalvesAre
<1>2. Len(s) \in Nat
  BY LenProperties
<1> HIDE DEF l, r
<1>3. /\ l \o r \in Seq(Text) /\ Len(l \o r) = Len(l) + Len(r)
      /\ \A i \in 1 .. Len(l) + Len(r) : (l \o r)[i] = IF i <= Len(l) THEN l[i] ELSE r[i - Len(l)]
  BY <1>1, ConcatProperties
<1>4. Len(l) + Len(r) = Len(s)
  BY <1>1, <1>2
<1>5. ASSUME NEW i \in 1 .. Len(s)
      PROVE  (l \o r)[i] = s[i]
  <2>1. (l \o r)[i] = IF i <= Len(l) THEN l[i] ELSE r[i - Len(l)]
    BY <1>3, <1>4
  <2>2. CASE i =< Len(l)
    <3>1. i \in 1 .. Len(s) - k
      BY <1>1, <1>2, <2>2
    <3> QED BY <1>1, <2>1, <2>2, <3>1
  <2>3. CASE ~(i =< Len(l))
    <3> DEFINE j == i - Len(l)
    <3>1. j \in 1 .. k /\ Len(s) - k + j = i
      BY <1>1, <1>2, <2>3
    <3>2. (l \o r)[i] = r[j]
      BY <2>1, <2>3
    <3> HIDE DEF j
    <3> QED BY <1>1, <3>1, <3>2
  <2> QED BY <2>2, <2>3
<1>6. l \o r = s
  <2> DEFINE c == l \o r
  <2>1. c \in Seq(Text) /\ Len(c) = Len(s) /\ \A i \in 1 .. Len(s) : c[i] = s[i]
    BY <1>3, <1>4, <1>5
  <2> HIDE DEF c
  <2>2. c = s
    BY <1>2, <2>1, SeqEqual
  <2> QED BY <2>2 DEF c
<1>7. l = << >> <=> k = Len(s)
  BY <1>1, <1>2, EmptySeq
<1>8. r = << >> <=> k = 0
  BY <1>1, <1>2, EmptySeq
<1> QED BY <1>6, <1>7, <1>8 DEF l, r

\* With the cursor behind the line.
LEMMA WholeIsLeft ==
  ASSUME NEW s \in Seq(Text)
  PROVE  LeftOf(s, 0) = s /\ RightOf(s, 0) = << >>
<1>1. Len(s) \in Nat
  BY LenProperties
<1>2. /\ LeftOf(s, 0) \in Seq(Text) /\ Len(LeftOf(s, 0)) = Len(s) - 0
      /\ \A i \in 1 .. Len(s) - 0 : LeftOf(s, 0)[i] = s[i]
  BY <1>1, HalvesAre
<1>3. LeftOf(s, 0) = s
  BY <1>1, <1>2, SeqEqual
<1> QED BY <1>1, <1>3, HalvesMake

\* A character at the cursor.
LEMMA InsertedHalves ==
  ASSUME NEW s \in Seq(Text), NEW k \in Nat, k =< Len(s), NEW c \in Text
  PROVE  LET t == InsertAt(s, Len(s) - k + 1, c)
         IN  LeftOf(t, k) = Append(LeftOf(s, k), c) /\ RightOf(t, k) = RightOf(s, k)
<1> DEFINE p == Len(s) - k + 1
           t == InsertAt(s, p, c)
           l == LeftOf(s, k)
           a == Append(l, c)
<1>1. Len(s) \in Nat /\ p \in 1 .. Len(s) + 1 /\ p = Len(s) - k + 1
  BY LenProperties
<1> HIDE DEF p
<1>2. /\ t \in Seq(Text) /\ Len(t) = Len(s) + 1
      /\ \A i \in 1 .. Len(s) + 1 : t[i] = IF i < p THEN s[i] ELSE IF i = p THEN c ELSE s[i - 1]
  <2>1. p \in 1 .. Len(s) + 1
    BY <1>1
  <2> DEFINE at(i) == IF i < p THEN s[i] ELSE IF i = p THEN c ELSE s[i - 1]
  <2>2. t \in Seq(Text) /\ Len(t) = Len(s) + 1
    BY <2>1, InsertAtIs
  <2>3. ASSUME NEW i \in 1 .. Len(s) + 1
        PROVE  t[i] = at(i)
    BY <2>1, InsertAtIs
  <2> QED BY <2>2, <2>3
<1> HIDE DEF t
<1>3. /\ l \in Seq(Text) /\ Len(l) = Len(s) - k /\ \A i \in 1 .. Len(s) - k : l[i] = s[i]
      /\ RightOf(s, k) \in Seq(Text) /\ Len(RightOf(s, k)) = k
      /\ \A i \in 1 .. k : RightOf(s, k)[i] = s[Len(s) - k + i]
  BY HalvesAre
<1> HIDE DEF l
<1>4. /\ a \in Seq(Text) /\ Len(a) = Len(l) + 1 /\ \A i \in 1 .. Len(l) : a[i] = l[i]
      /\ a[Len(l) + 1] = c
  BY <1>3, AppendProperties
<1> HIDE DEF a
<1>5. k =< Len(t)
  BY <1>1, <1>2
<1>6. /\ LeftOf(t, k) \in Seq(Text) /\ Len(LeftOf(t, k)) = Len(t) - k
      /\ \A i \in 1 .. Len(t) - k : LeftOf(t, k)[i] = t[i]
      /\ RightOf(t, k) \in Seq(Text) /\ Len(RightOf(t, k)) = k
      /\ \A i \in 1 .. k : RightOf(t, k)[i] = t[Len(t) - k + i]
  BY <1>2, <1>5, HalvesAre
<1>7. LeftOf(t, k) = a
  <2>1. Len(t) - k = p /\ Len(l) + 1 = p /\ p \in Nat
    BY <1>1, <1>2, <1>3
  <2>2. ASSUME NEW i \in 1 .. p
        PROVE  LeftOf(t, k)[i] = a[i]
    <3>1. LeftOf(t, k)[i] = t[i]
      BY <1>6, <2>1
    <3>2. t[i] = IF i < p THEN s[i] ELSE IF i = p THEN c ELSE s[i - 1]
      BY <1>1, <1>2
    <3>3. CASE i = p
      BY <1>4, <2>1, <3>1, <3>2, <3>3
    <3>4. CASE i # p
      <4>1. i < p /\ i \in 1 .. Len(l) /\ i \in 1 .. Len(s) - k
        BY <1>1, <1>3, <2>1, <3>4
      <4> QED BY <1>3, <1>4, <3>1, <3>2, <4>1
    <3> QED BY <3>3, <3>4
  <2>3. Len(LeftOf(t, k)) = p /\ Len(a) = p
    BY <1>4, <1>6, <2>1
  <2> QED BY <1>4, <1>6, <2>2, <2>3, SeqEqual
<1>8. RightOf(t, k) = RightOf(s, k)
  <2>1. ASSUME NEW i \in 1 .. k
        PROVE  RightOf(t, k)[i] = RightOf(s, k)[i]
    <3> DEFINE j == Len(t) - k + i
    <3>1. j \in 1 .. Len(s) + 1 /\ j > p /\ j - 1 = Len(s) - k + i
      BY <1>1, <1>2
    <3>2. RightOf(t, k)[i] = t[j]
      BY <1>6
    <3> HIDE DEF j
    <3>3. t[j] = s[j - 1]
      BY <1>1, <1>2, <3>1
    <3> QED BY <1>3, <3>1, <3>2, <3>3
  <2> QED BY <1>3, <1>6, <2>1, SeqEqual
<1> QED BY <1>7, <1>8 DEF a, l, t, p

\* The character left of the cursor is removed.
LEMMA RemovedHalves ==
  ASSUME NEW s \in Seq(Text), NEW k \in Nat, k < Len(s)
  PROVE  LET t == RemoveAt(s, Len(s) - k)
         IN  LeftOf(t, k) = L!Front(LeftOf(s, k)) /\ RightOf(t, k) = RightOf(s, k)
<1> DEFINE p == Len(s) - k
           t == RemoveAt(s, p)
           l == LeftOf(s, k)
           f == SubSeq(l, 1, p - 1)
<1>1. Len(s) \in Nat /\ p \in 1 .. Len(s) /\ p = Len(s) - k /\ p - 1 \in Nat /\ k =< Len(s)
  BY LenProperties
<1> HIDE DEF p
<1>2. /\ t \in Seq(Text) /\ Len(t) = Len(s) - 1
      /\ \A i \in 1 .. Len(s) - 1 : t[i] = IF i < p THEN s[i] ELSE s[i + 1]
  BY <1>1, RemoveAtIs
<1> HIDE DEF t
<1>3. /\ l \in Seq(Text) /\ Len(l) = p /\ \A i \in 1 .. p : l[i] = s[i]
      /\ RightOf(s, k) \in Seq(Text) /\ Len(RightOf(s, k)) = k
      /\ \A i \in 1 .. k : RightOf(s, k)[i] = s[p + i]
  BY <1>1, HalvesAre
<1> HIDE DEF l
<1>4. f \in Seq(Text) /\ Len(f) = p - 1 /\ \A i \in 1 .. p - 1 : f[i] = l[i]
  <2> DEFINE b == p - 1
  <2>1. b \in Nat /\ b =< Len(l) /\ b - 1 + 1 = b /\ (1 =< b \/ b = 0)
    BY <1>1, <1>3
  <2>2. \A i \in Int : 1 + i - 1 = i
    OBVIOUS
  <2> HIDE DEF b
  <2>3. /\ SubSeq(l, 1, b) \in Seq(Text) /\ Len(SubSeq(l, 1, b)) = IF 1 =< b THEN b - 1 + 1 ELSE 0
        /\ \A i \in 1 .. b - 1 + 1 : SubSeq(l, 1, b)[i] = l[1 + i - 1]
    BY <1>3, <2>1, PieceIs
  <2>4. Len(SubSeq(l, 1, b)) = b /\ \A i \in 1 .. b : SubSeq(l, 1, b)[i] = l[i]
    BY <2>1, <2>2, <2>3
  <2> QED BY <2>3, <2>4 DEF b
<1> HIDE DEF f
<1>5. k =< Len(t) /\ Len(t) - k = p - 1
  BY <1>1, <1>2
<1>6. /\ LeftOf(t, k) \in Seq(Text) /\ Len(LeftOf(t, k)) = Len(t) - k
      /\ \A i \in 1 .. Len(t) - k : LeftOf(t, k)[i] = t[i]
      /\ RightOf(t, k) \in Seq(Text) /\ Len(RightOf(t, k)) = k
      /\ \A i \in 1 .. k : RightOf(t, k)[i] = t[Len(t) - k + i]
  BY <1>2, <1>5, HalvesAre
<1>7. LeftOf(t, k) = f
  <2>1. ASSUME NEW i \in 1 .. p - 1
        PROVE  LeftOf(t, k)[i] = f[i]
    <3>1. i < p /\ i \in 1 .. Len(s) - 1 /\ i \in 1 .. p /\ i \in 1 .. Len(t) - k
      BY <1>1, <1>5
    <3>2. LeftOf(t, k)[i] = t[i] /\ t[i] = s[i] /\ f[i] = l[i] /\ l[i] = s[i]
      BY <1>2, <1>3, <1>4, <1>6, <3>1
    <3> QED BY <3>2
  <2>2. Len(LeftOf(t, k)) = p - 1
    BY <1>5, <1>6
  <2> QED BY <1>4, <1>6, <2>1, <2>2, SeqEqual
<1>8. RightOf(t, k) = RightOf(s, k)
  <2>1. ASSUME NEW i \in 1 .. k
        PROVE  RightOf(t, k)[i] = RightOf(s, k)[i]
    <3> DEFINE j == Len(t) - k + i
    <3>1. j \in 1 .. Len(s) - 1 /\ ~(j < p) /\ j + 1 = p + i
      BY <1>1, <1>2
    <3>2. RightOf(t, k)[i] = t[j]
      BY <1>6
    <3> HIDE DEF j
    <3>3. t[j] = s[j + 1]
      BY <1>2, <3>1
    <3> QED BY <1>3, <3>1, <3>2, <3>3
  <2> QED BY <1>3, <1>6, <2>1, SeqEqual
<1>9. L!Front(l) = f
  BY <1>3 DEF L!Front, f
<1> QED BY <1>7, <1>8, <1>9 DEF l, t, p

\* The cursor moves past one character: to the left, read from s to t, or to the
\* right, read from t to s.
LEMMA MovedHalves ==
  ASSUME NEW s \in Seq(Text), NEW k \in Nat, NEW j \in Nat, j = k + 1, j =< Len(s)
  PROVE  LET l == LeftOf(s, k)
             r == RightOf(s, k)
         IN  /\ LeftOf(s, j) = L!Front(l) /\ RightOf(s, j) = <<l[Len(l)]>> \o r
             /\ LeftOf(s, k) = Append(LeftOf(s, j), Head(RightOf(s, j)))
             /\ RightOf(s, k) = Tail(RightOf(s, j))
<1> DEFINE l == LeftOf(s, k)
           r == RightOf(s, k)
           u == LeftOf(s, j)
           v == RightOf(s, j)
           n == Len(s) - j
           c == s[n + 1]
<1>1. Len(s) \in Nat /\ n \in Nat /\ n + 1 \in 1 .. Len(s) /\ Len(s) - k = n + 1 /\ k =< Len(s)
  BY LenProperties
<1>2. c \in Text
  BY <1>1, ElementOfSeq
<1>13. /\ l \in Seq(Text) /\ Len(l) = Len(s) - k /\ \A i \in 1 .. Len(s) - k : l[i] = s[i]
       /\ r \in Seq(Text) /\ Len(r) = k /\ \A i \in 1 .. k : r[i] = s[Len(s) - k + i]
  BY <1>1, HalvesAre
<1>5. u \in Seq(Text) /\ Len(u) = n /\ \A i \in 1 .. n : u[i] = s[i]
  BY <1>1, HalvesAre
<1>6. v \in Seq(Text) /\ Len(v) = j /\ \A i \in 1 .. j : v[i] = s[n + i]
  BY <1>1, HalvesAre
<1> HIDE DEF l, r, u, v, n
<1>3. l \in Seq(Text) /\ Len(l) = n + 1 /\ \A i \in 1 .. n + 1 : l[i] = s[i]
  BY <1>1, <1>13
<1>4. r \in Seq(Text) /\ Len(r) = k /\ \A i \in 1 .. k : r[i] = s[n + 1 + i]
  BY <1>1, <1>13
<1>7. l[Len(l)] = c
  <2>1. n + 1 \in 1 .. n + 1
    BY <1>1
  <2> QED BY <1>3, <2>1
<1>8. Head(v) = c /\ v[1] = c
  <2>1. 1 \in 1 .. j
    OBVIOUS
  <2>2. v[1] = c
    BY <1>6, <2>1
  <2>3. v # << >>
    BY <1>6, EmptySeq
  <2> QED BY <1>6, <2>2, <2>3, HeadTailProperties
<1> HIDE DEF c
<1>9. L!Front(l) = u
  <2> DEFINE f == SubSeq(l, 1, n)
  <2>1. f \in Seq(Text) /\ Len(f) = n /\ \A i \in 1 .. n : f[i] = l[i]
    <3>1. n - 1 + 1 = n /\ (1 =< n \/ n = 0) /\ n =< Len(l) /\ \A i \in Int : 1 + i - 1 = i
      BY <1>1, <1>3
    <3>2. /\ SubSeq(l, 1, n) \in Seq(Text) /\ Len(SubSeq(l, 1, n)) = IF 1 =< n THEN n - 1 + 1 ELSE 0
          /\ \A i \in 1 .. n - 1 + 1 : SubSeq(l, 1, n)[i] = l[1 + i - 1]
      BY <1>1, <1>3, <3>1, PieceIs
    <3> QED BY <1>1, <3>1, <3>2
  <2>2. \A i \in 1 .. n : i \in 1 .. n + 1
    BY <1>1
  <2>3. L!Front(l) = f
    <3>1. Len(l) - 1 = n
      BY <1>1, <1>3
    <3> QED BY <3>1 DEF L!Front
  <2> HIDE DEF f
  <2>4. f = u
    BY <1>1, <1>3, <1>5, <2>1, <2>2, SeqEqual
  <2> QED BY <2>3, <2>4
<1>10. v = <<c>> \o r
  <2> DEFINE one == <<c>>
             w == one \o r
  <2>1. one \in Seq(Text) /\ Len(one) = 1 /\ one[1] = c
    BY <1>2
  <2> HIDE DEF one
  <2>2. /\ w \in Seq(Text) /\ Len(w) = Len(one) + Len(r)
        /\ \A i \in 1 .. Len(one) + Len(r) : w[i] = IF i <= Len(one) THEN one[i] ELSE r[i - Len(one)]
    BY <1>4, <2>1, ConcatProperties
  <2> HIDE DEF w
  <2>3. ASSUME NEW i \in 1 .. j
        PROVE  v[i] = w[i]
    <3>1. w[i] = IF i <= 1 THEN one[i] ELSE r[i - 1]
      BY <1>4, <2>1, <2>2
    <3>2. CASE i = 1
      BY <1>8, <2>1, <3>1, <3>2
    <3>3. CASE i # 1
      <4> DEFINE m == i - 1
      <4>1. m \in 1 .. k /\ n + 1 + m = n + i /\ ~(i <= 1)
        BY <1>1, <3>3
      <4> HIDE DEF m
      <4>2. r[m] = s[n + i]
        BY <1>4, <4>1
      <4>3. w[i] = r[m]
        BY <3>1, <4>1 DEF m
      <4> QED BY <1>6, <4>2, <4>3
    <3> QED BY <3>2, <3>3
  <2>4. v = w
    <3>1. Len(w) = j
      BY <1>4, <2>1, <2>2
    <3> QED BY <1>6, <2>2, <2>3, <3>1, SeqEqual
  <2> QED BY <2>4 DEF w, one
<1>11. l = Append(u, c)
  <2> DEFINE a == Append(u, c)
  <2>1. /\ a \in Seq(Text) /\ Len(a) = n + 1 /\ \A i \in 1 .. n : a[i] = u[i]
        /\ a[n + 1] = c
    BY <1>2, <1>5, AppendProperties
  <2> HIDE DEF a
  <2>2. ASSUME NEW i \in 1 .. n + 1
        PROVE  l[i] = a[i]
    <3>1. CASE i = n + 1
      BY <1>3, <1>7, <2>1, <3>1
    <3>2. CASE i # n + 1
      <4>1. i \in 1 .. n
        BY <1>1, <3>2
      <4> QED BY <1>3, <1>5, <2>1, <4>1
    <3> QED BY <3>1, <3>2
  <2>3. l = a
    BY <1>3, <2>1, <2>2, SeqEqual
  <2> QED BY <2>3 DEF a
<1>12. r = Tail(v)
  <2> DEFINE t == Tail(v)
  <2>1. v # << >>
    BY <1>6, EmptySeq
  <2>2. t \in Seq(Text) /\ Len(t) = Len(v) - 1 /\ \A i \in 1 .. Len(t) : t[i] = v[i + 1]
    BY <1>6, <2>1, HeadTailProperties
  <2> HIDE DEF t
  <2>3. Len(t) = k
    BY <1>6, <2>2
  <2>4. ASSUME NEW i \in 1 .. k
        PROVE  r[i] = t[i]
    <3>1. i + 1 \in 1 .. j /\ n + (i + 1) = n + 1 + i
      BY <1>1
    <3>2. t[i] = v[i + 1] /\ v[i + 1] = s[n + (i + 1)]
      BY <1>6, <2>2, <2>3, <3>1
    <3> QED BY <1>4, <3>1, <3>2
  <2>5. r = t
    BY <1>4, <2>2, <2>3, <2>4, SeqEqual
  <2> QED BY <2>5 DEF t
<1> QED BY <1>7, <1>8, <1>9, <1>10, <1>11, <1>12 DEF l, r, u, v

-----------------------------------------------------------------------------
(* The edited line: every key is one of its steps, or none.                *)

\* What the edited line is made of.
Lft == LeftOf(line, cursorPos)
Rgt == RightOf(line, cursorPos)

LEMMA LineIs ==
  ASSUME EditorInv
  PROVE  /\ line \in Seq(Text) /\ cursorPos \in Nat /\ cursorPos =< Len(line) /\ Len(line) \in Nat
         /\ Len(line) =< CmdMax - 2 /\ EditOK(Edit)
         /\ Edit.line = line /\ Edit.size = Len(line) /\ Edit.cursor = cursorPos
<1>1. line \in Seq(Text) /\ cmdSize = Len(line) /\ cmdSize =< CmdMax - 2
  BY DEF EditorInv, EditorTypeOK, Text
<1> QED BY <1>1, CurrentIs, EditIs DEF Edit

LEMMA BecomesLine ==
  ASSUME NEW e, EditOK(e), Becomes(e)
  PROVE  line' = e.line /\ cursorPos' = e.cursor
<1> DEFINE f == Live(e)
<1>1. f.line = e.line /\ f.cursor = e.cursor
  BY LiveIs
<1>2. line' = f.line /\ cursorPos' = f.cursor
  BY Zenon DEF Becomes
<1> HIDE DEF f
<1> QED BY <1>1, <1>2

LEMMA StaysMaps ==
  ASSUME line' = line, cursorPos' = cursorPos, history' = history, current' = current
  PROVE  UNCHANGED L!lineVars
BY DEF L!lineVars, From

LEMMA EditStays ==
  ASSUME EditorInv, Becomes(Edit), Keeps
  PROVE  UNCHANGED L!lineVars
<1>1. line' = line /\ cursorPos' = cursorPos
  BY LineIs, BecomesLine
<1> QED BY <1>1, StaysMaps DEF Keeps

LEMMA TypeMaps ==
  ASSUME EditorInv, NEW c \in Text, Becomes(Insert(Edit, c)), Keeps
  PROVE  L!LineNext \/ UNCHANGED L!lineVars
<1> DEFINE e == Insert(Edit, c)
<1>1. EditOK(e)
  BY LineIs, InsertIs
<1>2. line' = e.line /\ cursorPos' = e.cursor
  BY <1>1, BecomesLine
<1>3. CASE Edit.size + 2 >= CmdMax
  <2>1. e = Edit
    BY <1>3, Zenon DEF Insert
  <2> HIDE DEF e
  <2> QED BY <1>2, <2>1, LineIs, StaysMaps DEF Keeps
<1>4. CASE ~(Edit.size + 2 >= CmdMax)
  <2> DEFINE t == InsertAt(line, Len(line) - cursorPos + 1, c)
  <2>1. e.line = t /\ e.cursor = cursorPos
    <3>1. e.line = InsertAt(Edit.line, Len(Edit.line) - Edit.cursor + 1, c) /\ e.cursor = Edit.cursor
      BY <1>4 DEF Insert
    <3> QED BY <3>1, LineIs
  <2> HIDE DEF e
  <2>2. LeftOf(t, cursorPos) = Append(Lft, c) /\ RightOf(t, cursorPos) = Rgt
    BY LineIs, InsertedHalves, Zenon DEF Lft, Rgt
  <2> HIDE DEF t
  <2>3. Lft' = Append(Lft, c) /\ Rgt' = Rgt
    BY <1>2, <2>1, <2>2 DEF Lft, Rgt, LeftOf, RightOf
  <2>4. Lft \o Rgt = line /\ Len(line) < CmdMax - 2
    <3>1. Lft \o Rgt = line
      BY LineIs, HalvesMake DEF Lft, Rgt
    <3>2. Len(line) < CmdMax - 2
      BY <1>4, LineIs, CmdMaxAssumption
    <3> QED BY <3>1, <3>2
  <2>5. L!Type(c)
    BY <2>3, <2>4 DEF L!Type, L!Text, Lft, Rgt, LeftOf, RightOf, From, Keeps
  <2> QED BY <2>5 DEF L!LineNext, Text
<1> QED BY <1>3, <1>4

LEMMA EraseMaps ==
  ASSUME EditorInv, Becomes(Backspace(Edit)), Keeps
  PROVE  L!LineNext \/ UNCHANGED L!lineVars
<1> DEFINE e == Backspace(Edit)
<1>1. EditOK(e)
  BY LineIs, BackspaceIs
<1>2. line' = e.line /\ cursorPos' = e.cursor
  BY <1>1, BecomesLine
<1>3. CASE ~(Edit.size - Edit.cursor > 0)
  <2>1. e = Edit
    BY <1>3, Zenon DEF Backspace
  <2> HIDE DEF e
  <2> QED BY <1>2, <2>1, LineIs, StaysMaps DEF Keeps
<1>4. CASE Edit.size - Edit.cursor > 0
  <2> DEFINE t == RemoveAt(line, Len(line) - cursorPos)
  <2>1. e.line = t /\ e.cursor = cursorPos
    <3>1. Edit \in Edits
      BY LineIs DEF EditOK
    <3>2. e.line = RemoveAt(Edit.line, Len(Edit.line) - Edit.cursor) /\ e.cursor = Edit.cursor
      BY <1>4, <3>1 DEF Backspace, Edits
    <3> QED BY <3>2, LineIs
  <2> HIDE DEF e
  <2>2. cursorPos < Len(line)
    BY <1>4, LineIs
  <2>3. LeftOf(t, cursorPos) = L!Front(Lft) /\ RightOf(t, cursorPos) = Rgt
    BY <2>2, LineIs, RemovedHalves, Zenon DEF Lft, Rgt
  <2> HIDE DEF t
  <2>4. Lft' = L!Front(Lft) /\ Rgt' = Rgt
    BY <1>2, <2>1, <2>3 DEF Lft, Rgt, LeftOf, RightOf
  <2>5. Lft # << >>
    BY <2>2, LineIs, HalvesMake DEF Lft
  <2>6. L!Erase
    BY <2>4, <2>5 DEF L!Erase, Lft, Rgt, LeftOf, RightOf, From, Keeps
  <2> QED BY <2>6 DEF L!LineNext
<1> QED BY <1>3, <1>4

\* The item that is recalled.
LEMMA LookAtMaps ==
  ASSUME EditorInv, NEW n \in 0 .. history.count, n = current - 1 \/ n = current + 1,
         Becomes(Recall(Edit, n)), current' = n, history' = history
  PROVE  L!LineNext
<1> DEFINE item == HistoryGet(history, n)
<1>1. HistoryOK(history) /\ history.count \in Nat /\ current \in 0 .. history.count /\ n \in Nat
  BY CurrentIs
<1>2. item \in Seq(Text) /\ item = IF n = 0 THEN << >> ELSE Recent(history)[n]
  <2>1. item \in Seq(Text)
    BY <1>1, GetIs
  <2>2. n = 0 => item = << >>
    BY DEF HistoryGet
  <2>3. n # 0 => n \in 1 .. history.count
    BY <1>1
  <2> QED BY <2>1, <2>2, <2>3 DEF Recent
<1>3. line' = item /\ cursorPos' = 0
  <2>1. PICK r : EditOK(r) /\ Recall(Edit, n) = Live(r) /\ r.line = item /\ r.cursor = 0
    BY <1>1, LineIs, RecallIs
  <2>2. EditOK(Live(r)) /\ Live(r).line = r.line /\ Live(r).cursor = r.cursor
    BY <2>1, LiveIs
  <2> QED BY <2>1, <2>2, BecomesLine
<1> HIDE DEF item
<1>4. Lft' = item /\ Rgt' = << >>
  <2>1. LeftOf(item, 0) = item /\ RightOf(item, 0) = << >>
    BY <1>2, WholeIsLeft
  <2> QED BY <1>3, <2>1 DEF Lft, Rgt, LeftOf, RightOf
<1>5. Len(Recent(history)) = history.count
  BY <1>1, RecentIs
<1>6. L!LookAt(n)
  <2>1. n \in {current - 1, current + 1} \intersect 0 .. Len(Recent(history))
    BY <1>5
  <2> QED BY <1>2, <1>4, <2>1 DEF L!LookAt, Lft, Rgt, LeftOf, RightOf, From, Recent
<1>7. n \in 0 .. Len(Recent(history))
  BY <1>5
<1> QED BY <1>6, <1>7 DEF L!LineNext, Recent

LEMMA CursorMaps ==
  ASSUME EditorInv, NEW k \in Nat, line' = line, cursorPos' = k, Keeps,
         \/ k = cursorPos + 1 /\ k =< Len(line)
         \/ cursorPos = k + 1
  PROVE  L!LineNext
<1>1. CASE k = cursorPos + 1 /\ k =< Len(line)
  <2>1. /\ LeftOf(line, k) = L!Front(Lft)
        /\ RightOf(line, k) = <<Lft[Len(Lft)]>> \o Rgt
    BY <1>1, LineIs, MovedHalves, Zenon DEF Lft, Rgt
  <2>2. Lft' = L!Front(Lft) /\ Rgt' = <<Lft[Len(Lft)]>> \o Rgt
    BY <2>1 DEF Lft, Rgt, LeftOf, RightOf
  <2>3. Lft # << >>
    BY <1>1, LineIs, HalvesMake DEF Lft
  <2>4. L!CursorLeft
    BY <2>2, <2>3, Zenon DEF L!CursorLeft, Lft, Rgt, LeftOf, RightOf, From, Keeps
  <2> QED BY <2>4 DEF L!LineNext
<1>2. CASE cursorPos = k + 1
  <2>1. LeftOf(line, k) = Append(Lft, Head(Rgt)) /\ RightOf(line, k) = Tail(Rgt)
    BY <1>2, LineIs, MovedHalves, Zenon DEF Lft, Rgt
  <2>2. Lft' = Append(Lft, Head(Rgt)) /\ Rgt' = Tail(Rgt)
    BY <2>1 DEF Lft, Rgt, LeftOf, RightOf
  <2>3. Rgt # << >>
    BY <1>2, LineIs, HalvesMake DEF Rgt
  <2>4. L!CursorRight
    BY <2>2, <2>3, Zenon DEF L!CursorRight, Lft, Rgt, LeftOf, RightOf, From, Keeps
  <2> QED BY <2>4 DEF L!LineNext
<1> QED BY <1>1, <1>2

LEMMA CompleteMaps ==
  ASSUME EditorInv, Becomes(Autocomplete(Edit)), Keeps
  PROVE  L!LineNext \/ UNCHANGED L!lineVars
<1> DEFINE e == Autocomplete(Edit)
<1>1. EditOK(e)
  BY LineIs, AutocompleteIs
<1>2. line' = e.line /\ cursorPos' = e.cursor
  BY <1>1, BecomesLine
<1>3. /\ e.line = L!Completion(line)
      /\ Candidates(line) = {} => e = Edit
      /\ Candidates(line) # {} => e.cursor = 0
  BY LineIs, AutocompletedIs
<1>4. e.line \in Seq(Text)
  BY <1>1 DEF EditOK, Edits
<1> HIDE DEF e
<1>5. CASE Candidates(line) = {}
  BY <1>2, <1>3, <1>5, LineIs, StaysMaps DEF Keeps
<1>6. CASE Candidates(line) # {}
  <2>1. LeftOf(e.line, 0) = e.line /\ RightOf(e.line, 0) = << >>
    BY <1>4, WholeIsLeft
  <2>2. Lft' = L!Completion(line) /\ Rgt' = << >>
    BY <1>2, <1>3, <1>6, <2>1 DEF Lft, Rgt, LeftOf, RightOf
  <2>3. Lft \o Rgt = line
    BY LineIs, HalvesMake DEF Lft, Rgt
  <2>4. L!Matches(line) # {}
    BY <1>6, LineIs, MatchesAre
  <2>5. L!Complete
    <3>1. L!Text = line
      BY <2>3 DEF L!Text, Lft, Rgt, LeftOf, RightOf, From
    <3> QED BY <2>2, <2>4, <3>1 DEF L!Complete, Lft, Rgt, LeftOf, RightOf, From, Keeps
  <2> QED BY <2>5 DEF L!LineNext
<1> QED BY <1>5, <1>6

LEMMA SubmitMaps ==
  ASSUME EditorInv, Enter
  PROVE  L!LineNext
<1> DEFINE e == Autocomplete(Edit)
<1>1. /\ line' = << >> /\ cursorPos' = 0 /\ current' = 0
      /\ history' = IF ~IsBlank(e.line) THEN HistoryPut(history, e.line) ELSE history
  BY Zenon DEF Enter
<1>2. e.line \in Seq(Text) /\ Len(e.line) =< CmdMax - 2
  BY LineIs, AutocompleteIs DEF EditOK, Edits
<1>3. e.line = L!Completion(line)
  BY LineIs, AutocompletedIs
<1>4. HistoryOK(history)
  BY CurrentIs
<1> HIDE DEF e
<1>5. L!Remembered(e.line) = Recent(HistoryPut(history, e.line))
  BY <1>2, <1>4, RememberedIs
<1>6. IsBlank(e.line) <=> ~(\E i \in DOMAIN e.line : e.line[i] # " ")
  BY DEF IsBlank, Space
<1>7. Recent(history)' = IF \E i \in DOMAIN e.line : e.line[i] # " " THEN L!Remembered(e.line)
                         ELSE Recent(history)
  <2>1. Recent(history)' = Recent(history')
    BY DEF Recent
  <2> QED BY <1>1, <1>5, <1>6, <2>1
<1>8. Lft' = << >> /\ Rgt' = << >>
  <2>1. LeftOf(<< >>, 0) = << >> /\ RightOf(<< >>, 0) = << >>
    BY EmptySeq, WholeIsLeft
  <2> QED BY <1>1, <2>1 DEF Lft, Rgt, LeftOf, RightOf
<1>9. L!Text = line
  <2>1. Lft \o Rgt = line
    BY LineIs, HalvesMake DEF Lft, Rgt
  <2> QED BY <2>1 DEF L!Text, Lft, Rgt, LeftOf, RightOf, From
<1>10. L!Submit
  BY <1>1, <1>3, <1>7, <1>8, <1>9 DEF L!Submit, Recent, Lft, Rgt, LeftOf, RightOf, From
<1> QED BY <1>10 DEF L!LineNext

LEMMA ArrowMaps ==
  ASSUME EditorInv, NEW c, Arrow(c)
  PROVE  L!LineNext \/ UNCHANGED L!lineVars
<1>1. CASE c = "A" /\ current < history.count
  <2>1. current' = current + 1 /\ Becomes(Recall(Edit, current + 1)) /\ history' = history
    BY <1>1, Zenon DEF Arrow
  <2>2. current + 1 \in 0 .. history.count
    BY <1>1, CurrentIs
  <2> QED BY <2>1, <2>2, LookAtMaps
<1>2. CASE c = "B" /\ current > 0
  <2>1. current' = current - 1 /\ Becomes(Recall(Edit, current - 1)) /\ history' = history
    BY <1>2 DEF Arrow
  <2>2. current - 1 \in 0 .. history.count
    BY <1>2, CurrentIs
  <2> QED BY <2>1, <2>2, LookAtMaps
<1>3. CASE c = "C" /\ cursorPos > 0
  <2> DEFINE k == Edit.cursor - 1
             t == Right(Edit.term, 1)
             e == [Edit EXCEPT !.cursor = k, !.term = t]
  <2>1. Becomes(e) /\ Keeps
    BY <1>3 DEF Arrow
  <2>2. Edit \in Edits /\ Edit.term \in Screen /\ Edit.size = Len(Edit.line) /\ Edit.size =< CmdMax - 2
    BY LineIs DEF EditOK, Edits
  <2>3. k \in Nat /\ k =< Edit.size /\ cursorPos = k + 1
    BY <1>3, LineIs
  <2>4. t \in Screen
    BY <2>2, MovesAre, ZenonT(60)
  <2> HIDE DEF k, t
  <2>5. e \in Edits /\ e.line = Edit.line /\ e.size = Edit.size /\ e.cursor = k
    BY <2>2, <2>3, <2>4 DEF Edits
  <2> HIDE DEF e
  <2>6. EditOK(e)
    BY <2>2, <2>3, <2>5 DEF EditOK
  <2>7. line' = line /\ cursorPos' = k
    BY <2>1, <2>5, <2>6, BecomesLine, LineIs
  <2> QED BY <2>1, <2>3, <2>7, CursorMaps
<1>4. CASE c = "D" /\ cursorPos < Len(line)
  <2> DEFINE k == Edit.cursor + 1
             t == Left(Edit.term, 1)
             e == [Edit EXCEPT !.cursor = k, !.term = t]
  <2>1. Becomes(e) /\ Keeps
    BY <1>4 DEF Arrow
  <2>2. Edit \in Edits /\ Edit.term \in Screen /\ Edit.size = Len(Edit.line) /\ Edit.size =< CmdMax - 2
    BY LineIs DEF EditOK, Edits
  <2>3. k \in Nat /\ k =< Edit.size /\ k = cursorPos + 1 /\ k =< Len(line)
    BY <1>4, LineIs
  <2>4. t \in Screen
    BY <2>2, MovesAre, ZenonT(60)
  <2> HIDE DEF k, t
  <2>5. e \in Edits /\ e.line = Edit.line /\ e.size = Edit.size /\ e.cursor = k
    BY <2>2, <2>3, <2>4 DEF Edits
  <2> HIDE DEF e
  <2>6. EditOK(e)
    BY <2>2, <2>3, <2>5 DEF EditOK
  <2>7. line' = line /\ cursorPos' = k
    BY <2>1, <2>5, <2>6, BecomesLine, LineIs
  <2> QED BY <2>1, <2>3, <2>7, CursorMaps
<1>5. CASE /\ ~(c = "A" /\ current < history.count) /\ ~(c = "B" /\ current > 0)
           /\ ~(c = "C" /\ cursorPos > 0) /\ ~(c = "D" /\ cursorPos < Len(line))
  <2>1. Becomes(Edit) /\ Keeps
    BY <1>5 DEF Arrow
  <2> QED BY <2>1, EditStays
<1> QED BY <1>1, <1>2, <1>3, <1>4, <1>5

LEMMA ControlMaps ==
  ASSUME EditorInv, NEW c, Control(c)
  PROVE  L!LineNext \/ UNCHANGED L!lineVars
<1>1. CASE Becomes(Edit) /\ Keeps
  BY <1>1, EditStays
<1>2. CASE Enter
  BY <1>2, SubmitMaps
<1>3. CASE Becomes(Backspace(Edit)) /\ Keeps
  BY <1>3, EraseMaps
<1>4. CASE Becomes(Autocomplete(Edit)) /\ Keeps
  BY <1>4, CompleteMaps
<1> QED BY <1>1, <1>2, <1>3, <1>4, Zenon DEF Control

LEMMA KeyMaps ==
  ASSUME EditorInv, NEW c \in Char, Key(c)
  PROVE  L!LineNext \/ UNCHANGED L!lineVars
<1>1. CASE Arrow(IF c \in Final THEN c ELSE "none")
  BY <1>1, ArrowMaps
<1>2. CASE Becomes(Edit) /\ Keeps
  BY <1>2, EditStays
<1>3. CASE Control(c)
  BY <1>3, ControlMaps
<1>4. CASE c \in Letters \union {Space} /\ Becomes(Insert(Edit, c)) /\ Keeps
  <2>1. c \in Text
    BY <1>4 DEF Text
  <2> QED BY <1>4, <2>1, TypeMaps
<1>5. \/ Arrow(IF c \in Final THEN c ELSE "none")
      \/ Becomes(Edit) /\ Keeps
      \/ Control(c)
      \/ c \in Letters \union {Space} /\ Becomes(Insert(Edit, c)) /\ Keeps
  BY Zenon DEF Key
<1> QED BY <1>1, <1>2, <1>3, <1>4, <1>5

LEMMA InitMaps == Init => L!LineInit
<1> SUFFICES ASSUME Init PROVE L!LineInit
  OBVIOUS
<1>1. line = << >> /\ cursorPos = 0 /\ current = 0 /\ history.count = 0
  BY DEF Init, EmptyHistory
<1>2. LeftOf(<< >>, 0) = << >> /\ RightOf(<< >>, 0) = << >>
  BY EmptySeq, WholeIsLeft
<1>3. Lft = << >> /\ Rgt = << >>
  BY <1>1, <1>2 DEF Lft, Rgt
<1>4. HistoryOK(history)
  BY EditorInit DEF EditorInv
<1>5. Recent(history) = << >>
  BY <1>1, <1>4, RecentIs, EmptySeq
<1> QED BY <1>1, <1>3, <1>5 DEF L!LineInit, Lft, Rgt, LeftOf, RightOf, From, Recent

\* The buffers, the cursor counted from the end and the bytes of the history are
\* an edited line with the list of the commands entered last, for every table of
\* commands and every size of the buffers (embedded_cli.h 1055-1252, 1529-1599).
THEOREM EditsTheLine == Spec => ImplementsEditedLine
<1>1. Init => L!LineInit
  BY InitMaps
<1>2. EditorInv /\ [Next]_vars => [L!LineNext]_L!lineVars
  <2>1. ASSUME EditorInv, Next
        PROVE  L!LineNext \/ UNCHANGED L!lineVars
    <3>1. CASE Log
      BY <3>1, StaysMaps DEF Log
    <3> QED BY <2>1, <3>1, KeyMaps DEF Next
  <2>2. ASSUME UNCHANGED vars
        PROVE  UNCHANGED L!lineVars
    BY <2>2, StaysMaps DEF vars
  <2> QED BY <2>1, <2>2
<1> QED BY <1>1, <1>2, EditorInvariant, PTL DEF Spec, ImplementsEditedLine, L!LineSpec

-----------------------------------------------------------------------------
(* Recursive functions.                                                    *)

\* Induction, for a set of numbers.
LEMMA StepByStep ==
  ASSUME NEW n \in Nat, NEW S, 0 \in S, \A i \in 1 .. n : i - 1 \in S => i \in S
  PROVE  \A i \in 0 .. n : i \in S
<1> DEFINE Wrong == {i \in 0 .. n : i \notin S}
<1>1. SUFFICES ASSUME Wrong # {} PROVE FALSE
  BY Zenon
<1>2. PICK i \in Wrong : \A j \in Wrong : i =< j
  <2>1. Wrong \in SUBSET Nat
    OBVIOUS
  <2> HIDE DEF Wrong
  <2> QED BY <1>1, <2>1, LeastExists, Zenon
<1>3. i \in 1 .. n /\ i - 1 \in 0 .. n /\ ~(i =< i - 1)
  BY <1>2
<1> QED BY <1>2, <1>3

\* w begins with a, and each F[i] makes the next element.
Recurs(w, n, A, a, F) ==
    w \in [0 .. n -> A] /\ w[0] = a /\ \A i \in 1 .. n : w[i] = F[i][w[i - 1]]

\* A recursion over numbers defines a function.
LEMMA RecursionExists ==
  ASSUME NEW A, NEW a \in A, NEW n \in Nat, NEW F \in [1 .. n -> [A -> A]]
  PROVE  \E w : Recurs(w, n, A, a, F)
<1> DEFINE Is(m, w) == /\ w \in [0 .. m -> A] /\ w[0] = a
                       /\ \A i \in 1 .. m : w[i] = F[i][w[i - 1]]
           S == {m \in 0 .. n : \E w : Is(m, w)}
<1>1. 0 \in S
  <2> DEFINE w == [i \in 0 .. 0 |-> a]
  <2>1. Is(0, w)
    OBVIOUS
  <2> HIDE DEF Is
  <2>2. 0 \in 0 .. n
    OBVIOUS
  <2> QED BY <2>1, <2>2
<1>2. ASSUME NEW m \in 1 .. n, m - 1 \in S
      PROVE  m \in S
  <2>1. PICK w : Is(m - 1, w)
    BY <1>2
  <2> DEFINE v == [i \in 0 .. m |-> IF i = m THEN F[m][w[m - 1]] ELSE w[i]]
  <2>2. m \in Nat /\ m - 1 \in 0 .. m - 1 /\ \A i \in 0 .. m : i # m => i \in 0 .. m - 1
    OBVIOUS
  <2>3. w[m - 1] \in A
    BY <2>1, <2>2
  <2>4. F[m][w[m - 1]] \in A
    BY <2>3
  <2>5. v \in [0 .. m -> A]
    BY <2>1, <2>2, <2>4
  <2>6. v[0] = a
    BY <2>1, <2>2
  <2>7. ASSUME NEW i \in 1 .. m
        PROVE  v[i] = F[i][v[i - 1]]
    <3>1. v[i - 1] = w[i - 1] /\ i \in 0 .. m
      BY <2>2
    <3>2. CASE i = m
      BY <3>1, <3>2
    <3>3. CASE i # m
      <4>1. i \in 1 .. m - 1
        BY <2>2, <3>3
      <4> QED BY <2>1, <3>1, <3>3, <4>1
    <3> QED BY <3>2, <3>3
  <2> HIDE DEF v
  <2>8. Is(m, v)
    BY <2>5, <2>6, <2>7
  <2> HIDE DEF Is
  <2> QED BY <2>2, <2>8
<1> HIDE DEF Is
<1>3. \A m \in 1 .. n : m - 1 \in S => m \in S
  BY <1>2
<1>4. n \in S
  <2> HIDE DEF S
  <2>1. \A m \in 0 .. n : m \in S
    BY <1>1, <1>3, StepByStep
  <2> QED BY <2>1
<1>5. PICK w : Is(n, w)
  BY <1>4
<1> QED BY <1>5 DEF Is, Recurs

\* f and w begin alike and go on alike.
Alike(f, w, n) == f[0] = w[0] /\ \A i \in 1 .. n : f[i - 1] = w[i - 1] => f[i] = w[i]

\* It defines only one.
LEMMA RecursionIs ==
  ASSUME NEW n \in Nat, NEW f, NEW w, Alike(f, w, n)
  PROVE  \A i \in 0 .. n : f[i] = w[i]
<1> USE DEF Alike
<1> DEFINE S == {i \in 0 .. n : f[i] = w[i]}
<1>1. 0 \in 0 .. n /\ \A i \in 1 .. n : i \in 0 .. n
  OBVIOUS
<1>2. 0 \in S /\ \A i \in 1 .. n : i - 1 \in S => i \in S
  BY <1>1, Zenon
<1>3. \A i \in 0 .. n : i \in S
  <2> HIDE DEF S
  <2> QED BY <1>2, StepByStep
<1> QED BY <1>3

-----------------------------------------------------------------------------
(* The tokenizer, one character after the other.                           *)

Token0 == [out |-> << >>, quoted |-> FALSE, escaped |-> FALSE]
Tokenizing == [out : Seq(Byte), quoted : BOOLEAN, escaped : BOOLEAN]

\* w is what the tokenizer has after each character.
Tokenizes(s, w) ==
    /\ w \in [0 .. Len(s) -> Tokenizing] /\ w[0] = Token0
    /\ \A i \in 1 .. Len(s) : w[i] = Tokenize1(w[i - 1], s[i])

\* What a byte adds to the result.
Copied(out, c) == IF c # Nul \/ (out # << >> /\ out[Len(out)] # Nul) THEN Append(out, c) ELSE out

LEMMA CopiedIs ==
  ASSUME NEW out \in Seq(Byte), NEW c \in Byte
  PROVE  Copied(out, c) \in Seq(Byte)
BY AppendProperties DEF Copied

\* Copying a byte changes nothing but the result.
LEMMA CopyIs ==
  ASSUME NEW a \in Tokenizing, NEW c \in Byte
  PROVE  /\ Copy(a, c) \in Tokenizing /\ Copy(a, c).out = Copied(a.out, c)
         /\ Copy(a, c).quoted = a.quoted /\ Copy(a, c).escaped = a.escaped
<1>1. Copy(a, c) = [a EXCEPT !.out = Copied(a.out, c)]
  BY Zenon DEF Copy, Copied, Last
<1>2. Copied(a.out, c) \in Seq(Byte)
  BY CopiedIs DEF Tokenizing
<1> QED BY <1>1, <1>2 DEF Tokenizing

\* What one character does.
LEMMA CharacterIs ==
  ASSUME NEW a \in Tokenizing, NEW c \in Text
  PROVE  /\ Tokenize1(a, c) \in Tokenizing
         /\ Tokenize1(a, c).escaped <=> ~a.escaped /\ c = Backslash
         /\ Tokenize1(a, c).quoted <=> IF ~a.escaped /\ c = Quote THEN ~a.quoted ELSE a.quoted
         /\ Tokenize1(a, c).out =
                IF ~a.escaped /\ c = Backslash THEN a.out
                ELSE IF ~a.escaped /\ (c = Quote \/ (c = Space /\ ~a.quoted)) THEN Copied(a.out, Nul)
                ELSE Copied(a.out, c)
<1>1. c \in Byte /\ Nul \in Byte /\ a.escaped \in BOOLEAN /\ a.quoted \in BOOLEAN /\ a.out \in Seq(Byte)
  BY DEF Byte, Tokenizing
<1>2. Backslash # Quote /\ Backslash # Space /\ Quote # Space
  BY DEF Backslash, Quote, Space
<1>3. CASE a.escaped
  <2>1. Tokenize1(a, c) = [Copy(a, c) EXCEPT !.escaped = FALSE]
    BY <1>3, <1>1 DEF Tokenize1
  <2> DEFINE b == Copy(a, c)
  <2>2. b \in Tokenizing /\ b.out = Copied(a.out, c) /\ b.quoted = a.quoted
    BY <1>1, CopyIs
  <2> HIDE DEF b
  <2>3. Tokenize1(a, c) = [b EXCEPT !.escaped = FALSE]
    BY <2>1 DEF b
  <2> QED BY <1>1, <1>3, <2>2, <2>3 DEF Tokenizing
<1>4. CASE ~a.escaped /\ c = Backslash
  <2>1. Tokenize1(a, c) = [a EXCEPT !.escaped = TRUE]
    BY <1>4, <1>2 DEF Tokenize1
  <2> QED BY <1>1, <1>2, <1>4, <2>1 DEF Tokenizing
<1>5. CASE ~a.escaped /\ c = Quote
  <2> DEFINE b == [a EXCEPT !.quoted = ~@]
  <2>1. Tokenize1(a, c) = Copy(b, Nul)
    BY <1>5, <1>2 DEF Tokenize1
  <2>2. b \in Tokenizing /\ b.out = a.out /\ (b.quoted <=> ~a.quoted) /\ b.escaped = a.escaped
    BY <1>1 DEF Tokenizing
  <2> HIDE DEF b
  <2> QED BY <1>1, <1>2, <1>5, <2>1, <2>2, CopyIs
<1>6. CASE ~a.escaped /\ c = Space
  <2>1. Tokenize1(a, c) = Copy(a, IF a.quoted THEN c ELSE Nul)
    BY <1>6, <1>2 DEF Tokenize1
  <2> QED BY <1>1, <1>2, <1>6, <2>1, CopyIs
<1>7. CASE ~a.escaped /\ c \notin {Backslash, Quote, Space}
  <2>1. Tokenize1(a, c) = Copy(a, c)
    BY <1>7 DEF Tokenize1
  <2> QED BY <1>1, <1>7, <2>1, CopyIs
<1> QED BY <1>3, <1>4, <1>5, <1>6, <1>7

\* The tokenizer gets through every string.
LEMMA TokenizeRuns ==
  ASSUME NEW s \in Seq(Text)
  PROVE  \E w : Tokenizes(s, w)
<1> DEFINE n == Len(s)
           F == [i \in 1 .. n |-> [a \in Tokenizing |-> Tokenize1(a, s[i])]]
<1>1. n \in Nat /\ \A i \in 1 .. n : s[i] \in Text
  BY LenProperties, ElementOfSeq
<1>2. Token0 \in Tokenizing
  BY EmptySeq DEF Token0, Tokenizing
<1>3. \A i \in 1 .. n, a \in Tokenizing : Tokenize1(a, s[i]) \in Tokenizing
  BY <1>1, CharacterIs
<1>4. F \in [1 .. n -> [Tokenizing -> Tokenizing]]
  BY <1>3
<1>5. \A i \in 1 .. n, a \in Tokenizing : F[i][a] = Tokenize1(a, s[i])
  OBVIOUS
<1> HIDE DEF F, n
<1>6. PICK w : Recurs(w, n, Tokenizing, Token0, F)
  BY <1>1, <1>2, <1>4, RecursionExists
<1>7. \A i \in 1 .. n : w[i - 1] \in Tokenizing
  BY <1>1, <1>6 DEF Recurs
<1>8. \A i \in 1 .. n : w[i] = Tokenize1(w[i - 1], s[i])
  BY <1>5, <1>6, <1>7, Zenon DEF Recurs
<1> QED BY <1>6, <1>8 DEF Tokenizes, Recurs, n

\* Its result is what it has after the last character.
LEMMA TokenizeIs ==
  ASSUME NEW s \in Seq(Text), NEW w, Tokenizes(s, w)
  PROVE  TokenizeArgs(s) = w[Len(s)].out
<1> DEFINE n == Len(s)
           Fun(f) == [i \in 0 .. n |-> IF i = 0 THEN Token0 ELSE Tokenize1(f[i - 1], s[i])]
           f == CHOOSE f : f = Fun(f)
<1>1. n \in Nat
  BY LenProperties
<1>2. /\ w \in [0 .. n -> Tokenizing] /\ w[0] = Token0
      /\ \A i \in 1 .. n : w[i] = Tokenize1(w[i - 1], s[i])
  BY DEF Tokenizes
<1>3. w = Fun(w)
  <2>1. \A i \in 0 .. n : w[i] = IF i = 0 THEN Token0 ELSE Tokenize1(w[i - 1], s[i])
    <3> TAKE i \in 0 .. n
    <3>1. i # 0 => i \in 1 .. n
      BY <1>1
    <3> QED BY <1>2, <3>1, Zenon
  <2>2. w = [i \in 0 .. n |-> w[i]]
    BY <1>2, Zenon
  <2> QED BY <2>1, <2>2, Zenon
<1>4. f = Fun(f)
  <2> HIDE DEF Fun
  <2> QED BY <1>3, Zenon
<1>5. TokenizeArgs(s) = f[n].out
  BY Zenon DEF TokenizeArgs, Token0
<1> HIDE DEF f, n
<1>6. \A i \in 0 .. n : f[i] = IF i = 0 THEN Token0 ELSE Tokenize1(f[i - 1], s[i])
  BY <1>4, Zenon
<1>7. f[0] = w[0]
  BY <1>1, <1>2, <1>6
<1>8. \A i \in 1 .. n : f[i - 1] = w[i - 1] => f[i] = w[i]
  <2> TAKE i \in 1 .. n
  <2>1. i \in 0 .. n /\ i # 0
    BY <1>1
  <2> QED BY <1>2, <1>6, <2>1, Zenon
<1>9. \A i \in 0 .. n : f[i] = w[i]
  <2>1. Alike(f, w, n)
    BY <1>7, <1>8, Zenon DEF Alike
  <2> QED BY <1>1, <2>1, RecursionIs
<1>10. f[n] = w[n]
  BY <1>1, <1>9
<1> QED BY <1>5, <1>10 DEF n

-----------------------------------------------------------------------------
(* What the arguments mean.                                                *)

\* A backslash is active unless an active one stands in front of it.
LEMMA EscapesAre ==
  ASSUME NEW s \in Seq(Text)
  PROVE  /\ Escapes(s) \subseteq 1 .. Len(s)
         /\ \A i \in 1 .. Len(s) : i \in Escapes(s) <=> s[i] = Backslash /\ i - 1 \notin Escapes(s)
<1> DEFINE n == Len(s)
           Fun(f) == [i \in 0 .. n |-> i > 0 /\ s[i] = Backslash /\ ~f[i - 1]]
           f == CHOOSE f : f = Fun(f)
           F == [i \in 1 .. n |-> [b \in BOOLEAN |-> s[i] = Backslash /\ ~b]]
<1>1. n \in Nat /\ DOMAIN s = 1 .. n
  BY LenProperties
<1>2. F \in [1 .. n -> [BOOLEAN -> BOOLEAN]] /\ FALSE \in BOOLEAN
  OBVIOUS
<1>3. \A i \in 1 .. n, b \in BOOLEAN : F[i][b] <=> s[i] = Backslash /\ ~b
  OBVIOUS
<1>4. PICK w : Recurs(w, n, BOOLEAN, FALSE, F)
  <2> HIDE DEF F, n
  <2> QED BY <1>1, <1>2, RecursionExists
<1>5. w \in [0 .. n -> BOOLEAN] /\ ~w[0]
  BY <1>4 DEF Recurs
<1>6. \A i \in 1 .. n : w[i] <=> s[i] = Backslash /\ ~w[i - 1]
  <2> TAKE i \in 1 .. n
  <2>1. w[i - 1] \in BOOLEAN
    BY <1>1, <1>5
  <2>2. w[i] = F[i][w[i - 1]]
    BY <1>4, Zenon DEF Recurs
  <2> HIDE DEF F
  <2> QED BY <1>3, <2>1, <2>2
<1>7. \A i \in 0 .. n : w[i] \in BOOLEAN /\ (w[i] <=> i > 0 /\ s[i] = Backslash /\ ~w[i - 1])
  <2> TAKE i \in 0 .. n
  <2>1. CASE i = 0
    BY <1>1, <1>5, <2>1
  <2>2. CASE i # 0
    <3>1. i \in 1 .. n /\ i > 0
      BY <1>1, <2>2
    <3> QED BY <1>5, <1>6, <3>1
  <2> QED BY <2>1, <2>2
<1>8. \A i \in 0 .. n : w[i] = (i > 0 /\ s[i] = Backslash /\ ~w[i - 1])
  BY <1>7
<1>9. w = Fun(w)
  <2>1. w = [i \in 0 .. n |-> w[i]]
    BY <1>5, Zenon
  <2> QED BY <1>8, <2>1, Zenon
<1>10. f = Fun(f)
  <2> HIDE DEF Fun
  <2> QED BY <1>9, Zenon
<1>11. Escapes(s) = {i \in DOMAIN s : f[i]}
  BY Zenon DEF Escapes
<1> HIDE DEF f
<1>12. \A i \in 0 .. n : f[i] <=> i > 0 /\ s[i] = Backslash /\ ~f[i - 1]
  BY <1>10, Zenon
<1>13. ASSUME NEW i \in 1 .. n
       PROVE  i \in Escapes(s) <=> s[i] = Backslash /\ i - 1 \notin Escapes(s)
  <2>1. i \in DOMAIN s /\ i \in 0 .. n /\ i - 1 \in 0 .. n /\ i > 0
    BY <1>1
  <2>2. i \in Escapes(s) <=> f[i]
    BY <1>11, <2>1
  <2>3. i - 1 \in Escapes(s) <=> f[i - 1]
    <3>1. CASE i - 1 = 0
      <4>1. i - 1 \notin DOMAIN s /\ ~(i - 1 > 0)
        BY <1>1, <3>1
      <4>2. ~f[i - 1]
        BY <1>12, <2>1, <4>1
      <4> QED BY <1>11, <4>1, <4>2
    <3>2. CASE i - 1 # 0
      <4>1. i - 1 \in DOMAIN s
        BY <1>1, <3>2
      <4> QED BY <1>11, <4>1
    <3> QED BY <3>1, <3>2
  <2> QED BY <1>12, <2>1, <2>2, <2>3
<1>14. Escapes(s) \subseteq 1 .. n
  BY <1>1, <1>11
<1> QED BY <1>13, <1>14 DEF n

\* How many elements of S are less than k.
Before(S, k) == Cardinality({p \in S : p < k})

Within(S, n) == n \in Nat /\ S \in SUBSET (1 .. n)

\* Behind i there is one element more, if i is one.
LEMMA BeforeNext ==
  ASSUME NEW n, NEW S, Within(S, n), NEW i \in 1 .. n
  PROVE  /\ Before(S, i) \in Nat /\ Before(S, 1) = 0
         /\ Before(S, i + 1) = IF i \in S THEN Before(S, i) + 1 ELSE Before(S, i)
<1> DEFINE B == {p \in S : p < i}
           C == {p \in S : p < i + 1}
<1>0. i \in Int /\ n \in Nat /\ \A p \in S : p \in 1 .. n /\ p \in Int /\ p >= 1
  BY SMTT(30) DEF Within
<1>1. IsFiniteSet(B) /\ Cardinality(B) \in Nat
  <2>1. IsFiniteSet(1 .. n)
    BY <1>0, FS_Interval
  <2>2. B \in SUBSET (1 .. n)
    BY <1>0, Zenon
  <2> HIDE DEF B
  <2> QED BY <2>1, <2>2, FS_Subset, FS_CardinalityType
<1>2. Cardinality({p \in S : p < 1}) = 0
  <2>1. \A p \in S : ~(p < 1)
    BY <1>0
  <2>2. {p \in S : p < 1} = {}
    BY <2>1, Zenon
  <2> QED BY <2>2, FS_EmptySet
<1>3. Cardinality(C) = IF i \in S THEN Cardinality(B) + 1 ELSE Cardinality(B)
  <2>0. ~(i < i) /\ \A p \in S : p < i + 1 <=> p < i \/ p = i
    BY <1>0
  <2>1. CASE i \in S
    <3>1. C = B \union {i} /\ i \notin B
      <4>1. \A p : p \in C <=> p \in B \union {i}
        BY <2>0, <2>1, Zenon
      <4> QED BY <2>0, <4>1
    <3> HIDE DEF B, C
    <3> QED BY <1>1, <2>1, <3>1, FS_AddElement
  <2>2. CASE i \notin S
    <3>1. C = B
      BY <2>0, <2>2, Zenon
    <3> QED BY <2>2, <3>1
  <2> QED BY <2>1, <2>2
<1> QED BY <1>1, <1>2, <1>3 DEF Before

LEMMA PlainIs ==
  ASSUME NEW s \in Seq(Text), NEW c
  PROVE  /\ Plain(s, c) \in SUBSET (1 .. Len(s))
         /\ \A i \in 1 .. Len(s) : i \in Plain(s, c) <=> s[i] = c /\ i - 1 \notin Escapes(s)
BY LenProperties DEF Plain

\* A quote that is not escaped begins or ends a quotation.
LEMMA QuotedNext ==
  ASSUME NEW s \in Seq(Text), NEW i \in 1 .. Len(s)
  PROVE  /\ ~Quoted(s, 1)
         /\ Quoted(s, i + 1) <=> IF i \in Plain(s, Quote) THEN ~Quoted(s, i) ELSE Quoted(s, i)
<1> DEFINE n == Len(s)
           P == Plain(s, Quote)
           count(k) == Before(P, k)
<1>1. /\ count(i) \in Nat /\ count(1) = 0
      /\ count(i + 1) = IF i \in Plain(s, Quote) THEN count(i) + 1 ELSE count(i)
  <2>1. n \in Nat /\ P \in SUBSET (1 .. n) /\ i \in 1 .. n
    BY LenProperties, PlainIs
  <2> HIDE DEF n, P
  <2>2. /\ Before(P, i) \in Nat /\ Before(P, 1) = 0
        /\ Before(P, i + 1) = IF i \in P THEN Before(P, i) + 1 ELSE Before(P, i)
    <3>1. Within(P, n)
      BY <2>1 DEF Within
    <3> QED BY <2>1, <3>1, BeforeNext
  <2> QED BY <2>2 DEF P
<1>2. \A k : Quoted(s, k) <=> count(k) % 2 = 1
  BY DEF Quoted, Before
<1> HIDE DEF count
<1>3. (count(i) + 1) % 2 = 1 <=> ~(count(i) % 2 = 1)
  BY <1>1
<1>4. ~(count(1) % 2 = 1)
  BY <1>1
<1> QED BY <1>1, <1>2, <1>3, <1>4

\* The flags of the tokenizer are those of the next character.
LEMMA FlagsAre ==
  ASSUME NEW s \in Seq(Text), NEW w, Tokenizes(s, w)
  PROVE  \A i \in 0 .. Len(s) : /\ w[i].escaped <=> i \in Escapes(s)
                                /\ i < Len(s) => (w[i].quoted <=> Quoted(s, i + 1))
<1> DEFINE n == Len(s)
           S == {i \in 0 .. n : /\ w[i].escaped <=> i \in Escapes(s)
                                /\ i < n => (w[i].quoted <=> Quoted(s, i + 1))}
<1>1. n \in Nat /\ 0 \in 0 .. n /\ \A i \in 1 .. n : i \in 0 .. n /\ i - 1 \in 0 .. n /\ i - 1 < n /\ i - 1 + 1 = i
  BY LenProperties
<1>2. 0 \in S
  <2>1. ~w[0].escaped /\ ~w[0].quoted
    BY DEF Tokenizes, Token0
  <2>2. 0 \notin Escapes(s)
    BY EscapesAre
  <2>3. 0 < n => ~Quoted(s, 0 + 1)
    <3>1. 0 < n => 1 \in 1 .. n
      BY <1>1
    <3> QED BY <3>1, QuotedNext
  <2> QED BY <1>1, <2>1, <2>2, <2>3
<1>3. ASSUME NEW i \in 1 .. n, i - 1 \in S
      PROVE  i \in S
  <2>1. /\ w[i - 1] \in Tokenizing /\ s[i] \in Text /\ w[i] = Tokenize1(w[i - 1], s[i])
    BY <1>1, ElementOfSeq DEF Tokenizes
  <2>2. /\ w[i - 1].escaped <=> i - 1 \in Escapes(s)
        /\ w[i - 1].quoted <=> Quoted(s, i)
    BY <1>1, <1>3
  <2>3. /\ w[i].escaped <=> ~w[i - 1].escaped /\ s[i] = Backslash
        /\ w[i].quoted <=> IF ~w[i - 1].escaped /\ s[i] = Quote THEN ~w[i - 1].quoted ELSE w[i - 1].quoted
    BY <2>1, CharacterIs
  <2>4. w[i].escaped <=> i \in Escapes(s)
    BY <2>2, <2>3, EscapesAre
  <2>5. i \in Plain(s, Quote) <=> s[i] = Quote /\ i - 1 \notin Escapes(s)
    BY PlainIs
  <2>6. w[i].quoted <=> Quoted(s, i + 1)
    BY <2>2, <2>3, <2>5, QuotedNext
  <2> QED BY <1>1, <2>4, <2>6
<1>4. \A i \in 0 .. n : i \in S
  <2> HIDE DEF S
  <2> QED BY <1>1, <1>2, <1>3, StepByStep
<1> QED BY <1>4

\* What a character does, by its meaning.
LEMMA OutIs ==
  ASSUME NEW s \in Seq(Text), NEW w, Tokenizes(s, w), NEW i \in 1 .. Len(s)
  PROVE  /\ w[i].out \in Seq(Byte) /\ w[i - 1].out \in Seq(Byte)
         /\ i \in Escapes(s) => w[i].out = w[i - 1].out
         /\ i \in Separators(s) => w[i].out = Copied(w[i - 1].out, Nul)
         /\ i \in Parts(s) => w[i].out = Append(w[i - 1].out, s[i])
         /\ i \in Escapes(s) \/ i \in Separators(s) \/ i \in Parts(s)
<1>1. Len(s) \in Nat /\ i - 1 \in 0 .. Len(s) /\ i \in 0 .. Len(s) /\ i - 1 < Len(s) /\ i - 1 + 1 = i
  BY LenProperties
<1>2. /\ w[i - 1] \in Tokenizing /\ w[i] \in Tokenizing /\ s[i] \in Text
      /\ w[i] = Tokenize1(w[i - 1], s[i])
  BY <1>1, ElementOfSeq DEF Tokenizes
<1>3. /\ w[i - 1].escaped <=> i - 1 \in Escapes(s)
      /\ w[i - 1].quoted <=> Quoted(s, i)
  BY <1>1, FlagsAre
<1>4. w[i].out = IF i - 1 \notin Escapes(s) /\ s[i] = Backslash THEN w[i - 1].out
                 ELSE IF i - 1 \notin Escapes(s) /\ (s[i] = Quote \/ (s[i] = Space /\ ~Quoted(s, i)))
                 THEN Copied(w[i - 1].out, Nul)
                 ELSE Copied(w[i - 1].out, s[i])
  BY <1>2, <1>3, CharacterIs
<1>5. Copied(w[i - 1].out, s[i]) = Append(w[i - 1].out, s[i])
  BY <1>2, CharAssumption DEF Copied, Text
<1>6. i \in Escapes(s) <=> s[i] = Backslash /\ i - 1 \notin Escapes(s)
  BY EscapesAre
<1>7. i \in Separators(s) <=>
          i - 1 \notin Escapes(s) /\ (s[i] = Quote \/ (s[i] = Space /\ ~Quoted(s, i)))
  BY PlainIs DEF Separators
<1>8. i \in Parts(s) <=> i \notin Escapes(s) /\ i \notin Separators(s)
  BY <1>1 DEF Parts
<1>9. Backslash # Quote /\ Backslash # Space
  BY DEF Backslash, Quote, Space
<1> QED BY <1>2, <1>4, <1>5, <1>6, <1>7, <1>8, <1>9 DEF Tokenizing

-----------------------------------------------------------------------------
(* Parts of the arguments in their order.                                  *)

\* m has the elements of S from the least to the greatest.
Lists(m, S) ==
    /\ m \in Seq(Nat) /\ S = {m[a] : a \in 1 .. Len(m)}
    /\ \A a, b \in 1 .. Len(m) : a < b => m[a] < m[b]

\* A set has one such list, and InOrder is it.
LEMMA OrderIs ==
  ASSUME NEW S, NEW m, Lists(m, S)
  PROVE  InOrder(S) = m /\ Cardinality(S) = Len(m)
<1> DEFINE k == Len(m)
           First(a) == {m[b] : b \in 1 .. a}
           T == {a \in 0 .. k : IsFiniteSet(First(a)) /\ Cardinality(First(a)) = a}
           Is(i, a) == Cardinality({j \in S : j =< i}) = a
<1>1. k \in Nat /\ m \in [1 .. k -> Nat] /\ \A a \in 1 .. k : m[a] \in Nat
  BY LenProperties DEF Lists
<1>2. S = First(k) /\ \A a, b \in 1 .. k : a < b => m[a] < m[b]
  BY DEF Lists
<1> HIDE DEF k
<1>3. 0 \in T
  <2>1. First(0) = {}
    OBVIOUS
  <2> QED BY <1>1, <2>1, FS_EmptySet
<1>4. ASSUME NEW a \in 1 .. k, a - 1 \in T
      PROVE  a \in T
  <2>1. IsFiniteSet(First(a - 1)) /\ Cardinality(First(a - 1)) = a - 1
    BY <1>4
  <2>2. First(a) = First(a - 1) \union {m[a]}
    <3>1. \A b : b \in 1 .. a <=> b \in 1 .. a - 1 \/ b = a
      BY <1>1
    <3> QED BY <3>1
  <2>3. m[a] \notin First(a - 1)
    <3>1. \A b \in 1 .. a - 1 : b \in 1 .. k /\ m[b] \in Nat /\ m[b] < m[a]
      BY <1>1, <1>2
    <3>2. \A b \in 1 .. a - 1 : m[b] # m[a]
      BY <1>1, <3>1
    <3> QED BY <3>2
  <2> HIDE DEF First
  <2>4. IsFiniteSet(First(a)) /\ Cardinality(First(a)) = (a - 1) + 1
    BY <2>1, <2>2, <2>3, FS_AddElement
  <2> QED BY <1>1, <2>4
<1>5. \A a \in 0 .. k : Cardinality(First(a)) = a
  <2>1. \A a \in 0 .. k : a \in T
    <3> HIDE DEF T
    <3> QED BY <1>1, <1>3, <1>4, StepByStep
  <2> QED BY <2>1
<1>6. Cardinality(S) = k
  BY <1>1, <1>2, <1>5
<1>7. \A a \in 1 .. k : m[a] \in S /\ Is(m[a], a)
  <2> TAKE a \in 1 .. k
  <2>1. \A b \in 1 .. k : m[b] =< m[a] <=> b =< a
    <3> TAKE b \in 1 .. k
    <3>1. m[a] \in Nat /\ m[b] \in Nat /\ a \in Nat /\ b \in Nat
      BY <1>1
    <3>2. a < b => m[a] < m[b]
      BY <1>2
    <3>3. b < a => m[b] < m[a]
      BY <1>2
    <3> QED BY <3>1, <3>2, <3>3
  <2>2. {j \in S : j =< m[a]} = First(a)
    <3>1. \A b : b \in 1 .. a <=> b \in 1 .. k /\ b =< a
      BY <1>1
    <3> QED BY <1>2, <2>1, <3>1
  <2>3. a \in 0 .. k
    BY <1>1
  <2> QED BY <1>2, <1>5, <2>2, <2>3
<1>8. \A a \in 1 .. k, i \in S : Is(i, a) => i = m[a]
  <2> TAKE a \in 1 .. k, i \in S
  <2>1. PICK b \in 1 .. k : i = m[b]
    BY <1>2
  <2>2. Is(i, b)
    BY <1>7, <2>1
  <2>3. Is(i, a) => a = b
    BY <2>2
  <2> QED BY <2>1, <2>3
<1>9. \A a \in 1 .. k : (CHOOSE i \in S : Is(i, a)) = m[a]
  <2> HIDE DEF Is
  <2> QED BY <1>7, <1>8
<1>10. InOrder(S) = [a \in 1 .. k |-> CHOOSE i \in S : Is(i, a)]
  BY <1>6, Zenon DEF InOrder
<1> HIDE DEF Is
<1>11. InOrder(S) = [a \in 1 .. k |-> m[a]]
  BY <1>9, <1>10, Zenon
<1> QED BY <1>1, <1>6, <1>11 DEF k

LEMMA ListsOne ==
  ASSUME NEW i \in Nat
  PROVE  Lists(<< i >>, {i})
<1>1. << i >> \in Seq(Nat) /\ Len(<< i >>) = 1 /\ << i >>[1] = i
  OBVIOUS
<1> QED BY <1>1 DEF Lists

\* An element greater than all others goes to the end.
LEMMA ListsNext ==
  ASSUME NEW S, NEW m, Lists(m, S), NEW i \in Nat, \A j \in S : j < i
  PROVE  Lists(Append(m, i), S \union {i})
<1> DEFINE k == Len(m)
           x == Append(m, i)
<1>1. m \in Seq(Nat) /\ k \in Nat /\ S = {m[a] : a \in 1 .. k} /\ \A a, b \in 1 .. k : a < b => m[a] < m[b]
  BY LenProperties DEF Lists
<1>2. x \in Seq(Nat) /\ Len(x) = k + 1 /\ x[k + 1] = i /\ \A a \in 1 .. k : x[a] = m[a]
  BY <1>1, AppendProperties
<1> HIDE DEF k, x
<1>3. \A a : a \in 1 .. k + 1 <=> a \in 1 .. k \/ a = k + 1
  BY <1>1
<1>4. S \union {i} = {x[a] : a \in 1 .. k + 1}
  BY <1>1, <1>2, <1>3
<1>5. ASSUME NEW a \in 1 .. k + 1, NEW b \in 1 .. k + 1, a < b
      PROVE  x[a] < x[b]
  <2>1. a \in 1 .. k
    BY <1>1, <1>5
  <2>2. CASE b = k + 1
    <3>1. m[a] \in S
      BY <1>1, <2>1
    <3> QED BY <1>2, <2>1, <2>2, <3>1
  <2>3. CASE b # k + 1
    <3>1. b \in 1 .. k
      BY <1>3, <2>3
    <3> QED BY <1>1, <1>2, <1>5, <2>1, <3>1
  <2> QED BY <2>2, <2>3
<1> QED BY <1>2, <1>4, <1>5 DEF Lists, x

-----------------------------------------------------------------------------
(* What the tokenizer has made of the first characters: nothing, one       *)
(* token, perhaps with its end, or more than one.                          *)

PartsTo(s, i) == {p \in Parts(s) : p =< i}
Chars(s, m) == [a \in 1 .. Len(m) |-> s[m[a]]]

\* No character of an argument so far.
None(s, i, out) == PartsTo(s, i) = {} /\ out = << >>

\* Characters of one argument, at the positions m; it may have ended.
One(s, i, out, m) ==
    /\ Lists(m, PartsTo(s, i)) /\ Len(m) > 0
    /\ \A a \in 1 .. Len(m) : Group(s, m[a]) = Group(s, m[1])
    /\ Group(s, m[1]) =< Group(s, i + 1)
    /\ out = IF Group(s, i + 1) = Group(s, m[1]) THEN Chars(s, m) ELSE Append(Chars(s, m), Nul)

\* Characters of two, and a zero byte between tokens.
More(s, out) ==
    /\ \E a, b \in Parts(s) : Group(s, a) # Group(s, b)
    /\ \E p \in 1 .. Len(out) - 1 : out[p] = Nul

\* A separator ends the argument.
LEMMA GroupNext ==
  ASSUME NEW s \in Seq(Text), NEW i \in 1 .. Len(s)
  PROVE  /\ Group(s, i) \in Nat /\ Group(s, i + 1) \in Nat
         /\ Group(s, i + 1) = IF i \in Separators(s) THEN Group(s, i) + 1 ELSE Group(s, i)
<1> DEFINE n == Len(s)
           P == Separators(s)
<1>1. n \in Nat /\ P \in SUBSET (1 .. n) /\ i \in 1 .. n
  BY LenProperties, PlainIs DEF Separators
<1>2. \A k : Group(s, k) = Before(P, k)
  BY DEF Group, Before
<1> HIDE DEF n, P
<1>3. /\ Before(P, i) \in Nat
      /\ Before(P, i + 1) = IF i \in P THEN Before(P, i) + 1 ELSE Before(P, i)
  <2>1. Within(P, n)
    BY <1>1 DEF Within
  <2> QED BY <1>1, <2>1, BeforeNext
<1> QED BY <1>2, <1>3 DEF P

\* The next character, if it belongs to an argument, is its last so far.
LEMMA PartsNext ==
  ASSUME NEW s \in Seq(Text), NEW i \in 1 .. Len(s)
  PROVE  /\ PartsTo(s, i) = IF i \in Parts(s) THEN PartsTo(s, i - 1) \union {i} ELSE PartsTo(s, i - 1)
         /\ PartsTo(s, i) \subseteq 1 .. Len(s) /\ \A j \in PartsTo(s, i - 1) : j < i
<1>1. Len(s) \in Nat /\ \A p \in Parts(s) : p \in 1 .. Len(s) /\ p \in Int
  BY LenProperties DEF Parts
<1>2. i \in Int /\ \A p \in Parts(s) : p =< i <=> p =< i - 1 \/ p = i
  BY <1>1
<1>3. PartsTo(s, i) \subseteq 1 .. Len(s) /\ \A j \in PartsTo(s, i - 1) : j < i
  BY <1>1, <1>2 DEF PartsTo
<1>4. i \in Parts(s) => PartsTo(s, i) = PartsTo(s, i - 1) \union {i}
  <2>1. i \in Parts(s) =>
            \A p : p \in PartsTo(s, i) <=> p \in PartsTo(s, i - 1) \union {i}
    BY <1>1, <1>2 DEF PartsTo
  <2> QED BY <2>1, Zenon
<1>5. i \notin Parts(s) => PartsTo(s, i) = PartsTo(s, i - 1)
  <2>1. i \notin Parts(s) => \A p : p \in PartsTo(s, i) <=> p \in PartsTo(s, i - 1)
    BY <1>1, <1>2 DEF PartsTo
  <2> QED BY <2>1, Zenon
<1> QED BY <1>3, <1>4, <1>5

\* The characters at these positions are text.
LEMMA CharsAre ==
  ASSUME NEW s \in Seq(Text), NEW i, NEW m, Lists(m, PartsTo(s, i))
  PROVE  /\ Chars(s, m) \in Seq(Text) /\ Len(Chars(s, m)) = Len(m) /\ Len(m) \in Nat
         /\ \A a \in 1 .. Len(m) : m[a] \in 1 .. Len(s) /\ m[a] \in PartsTo(s, i)
<1>1. m \in Seq(Nat) /\ Len(m) \in Nat
  BY LenProperties DEF Lists
<1>2. \A a \in 1 .. Len(m) : m[a] \in 1 .. Len(s) /\ m[a] \in PartsTo(s, i)
  BY LenProperties DEF Lists, PartsTo, Parts
<1>3. \A a \in 1 .. Len(m) : s[m[a]] \in Text
  BY <1>2, ElementOfSeq
<1>4. Chars(s, m) \in [1 .. Len(m) -> Text]
  BY <1>3 DEF Chars
<1> QED BY <1>1, <1>2, <1>4, FunctionIsSeq

\* A character of its argument.
LEMMA PartRead ==
  ASSUME NEW s \in Seq(Text), NEW i \in 1 .. Len(s), NEW out \in Seq(Byte), i \in Parts(s),
         None(s, i - 1, out) \/ (\E m : One(s, i - 1, out, m)) \/ More(s, out)
  PROVE  LET next == Append(out, s[i])
         IN  None(s, i, next) \/ (\E m : One(s, i, next, m)) \/ More(s, next)
<1> DEFINE next == Append(out, s[i])
<1>1. i \in Nat /\ s[i] \in Text /\ s[i] \in Byte /\ i - 1 + 1 = i
  BY LenProperties, ElementOfSeq DEF Byte
<1>2. PartsTo(s, i) = PartsTo(s, i - 1) \union {i} /\ \A j \in PartsTo(s, i - 1) : j < i
  BY PartsNext
<1>3. Group(s, i + 1) = Group(s, i) /\ Group(s, i) \in Nat
  BY GroupNext DEF Parts
<1>4. next \in Seq(Byte) /\ Len(next) = Len(out) + 1 /\ Len(out) \in Nat
      /\ next[Len(out) + 1] = s[i] /\ \A p \in 1 .. Len(out) : next[p] = out[p]
  BY <1>1, AppendProperties, LenProperties
<1>5. CASE None(s, i - 1, out)
  <2>1. Lists(<< i >>, PartsTo(s, i))
    BY <1>1, <1>2, <1>5, ListsOne DEF None
  <2>2. Len(<< i >>) = 1 /\ << i >>[1] = i
    OBVIOUS
  <2>3. Chars(s, << i >>) = << s[i] >>
    <3>1. Chars(s, << i >>) = [a \in 1 .. 1 |-> s[i]]
      BY <2>2 DEF Chars
    <3> QED BY <3>1
  <2>4. next = << s[i] >>
    BY <1>5 DEF None
  <2>5. One(s, i, next, << i >>)
    BY <1>3, <2>1, <2>2, <2>3, <2>4 DEF One
  <2> QED BY <2>5
<1>6. ASSUME NEW m, One(s, i - 1, out, m)
      PROVE  (\E x : One(s, i, next, x)) \/ More(s, next)
  <2> DEFINE x == Append(m, i)
             g == Group(s, m[1])
  <2>1. /\ Lists(m, PartsTo(s, i - 1)) /\ Len(m) > 0
        /\ \A a \in 1 .. Len(m) : Group(s, m[a]) = g
        /\ g =< Group(s, i)
        /\ out = IF Group(s, i) = g THEN Chars(s, m) ELSE Append(Chars(s, m), Nul)
    BY <1>1, <1>6 DEF One
  <2>2. m \in Seq(Nat) /\ Len(m) \in Nat
    BY <2>1, LenProperties DEF Lists
  <2>3. /\ Chars(s, m) \in Seq(Text) /\ Len(Chars(s, m)) = Len(m)
        /\ \A a \in 1 .. Len(m) : m[a] \in 1 .. Len(s) /\ m[a] \in PartsTo(s, i - 1)
    BY <2>1, CharsAre
  <2>4. CASE Group(s, i) = g
    <3>1. x \in Seq(Nat) /\ Len(x) = Len(m) + 1 /\ x[Len(m) + 1] = i /\ \A a \in 1 .. Len(m) : x[a] = m[a]
      BY <1>1, <2>2, AppendProperties
    <3>2. Lists(x, PartsTo(s, i))
      BY <1>1, <1>2, <2>1, ListsNext
    <3> HIDE DEF x
    <3>3. Chars(s, x) \in Seq(Text) /\ Len(Chars(s, x)) = Len(m) + 1
      BY <3>1, <3>2, CharsAre
    <3>4. \A a \in 1 .. Len(m) + 1 : Chars(s, x)[a] = s[x[a]]
      BY <3>1 DEF Chars
    <3>5. \A a \in 1 .. Len(m) : Chars(s, m)[a] = s[m[a]]
      BY DEF Chars
    <3>6. /\ Append(Chars(s, m), s[i]) \in Seq(Text) /\ Len(Append(Chars(s, m), s[i])) = Len(m) + 1
          /\ Append(Chars(s, m), s[i])[Len(m) + 1] = s[i]
          /\ \A a \in 1 .. Len(m) : Append(Chars(s, m), s[i])[a] = Chars(s, m)[a]
      BY <1>1, <2>3, AppendProperties
    <3>7. \A a \in 1 .. Len(m) + 1 : a \in 1 .. Len(m) \/ a = Len(m) + 1
      BY <2>2
    <3>8. \A a \in 1 .. Len(m) + 1 : Append(Chars(s, m), s[i])[a] = Chars(s, x)[a]
      BY <3>1, <3>4, <3>5, <3>6, <3>7
    <3>9. Append(Chars(s, m), s[i]) = Chars(s, x)
      BY <3>3, <3>6, <3>8, SeqEqual
    <3>10. next = Chars(s, x)
      BY <2>1, <2>4, <3>9
    <3>11. 1 \in 1 .. Len(m) /\ x[1] = m[1]
      BY <2>1, <2>2, <3>1
    <3>12. \A a \in 1 .. Len(x) : Group(s, x[a]) = Group(s, x[1])
      BY <2>1, <2>4, <3>1, <3>7, <3>11
    <3>13. Group(s, i + 1) = Group(s, x[1])
      BY <1>3, <2>4, <3>11
    <3> HIDE DEF next
    <3>14. Len(x) > 0 /\ Group(s, x[1]) =< Group(s, i + 1)
      BY <1>3, <2>2, <3>1, <3>13
    <3>15. One(s, i, next, x)
      BY <3>2, <3>10, <3>12, <3>13, <3>14 DEF One
    <3> QED BY <3>15
  <2>5. CASE Group(s, i) # g
    <3>1. m[1] \in Parts(s)
      BY <2>1, <2>2, <2>3 DEF PartsTo
    <3>2. out = Append(Chars(s, m), Nul)
      BY <2>1, <2>5
    <3>3. Chars(s, m) \in Seq(Byte) /\ Nul \in Byte
      BY <2>3, SeqMonotonic DEF Byte
    <3>4. Len(out) = Len(m) + 1 /\ out[Len(m) + 1] = Nul
      BY <2>3, <3>2, <3>3, AppendProperties
    <3> HIDE DEF next
    <3>5. Len(m) + 1 \in 1 .. Len(next) - 1 /\ next[Len(m) + 1] = Nul
      BY <1>4, <2>2, <3>4
    <3> QED BY <2>5, <3>1, <3>5 DEF More
  <2> QED BY <2>4, <2>5
<1>7. CASE More(s, out)
  <2> HIDE DEF next
  <2>1. \A p \in 1 .. Len(out) - 1 : p \in 1 .. Len(next) - 1 /\ next[p] = out[p]
    BY <1>4
  <2> QED BY <1>7, <2>1 DEF More
<1> QED BY <1>5, <1>6, <1>7

\* The end of an argument, if one has begun.
LEMMA SeparatorRead ==
  ASSUME NEW s \in Seq(Text), NEW i \in 1 .. Len(s), NEW out \in Seq(Byte), i \in Separators(s),
         None(s, i - 1, out) \/ (\E m : One(s, i - 1, out, m)) \/ More(s, out)
  PROVE  LET next == Copied(out, Nul)
         IN  None(s, i, next) \/ (\E m : One(s, i, next, m)) \/ More(s, next)
<1> DEFINE next == Copied(out, Nul)
<1>1. i \in Nat /\ Nul \in Byte /\ i - 1 + 1 = i
  BY LenProperties DEF Byte
<1>2. PartsTo(s, i) = PartsTo(s, i - 1)
  BY PartsNext DEF Parts
<1>3. Group(s, i + 1) = Group(s, i) + 1 /\ Group(s, i) \in Nat
  BY GroupNext
<1>4. next = IF out # << >> /\ out[Len(out)] # Nul THEN Append(out, Nul) ELSE out
  BY DEF Copied
<1> HIDE DEF next
<1>5. ASSUME None(s, i - 1, out)
      PROVE  None(s, i, next)
  BY <1>2, <1>4, <1>5 DEF None
<1>6. ASSUME NEW m, One(s, i - 1, out, m)
      PROVE  One(s, i, next, m)
  <2> DEFINE g == Group(s, m[1])
             cs == Chars(s, m)
  <2>1. /\ Lists(m, PartsTo(s, i - 1)) /\ Len(m) > 0
        /\ \A a \in 1 .. Len(m) : Group(s, m[a]) = g
        /\ g =< Group(s, i)
        /\ out = IF Group(s, i) = g THEN cs ELSE Append(cs, Nul)
    BY <1>1, <1>6 DEF One
  <2>2. cs \in Seq(Text) /\ Len(cs) = Len(m) /\ Len(m) \in Nat
    BY <2>1, CharsAre
  <2>3. cs \in Seq(Byte) /\ Len(cs) \in 1 .. Len(cs)
    BY <2>1, <2>2, SeqMonotonic DEF Byte
  <2>4. cs[Len(cs)] # Nul /\ cs # << >>
    <3>1. cs[Len(cs)] \in Text
      BY <2>2, <2>3, ElementOfSeq
    <3>2. cs # << >>
      BY <2>1, <2>2, EmptySeq
    <3> QED BY <3>1, <3>2, CharAssumption DEF Text
  <2>5. /\ Append(cs, Nul) \in Seq(Byte) /\ Len(Append(cs, Nul)) = Len(cs) + 1
        /\ Append(cs, Nul)[Len(cs) + 1] = Nul
    BY <1>1, <2>3, AppendProperties
  <2>6. next = Append(cs, Nul)
    BY <1>4, <2>1, <2>4, <2>5
  <2>7. 1 \in 1 .. Len(m) /\ m[1] \in 1 .. Len(s)
    BY <2>1, <2>2, CharsAre
  <2>8. g \in Nat
    BY <2>7, GroupNext
  <2>9. Group(s, i + 1) # g /\ g =< Group(s, i + 1)
    <3> HIDE DEF g
    <3> QED BY <1>3, <2>1, <2>8
  <2> QED BY <1>2, <2>1, <2>6, <2>9 DEF One
<1>7. ASSUME More(s, out)
      PROVE  More(s, next)
  <2>1. Len(out) \in Nat
    BY LenProperties
  <2>2. \A p \in 1 .. Len(out) - 1 : p \in 1 .. Len(next) - 1 /\ next[p] = out[p]
    <3>1. CASE next = out
      BY <3>1
    <3>2. CASE next = Append(out, Nul)
      <4>1. Len(next) = Len(out) + 1 /\ \A p \in 1 .. Len(out) : next[p] = out[p]
        BY <1>1, <3>2, AppendProperties
      <4> QED BY <2>1, <4>1
    <3> QED BY <1>4, <3>1, <3>2
  <2> QED BY <1>7, <2>2 DEF More
<1>8. None(s, i, next) \/ (\E m : One(s, i, next, m)) \/ More(s, next)
  BY <1>5, <1>6, <1>7
<1> QED BY <1>8 DEF next

\* A backslash that is not part of an argument.
LEMMA EscapeRead ==
  ASSUME NEW s \in Seq(Text), NEW i \in 1 .. Len(s), NEW out \in Seq(Byte), i \in Escapes(s),
         None(s, i - 1, out) \/ (\E m : One(s, i - 1, out, m)) \/ More(s, out)
  PROVE  None(s, i, out) \/ (\E m : One(s, i, out, m)) \/ More(s, out)
<1>1. i - 1 + 1 = i
  BY LenProperties
<1>2. PartsTo(s, i) = PartsTo(s, i - 1)
  BY PartsNext DEF Parts
<1>3. Group(s, i + 1) = Group(s, i)
  <2>1. i \notin Separators(s)
    <3>1. s[i] = Backslash
      BY EscapesAre
    <3>2. Backslash # Quote /\ Backslash # Space
      BY DEF Backslash, Quote, Space
    <3> QED BY <3>1, <3>2, PlainIs DEF Separators
  <2> QED BY <2>1, GroupNext
<1> QED BY <1>1, <1>2, <1>3 DEF None, One

\* After the last character one of the three holds as well.
LEMMA ArgumentsRead ==
  ASSUME NEW s \in Seq(Text)
  PROVE  LET out == TokenizeArgs(s)
         IN  /\ out \in Seq(Byte)
             /\ None(s, Len(s), out) \/ (\E m : One(s, Len(s), out, m)) \/ More(s, out)
<1> DEFINE n == Len(s)
           Good(i, out) == None(s, i, out) \/ (\E m : One(s, i, out, m)) \/ More(s, out)
<1>1. n \in Nat
  BY LenProperties
<1>2. PICK w : Tokenizes(s, w)
  BY TokenizeRuns
<1> DEFINE S == {i \in 0 .. n : Good(i, w[i].out)}
<1>3. 0 \in S
  <2>1. w[0].out = << >>
    BY <1>2 DEF Tokenizes, Token0
  <2>2. PartsTo(s, 0) = {}
    <3>1. \A p \in Parts(s) : p \in Int /\ p >= 1
      BY LenProperties DEF Parts
    <3> QED BY <3>1 DEF PartsTo
  <2> QED BY <1>1, <2>1, <2>2 DEF None
<1>4. ASSUME NEW i \in 1 .. n, i - 1 \in S
      PROVE  i \in S
  <2>1. Good(i - 1, w[i - 1].out)
    BY <1>4
  <2>2. /\ w[i].out \in Seq(Byte) /\ w[i - 1].out \in Seq(Byte)
        /\ i \in Escapes(s) => w[i].out = w[i - 1].out
        /\ i \in Separators(s) => w[i].out = Copied(w[i - 1].out, Nul)
        /\ i \in Parts(s) => w[i].out = Append(w[i - 1].out, s[i])
        /\ i \in Escapes(s) \/ i \in Separators(s) \/ i \in Parts(s)
    BY <1>2, OutIs
  <2>3. i \in 0 .. n
    BY <1>1
  <2>4. CASE i \in Escapes(s)
    BY <2>1, <2>2, <2>3, <2>4, EscapeRead
  <2>5. CASE i \in Separators(s)
    BY <2>1, <2>2, <2>3, <2>5, SeparatorRead
  <2>6. CASE i \in Parts(s)
    BY <2>1, <2>2, <2>3, <2>6, PartRead
  <2> QED BY <2>2, <2>4, <2>5, <2>6
<1>5. n \in S
  <2>1. \A i \in 0 .. n : i \in S
    <3> HIDE DEF S
    <3> QED BY <1>1, <1>3, <1>4, StepByStep
  <2>2. n \in 0 .. n
    BY <1>1
  <2> QED BY <2>1, <2>2
<1>6. w[n] \in Tokenizing
  BY <1>1, <1>2 DEF Tokenizes
<1>7. TokenizeArgs(s) = w[n].out
  BY <1>2, TokenizeIs
<1> QED BY <1>5, <1>6, <1>7 DEF Tokenizing

-----------------------------------------------------------------------------
(* The tokens are the arguments, if there is one.                          *)

LEMMA MinIs ==
  ASSUME NEW I \in SUBSET Int, NEW i \in I, \A j \in I : i =< j
  PROVE  Min(I) = i
<1>1. \A x \in I : (\A j \in I : x =< j) => x = i
  OBVIOUS
<1>2. (CHOOSE x \in I : \A j \in I : x =< j) = i
  BY <1>1
<1> QED BY <1>2, Zenon DEF Min

\* The first token ends before its zero byte, or with the result.
LEMMA FirstTokenIs ==
  ASSUME NEW cs \in Seq(Text), NEW out, out = cs \/ out = Append(cs, Nul)
  PROVE  FirstToken(out) = cs
<1> DEFINE n == Len(cs)
           long == out \o << Nul >>
           I == {i \in 1 .. Len(long) : long[i] = Nul}
<1>1. cs \in Seq(Byte) /\ Nul \in Byte /\ n \in Nat /\ \A i \in 1 .. n : cs[i] # Nul
  <2>1. \A i \in 1 .. n : cs[i] \in Text
    BY ElementOfSeq
  <2> QED BY <2>1, LenProperties, SeqMonotonic, CharAssumption DEF Byte, Text
<1> HIDE DEF n
<1>2. /\ out \in Seq(Byte) /\ Len(out) >= n /\ Len(out) \in Nat
      /\ \A i \in 1 .. n : out[i] = cs[i]
      /\ Len(out) > n => Len(out) = n + 1 /\ out[n + 1] = Nul
  <2>1. CASE out = cs
    BY <1>1, <2>1 DEF n
  <2>2. CASE out = Append(cs, Nul)
    <3>1. /\ out \in Seq(Byte) /\ Len(out) = n + 1 /\ out[n + 1] = Nul
          /\ \A i \in 1 .. n : out[i] = cs[i]
      BY <1>1, <2>2, AppendProperties DEF n
    <3> QED BY <1>1, <3>1
  <2> QED BY <2>1, <2>2
<1>3. << Nul >> \in Seq(Byte) /\ Len(<< Nul >>) = 1 /\ << Nul >>[1] = Nul
  BY <1>1
<1>4. /\ long \in Seq(Byte) /\ Len(long) = Len(out) + 1
      /\ \A i \in 1 .. Len(out) + 1 :
             long[i] = IF i <= Len(out) THEN out[i] ELSE << Nul >>[i - Len(out)]
  BY <1>2, <1>3, ConcatProperties
<1> HIDE DEF long
<1>5. long[n + 1] = Nul
  <2>1. n + 1 \in 1 .. Len(out) + 1
    BY <1>1, <1>2
  <2>2. CASE Len(out) > n
    <3>1. long[n + 1] = out[n + 1]
      BY <1>1, <1>2, <1>4, <2>1, <2>2
    <3> QED BY <1>2, <2>2, <3>1
  <2>3. CASE ~(Len(out) > n)
    <3>1. Len(out) = n /\ n + 1 - Len(out) = 1 /\ ~(n + 1 <= Len(out))
      BY <1>1, <1>2, <2>3
    <3> QED BY <1>3, <1>4, <2>1, <3>1
  <2> QED BY <2>2, <2>3
<1>6. \A i \in 1 .. n : long[i] # Nul
  <2> TAKE i \in 1 .. n
  <2>1. i \in 1 .. Len(out) + 1 /\ i <= Len(out)
    BY <1>1, <1>2
  <2>2. long[i] = out[i]
    BY <1>4, <2>1
  <2> QED BY <1>1, <1>2, <2>2
<1>7. n + 1 \in I /\ I \in SUBSET Int /\ \A j \in I : n + 1 =< j
  BY <1>1, <1>2, <1>4, <1>5, <1>6
<1>8. Min(I) = n + 1
  <2> HIDE DEF I
  <2> QED BY <1>7, MinIs
<1>9. SelectInSeq(long, LAMBDA c : c = Nul) = n + 1
  <2>1. SelectInSeq(long, LAMBDA c : c = Nul) = IF I # {} THEN Min(I) ELSE 0
    BY DEF SelectInSeq
  <2> HIDE DEF I
  <2> QED BY <1>7, <1>8, <2>1
<1>10. FirstToken(out) = SubSeq(out, 1, n)
  <2>1. FirstToken(out) = SubSeq(out, 1, (n + 1) - 1)
    BY <1>9, Zenon DEF FirstToken, long
  <2>2. (n + 1) - 1 = n
    BY <1>1
  <2> QED BY <2>1, <2>2
<1>11. /\ SubSeq(out, 1, n) \in Seq(Byte) /\ Len(SubSeq(out, 1, n)) = n
       /\ \A i \in 1 .. n : SubSeq(out, 1, n)[i] = out[i]
  <2>1. /\ SubSeq(out, 1, n) \in Seq(Byte)
        /\ Len(SubSeq(out, 1, n)) = IF 1 =< n THEN n - 1 + 1 ELSE 0
        /\ \A i \in 1 .. n - 1 + 1 : SubSeq(out, 1, n)[i] = out[1 + i - 1]
    BY <1>1, <1>2, PieceIs
  <2>2. n - 1 + 1 = n /\ \A i \in 1 .. n : 1 + i - 1 = i
    BY <1>1
  <2> QED BY <1>1, <2>1, <2>2
<1>12. SubSeq(out, 1, n) = cs
  BY <1>1, <1>2, <1>11, SeqEqual DEF n
<1> QED BY <1>10, <1>12

\* There are as many arguments as groups.
LEMMA ArgumentsLen ==
  ASSUME NEW s \in Seq(Text)
  PROVE  LET of == {Group(s, i) : i \in Parts(s)}
         IN  /\ IsFiniteSet(of) /\ Cardinality(of) \in Nat
             /\ Len(Arguments(s)) = Cardinality(of)
<1> DEFINE of == {Group(s, i) : i \in Parts(s)}
           groups == InOrder(of)
           members(g) == InOrder({i \in Parts(s) : Group(s, i) = g})
           arg(k) == [j \in DOMAIN members(groups[k]) |-> s[members(groups[k])[j]]]
           N == Cardinality(of)
<1>1. IsFiniteSet(of)
  <2> DEFINE n == Len(s)
  <2>1. n \in Nat /\ Separators(s) \in SUBSET (1 .. n)
    BY LenProperties, PlainIs DEF Separators
  <2> HIDE DEF n
  <2>2. IsFiniteSet(1 .. n) /\ Cardinality(1 .. n) = n /\ IsFiniteSet(0 .. n)
    BY <2>1, FS_Interval
  <2>3. ASSUME NEW i \in Parts(s)
        PROVE  Group(s, i) \in 0 .. n
    <3> DEFINE B == {p \in Separators(s) : p < i}
    <3>1. B \in SUBSET (1 .. n)
      BY <2>1
    <3> HIDE DEF B
    <3>2. IsFiniteSet(B) /\ Cardinality(B) =< n
      BY <2>2, <3>1, FS_Subset
    <3>3. Cardinality(B) \in 0 .. n
      BY <2>1, <3>2, FS_CardinalityType
    <3> QED BY <3>3 DEF Group, B
  <2>4. of \in SUBSET (0 .. n)
    BY <2>3
  <2> HIDE DEF of
  <2> QED BY <2>2, <2>4, FS_Subset
<1>2. N \in Nat
  <2> HIDE DEF of
  <2> QED BY <1>1, FS_CardinalityType
<1>3. DOMAIN groups = 1 .. N
  BY Zenon DEF InOrder
<1>4. Arguments(s) = [k \in DOMAIN groups |-> arg(k)]
  BY Zenon DEF Arguments
<1> HIDE DEF groups, arg, N
<1> DEFINE R == {arg(k) : k \in 1 .. N}
<1>5. Arguments(s) \in [1 .. N -> R]
  BY <1>3, <1>4
<1>6. Len(Arguments(s)) = N
  <2> HIDE DEF R
  <2> QED BY <1>2, <1>5, FunctionIsSeq
<1> QED BY <1>1, <1>2, <1>6 DEF N

\* If there is one group, all characters of the arguments are in it.
LEMMA ArgumentIs ==
  ASSUME NEW s \in Seq(Text), NEW m, NEW g \in Nat, Lists(m, Parts(s)), Len(m) > 0,
         \A i \in Parts(s) : Group(s, i) = g
  PROVE  Len(Arguments(s)) = 1 /\ Arguments(s)[1] = Chars(s, m)
<1> DEFINE of == {Group(s, i) : i \in Parts(s)}
           groups == InOrder(of)
           members(k) == InOrder({i \in Parts(s) : Group(s, i) = k})
           arg(k) == [j \in DOMAIN members(groups[k]) |-> s[members(groups[k])[j]]]
<1>1. m \in Seq(Nat) /\ Len(m) \in Nat /\ DOMAIN m = 1 .. Len(m)
  BY LenProperties DEF Lists
<1>2. m[1] \in Parts(s)
  BY <1>1 DEF Lists
<1>3. of = {g}
  BY <1>2
<1>4. Lists(<< g >>, {g}) /\ Len(<< g >>) = 1 /\ << g >>[1] = g /\ DOMAIN << g >> = 1 .. 1
  BY ListsOne
<1>5. groups = << g >>
  <2>1. InOrder({g}) = << g >>
    BY <1>4, OrderIs
  <2> QED BY <1>3, <2>1, Zenon
<1>6. members(g) = m
  <2>1. {i \in Parts(s) : Group(s, i) = g} = Parts(s)
    OBVIOUS
  <2>2. InOrder(Parts(s)) = m
    BY OrderIs
  <2> QED BY <2>1, <2>2, Zenon
<1>7. Arguments(s) = [k \in DOMAIN groups |-> arg(k)]
  BY Zenon DEF Arguments
<1>8. members(groups[1]) = m
  BY <1>4, <1>5, <1>6, Zenon
<1> HIDE DEF members, groups
<1>9. arg(1) = [j \in 1 .. Len(m) |-> s[m[j]]]
  BY <1>1, <1>8, Zenon
<1> HIDE DEF arg
<1>10. Arguments(s) = [k \in 1 .. 1 |-> arg(k)]
  BY <1>4, <1>5, <1>7, Zenon
<1>11. Arguments(s)[1] = Chars(s, m)
  BY <1>9, <1>10 DEF Chars
<1>12. Len(Arguments(s)) = 1
  <2>1. Arguments(s) \in [1 .. 1 -> {arg(1)}]
    BY <1>10
  <2> QED BY <2>1, FunctionIsSeq
<1> QED BY <1>11, <1>12

\* If there is one argument, it is the only token.
LEMMA TokensAre ==
  ASSUME NEW s \in Seq(Text)
  PROVE  /\ TokenCount(TokenizeArgs(s)) = 1 <=> Len(Arguments(s)) = 1
         /\ TokenCount(TokenizeArgs(s)) = 1 =>
                /\ FirstToken(TokenizeArgs(s)) = Arguments(s)[1]
                /\ Arguments(s)[1] \in Seq(Text) /\ Arguments(s)[1] # << >>
<1> DEFINE n == Len(s)
           out == TokenizeArgs(s)
           of == {Group(s, i) : i \in Parts(s)}
           ends == {p \in 1 .. Len(out) - 1 : out[p] = Nul}
<1>1. out \in Seq(Byte) /\ (None(s, n, out) \/ (\E m : One(s, n, out, m)) \/ More(s, out))
  BY ArgumentsRead
<1>2. IsFiniteSet(of) /\ Cardinality(of) \in Nat /\ Len(Arguments(s)) = Cardinality(of)
  BY ArgumentsLen
<1>3. PartsTo(s, n) = Parts(s)
  <2>1. \A p \in Parts(s) : p =< n
    BY LenProperties DEF Parts
  <2> QED BY <2>1 DEF PartsTo
<1>4. TokenCount(out) = IF out = << >> THEN 0 ELSE 1 + Cardinality(ends)
  BY Zenon DEF TokenCount
<1>5. IsFiniteSet(ends) /\ Len(out) \in Nat
  <2>1. Len(out) \in Nat
    BY <1>1, LenProperties
  <2> HIDE DEF out
  <2>2. IsFiniteSet(1 .. Len(out) - 1)
    BY <2>1, FS_Interval
  <2>3. ends \in SUBSET (1 .. Len(out) - 1)
    OBVIOUS
  <2> HIDE DEF ends
  <2> QED BY <2>1, <2>2, <2>3, FS_Subset
<1> HIDE DEF out, n
<1>6. CASE None(s, n, out)
  <2>1. Parts(s) = {} /\ out = << >>
    BY <1>3, <1>6 DEF None
  <2>2. of = {}
    BY <2>1
  <2>3. Cardinality(of) = 0
    BY <2>2, FS_EmptySet
  <2>4. Len(Arguments(s)) = 0 /\ TokenCount(out) = 0
    BY <1>2, <1>4, <2>1, <2>3
  <2> QED BY <2>4 DEF out
<1>7. ASSUME NEW m, One(s, n, out, m)
      PROVE  /\ TokenCount(out) = 1 /\ Len(Arguments(s)) = 1
             /\ FirstToken(out) = Arguments(s)[1]
             /\ Arguments(s)[1] \in Seq(Text) /\ Arguments(s)[1] # << >>
  <2> DEFINE cs == Chars(s, m)
             g == Group(s, m[1])
  <2>1. /\ Lists(m, Parts(s)) /\ Len(m) > 0 /\ \A a \in 1 .. Len(m) : Group(s, m[a]) = g
        /\ out = cs \/ out = Append(cs, Nul)
    BY <1>3, <1>7 DEF One
  <2>2. /\ cs \in Seq(Text) /\ Len(cs) = Len(m) /\ Len(m) \in Nat
        /\ \A a \in 1 .. Len(m) : m[a] \in 1 .. Len(s)
    BY <1>3, <2>1, CharsAre
  <2>3. g \in Nat
    <3>1. m[1] \in 1 .. Len(s)
      BY <2>1, <2>2
    <3> QED BY <3>1, GroupNext
  <2>4. \A i \in Parts(s) : Group(s, i) = g
    BY <2>1 DEF Lists
  <2> HIDE DEF g
  <2>5. Len(Arguments(s)) = 1 /\ Arguments(s)[1] = cs
    BY <2>1, <2>3, <2>4, ArgumentIs
  <2> HIDE DEF cs
  <2>6. FirstToken(out) = cs
    BY <2>1, <2>2, FirstTokenIs
  <2>7. cs # << >> /\ out # << >>
    <3>1. cs # << >>
      BY <2>1, <2>2, EmptySeq
    <3>2. cs \in Seq(Byte) /\ Nul \in Byte
      BY <2>2, SeqMonotonic DEF Byte
    <3>3. Len(Append(cs, Nul)) = Len(cs) + 1
      BY <3>2, AppendProperties
    <3>4. Append(cs, Nul) # << >>
      <4> DEFINE x == Append(cs, Nul)
      <4>1. Len(x) = Len(m) + 1 /\ Len(<< >>) = 0
        BY <2>2, <3>3, EmptySeq
      <4> HIDE DEF x
      <4>2. x # << >>
        BY <2>2, <4>1
      <4> QED BY <4>2 DEF x
    <3> QED BY <2>1, <3>1, <3>4
  <2>8. ends = {}
    <3>1. \A i \in 1 .. Len(cs) : cs[i] # Nul
      <4>1. \A i \in 1 .. Len(cs) : cs[i] \in Text
        BY <2>2, ElementOfSeq
      <4> QED BY <4>1, CharAssumption DEF Text
    <3>2. CASE out = cs
      <4>1. \A p \in 1 .. Len(out) - 1 : p \in 1 .. Len(cs)
        BY <2>2, <3>2
      <4> QED BY <3>1, <3>2, <4>1
    <3>3. CASE out = Append(cs, Nul)
      <4>1. cs \in Seq(Byte) /\ Nul \in Byte
        BY <2>2, SeqMonotonic DEF Byte
      <4>2. Len(out) = Len(cs) + 1 /\ \A i \in 1 .. Len(cs) : out[i] = cs[i]
        BY <3>3, <4>1, AppendProperties
      <4>3. \A p \in 1 .. Len(out) - 1 : p \in 1 .. Len(cs)
        BY <2>2, <4>2
      <4> QED BY <3>1, <4>2, <4>3
    <3> QED BY <2>1, <3>2, <3>3
  <2>9. TokenCount(out) = 1
    <3>1. Cardinality(ends) = 0
      BY <2>8, FS_EmptySet
    <3> QED BY <1>4, <2>7, <3>1
  <2> QED BY <2>2, <2>5, <2>6, <2>7, <2>9
<1>8. CASE More(s, out)
  <2>1. Cardinality(of) # 1
    <3>1. PICK a \in Parts(s), b \in Parts(s) : Group(s, a) # Group(s, b)
      BY <1>8 DEF More
    <3>2. Group(s, a) \in of /\ Group(s, b) \in of
      OBVIOUS
    <3> HIDE DEF of
    <3>3. ~ \E x : of = {x}
      BY <3>1, <3>2
    <3> QED BY <1>2, <3>3, FS_Singleton
  <2>2. TokenCount(out) # 1
    <3>1. ends # {} /\ out # << >>
      <4>1. PICK p \in 1 .. Len(out) - 1 : out[p] = Nul
        BY <1>8 DEF More
      <4>2. out # << >>
        BY <1>5, <4>1, EmptySeq
      <4> QED BY <4>1, <4>2
    <3>2. Cardinality(ends) # 0 /\ Cardinality(ends) \in Nat
      <4> HIDE DEF ends
      <4> QED BY <1>5, <3>1, FS_EmptySet, FS_CardinalityType
    <3> QED BY <1>4, <3>1, <3>2
  <2> QED BY <1>2, <2>1, <2>2 DEF out
<1> QED BY <1>1, <1>6, <1>7, <1>8 DEF out

\* Spaces in front of the arguments leave no trace.
LEMMA SpacesSkipped ==
  ASSUME NEW s \in Seq(Text), NEW k \in 0 .. Len(s), \A i \in 1 .. k : s[i] = Space
  PROVE  TokenizeArgs(From(s, k + 1)) = TokenizeArgs(s)
<1> DEFINE n == Len(s)
           t == From(s, k + 1)
<1>1. n \in Nat /\ k \in Nat /\ k =< n /\ k + 1 \in 1 .. n + 1 /\ n - (k + 1) + 1 = n - k /\ n - k \in Nat
  BY LenProperties
<1>2. t \in Seq(Text) /\ Len(t) = n - k /\ \A i \in 1 .. n - k : t[i] = s[k + i]
  <2>1. /\ t \in Seq(Text) /\ Len(t) = n - (k + 1) + 1
        /\ \A i \in 1 .. n - (k + 1) + 1 : t[i] = s[(k + 1) + i - 1]
    BY <1>1, FromIs
  <2>2. \A i \in 1 .. n - k : (k + 1) + i - 1 = k + i
    BY <1>1
  <2> QED BY <1>1, <2>1, <2>2
<1>3. PICK w : Tokenizes(s, w)
  BY TokenizeRuns
<1> HIDE DEF t, n
<1>4. /\ w \in [0 .. n -> Tokenizing] /\ w[0] = Token0
      /\ \A i \in 1 .. n : w[i] = Tokenize1(w[i - 1], s[i])
  BY <1>3 DEF Tokenizes, n
<1>5. Tokenize1(Token0, Space) = Token0
  <2>1. Space # Backslash /\ Space # Quote
    BY DEF Backslash, Quote, Space
  <2>2. ~Token0.escaped /\ ~Token0.quoted /\ Token0.out = << >>
    BY DEF Token0
  <2>3. Tokenize1(Token0, Space) = Copy(Token0, Nul)
    BY <2>1, <2>2 DEF Tokenize1
  <2>4. Copy(Token0, Nul) = [Token0 EXCEPT !.out = << >>]
    BY <2>2 DEF Copy
  <2> QED BY <2>3, <2>4 DEF Token0
<1>6. w[k] = Token0
  <2> DEFINE S == {i \in 0 .. k : w[i] = Token0}
  <2>1. \A i \in 1 .. k : i \in 1 .. n /\ i \in 0 .. k
    BY <1>1
  <2>2. 0 \in S
    BY <1>1, <1>4
  <2>3. \A i \in 1 .. k : i - 1 \in S => i \in S
    BY <1>4, <1>5, <2>1
  <2>4. \A i \in 0 .. k : i \in S
    <3> HIDE DEF S
    <3> QED BY <1>1, <2>2, <2>3, StepByStep
  <2> QED BY <1>1, <2>4
<1> DEFINE v == [i \in 0 .. n - k |-> w[k + i]]
<1>7. \A i \in 0 .. n - k : k + i \in 0 .. n /\ (i > 0 => k + i \in 1 .. n /\ (k + i) - 1 = k + (i - 1))
  BY <1>1
<1>8. v \in [0 .. n - k -> Tokenizing] /\ v[0] = Token0
  BY <1>1, <1>4, <1>6, <1>7
<1>9. ASSUME NEW i \in 1 .. n - k
      PROVE  v[i] = Tokenize1(v[i - 1], t[i])
  <2>1. i \in 0 .. n - k /\ i - 1 \in 0 .. n - k /\ i > 0
    BY <1>1
  <2>2. w[k + i] = Tokenize1(w[k + (i - 1)], s[k + i])
    BY <1>4, <1>7, <2>1
  <2> QED BY <1>2, <2>1, <2>2
<1>10. v[n - k] = w[n]
  BY <1>1
<1> HIDE DEF v
<1>11. Tokenizes(t, v)
  BY <1>2, <1>8, <1>9 DEF Tokenizes
<1>12. TokenizeArgs(t) = v[n - k].out
  BY <1>2, <1>11, TokenizeIs
<1>13. TokenizeArgs(s) = w[n].out
  BY <1>3, TokenizeIs DEF n
<1> QED BY <1>10, <1>12, <1>13 DEF t

-----------------------------------------------------------------------------
(* The name and what is behind it.                                         *)

\* A line is st - 1 spaces, n characters that are none, and the end or a space.
Splits(t, st, n) ==
    /\ st \in 1 .. Len(t) /\ n \in 1 .. Len(t) - st + 1
    /\ \A i \in 1 .. st - 1 : t[i] = Space
    /\ \A i \in st .. st + n - 1 : t[i] # Space
    /\ st + n =< Len(t) => t[st + n] = Space

\* Every line that is not blank has these parts.
LEMMA SplitExists ==
  ASSUME NEW t \in Seq(Text), ~IsBlank(t)
  PROVE  \E st, n : Splits(t, st, n)
<1> DEFINE k == Len(t)
           A == {i \in 1 .. k : t[i] # Space}
<1>1. k \in Nat /\ DOMAIN t = 1 .. k
  BY LenProperties
<1>2. A # {}
  BY <1>1 DEF IsBlank
<1>3. PICK st \in A : \A i \in A : st =< i
  <2>1. A \in SUBSET Nat
    BY <1>1
  <2> HIDE DEF A
  <2> QED BY <1>2, <2>1, LeastExists
<1> DEFINE B == {i \in st .. k + 1 : i = k + 1 \/ t[i] = Space}
<1>4. PICK e \in B : \A i \in B : e =< i
  <2>1. B \in SUBSET Nat /\ k + 1 \in B
    BY <1>1
  <2> HIDE DEF B
  <2> QED BY <2>1, LeastExists
<1>5. st \in 1 .. k /\ t[st] # Space
  BY <1>3
<1>6. e \in st + 1 .. k + 1 /\ (e =< k => t[e] = Space)
  BY <1>1, <1>4, <1>5
<1>7. \A i \in 1 .. st - 1 : t[i] = Space
  <2> TAKE i \in 1 .. st - 1
  <2>1. i \in 1 .. k /\ ~(st =< i)
    BY <1>1, <1>5
  <2> QED BY <1>3, <2>1
<1>8. \A i \in st .. e - 1 : t[i] # Space
  <2> TAKE i \in st .. e - 1
  <2>1. i \in st .. k + 1 /\ ~(e =< i)
    BY <1>1, <1>5, <1>6
  <2> QED BY <1>4, <2>1
<1>9. e - st \in 1 .. k - st + 1 /\ st + (e - st) = e
  BY <1>1, <1>5, <1>6
<1>10. Splits(t, st, e - st)
  <2> HIDE DEF A, B
  <2> QED BY <1>5, <1>6, <1>7, <1>8, <1>9 DEF Splits
<1> QED BY <1>10

\* The first character that is none, and the first that is a space.
LEMMA SkipsSpaces ==
  ASSUME NEW s \in Seq(Text), NEW k \in 1 .. Len(s), s[k] # Space,
         \A i \in 1 .. k - 1 : s[i] = Space
  PROVE  SelectInSeq(s, LAMBDA c : c # Space) = k
<1> DEFINE I == {i \in 1 .. Len(s) : s[i] # Space}
<1>1. Len(s) \in Nat
  BY LenProperties
<1>2. k \in I /\ I \in SUBSET Int /\ \A j \in I : k =< j
  BY <1>1
<1>3. Min(I) = k
  <2> HIDE DEF I
  <2> QED BY <1>2, MinIs
<1>4. SelectInSeq(s, LAMBDA c : c # Space) = IF I # {} THEN Min(I) ELSE 0
  BY DEF SelectInSeq
<1> HIDE DEF I
<1> QED BY <1>2, <1>3, <1>4

LEMMA FindsSpace ==
  ASSUME NEW s \in Seq(Text), NEW k \in 1 .. Len(s), s[k] = Space,
         \A i \in 1 .. k - 1 : s[i] # Space
  PROVE  SelectInSeq(s, LAMBDA c : c = Space) = k
<1> DEFINE I == {i \in 1 .. Len(s) : s[i] = Space}
<1>1. Len(s) \in Nat
  BY LenProperties
<1>2. k \in I /\ I \in SUBSET Int /\ \A j \in I : k =< j
  BY <1>1
<1>3. Min(I) = k
  <2> HIDE DEF I
  <2> QED BY <1>2, MinIs
<1>4. SelectInSeq(s, LAMBDA c : c = Space) = IF I # {} THEN Min(I) ELSE 0
  BY DEF SelectInSeq
<1> HIDE DEF I
<1> QED BY <1>2, <1>3, <1>4

\* The arguments are tokenized as if the spaces behind the name were theirs.
LEMMA RestIs ==
  ASSUME NEW s \in Seq(Text)
  PROVE  TokenizeArgs(IF IsBlank(s) THEN << >>
                      ELSE SubSeq(s, SelectInSeq(s, LAMBDA c : c # Space), Len(s))) = TokenizeArgs(s)
<1>1. Len(s) \in Nat /\ DOMAIN s = 1 .. Len(s)
  BY LenProperties
<1>2. CASE IsBlank(s)
  <2>1. From(s, Len(s) + 1) = << >>
    <3>1. From(s, Len(s) + 1) \in Seq(Text) /\ Len(From(s, Len(s) + 1)) = Len(s) - (Len(s) + 1) + 1
      <4>1. Len(s) + 1 \in 1 .. Len(s) + 1
        BY <1>1
      <4> QED BY <4>1, FromIs
    <3>2. Len(s) - (Len(s) + 1) + 1 = 0
      BY <1>1
    <3> QED BY <3>1, <3>2, EmptySeq
  <2>2. \A i \in 1 .. Len(s) : s[i] = Space
    BY <1>1, <1>2 DEF IsBlank
  <2>3. Len(s) \in 0 .. Len(s)
    BY <1>1
  <2>4. TokenizeArgs(From(s, Len(s) + 1)) = TokenizeArgs(s)
    BY <2>2, <2>3, SpacesSkipped
  <2> QED BY <1>2, <2>1, <2>4
<1>3. CASE ~IsBlank(s)
  <2>1. PICK st, n : Splits(s, st, n)
    BY <1>3, SplitExists
  <2>2. /\ st \in 1 .. Len(s) /\ s[st] # Space
        /\ \A i \in 1 .. st - 1 : s[i] = Space
    BY <1>1, <2>1 DEF Splits
  <2>3. SelectInSeq(s, LAMBDA c : c # Space) = st
    BY <2>2, SkipsSpaces
  <2>4. st - 1 \in 0 .. Len(s) /\ (st - 1) + 1 = st
    BY <1>1, <2>2
  <2>5. TokenizeArgs(From(s, (st - 1) + 1)) = TokenizeArgs(s)
    BY <2>2, <2>4, SpacesSkipped
  <2>6. SubSeq(s, st, Len(s)) = From(s, st)
    BY DEF From
  <2> QED BY <1>3, <2>3, <2>4, <2>5, <2>6
<1> QED BY <1>2, <1>3

\* From the name on: the word in front and what is behind it.
Word(t, st, n) == SubSeq(From(t, st), 1, n)
Rest(t, st, n) == From(From(t, st), n + 1)

\* The parts, character by character.
LEMMA SplitIs ==
  ASSUME NEW t \in Seq(Text), NEW st, NEW n, Splits(t, st, n)
  PROVE  /\ From(t, st) \in Seq(Text) /\ Len(From(t, st)) = Len(t) - st + 1
         /\ n \in 1 .. Len(From(t, st))
         /\ \A i \in 1 .. n : From(t, st)[i] # Space
         /\ n < Len(From(t, st)) => From(t, st)[n + 1] = Space
         /\ Word(t, st, n) \in Seq(Text) /\ Len(Word(t, st, n)) = n
         /\ \A i \in 1 .. n : Word(t, st, n)[i] = From(t, st)[i]
         /\ Rest(t, st, n) \in Seq(Text) /\ Len(Rest(t, st, n)) = Len(From(t, st)) - n
         /\ \A i \in 1 .. Len(From(t, st)) - n : Rest(t, st, n)[i] = From(t, st)[n + i]
<1> DEFINE x == From(t, st)
           m == Len(t) - st + 1
<1>1. /\ Len(t) \in Nat /\ st \in 1 .. Len(t) /\ n \in 1 .. m
      /\ \A i \in st .. st + n - 1 : t[i] # Space
      /\ st + n =< Len(t) => t[st + n] = Space
  BY LenProperties DEF Splits
<1>2. /\ x \in Seq(Text) /\ Len(x) = m
      /\ \A i \in 1 .. m : x[i] = t[st + i - 1]
  <2>1. st \in 1 .. Len(t) + 1
    BY <1>1
  <2> QED BY <2>1, FromIs
<1>3. m \in Nat /\ st \in Nat /\ n \in Nat /\ n >= 1 /\ n =< m /\ st + m = Len(t) + 1
  BY <1>1
<1>4. \A i \in 1 .. n : x[i] # Space
  <2> TAKE i \in 1 .. n
  <2>1. i \in 1 .. m /\ st + i - 1 \in st .. st + n - 1
    BY <1>1, <1>3
  <2> QED BY <1>1, <1>2, <2>1
<1>5. n < m => x[n + 1] = Space
  <2> HAVE n < m
  <2>1. n + 1 \in 1 .. m /\ st + (n + 1) - 1 = st + n /\ st + n =< Len(t)
    BY <1>1, <1>3
  <2> QED BY <1>1, <1>2, <2>1
<1> HIDE DEF x, m
<1>6. /\ SubSeq(x, 1, n) \in Seq(Text) /\ Len(SubSeq(x, 1, n)) = n
      /\ \A i \in 1 .. n : SubSeq(x, 1, n)[i] = x[i]
  <2>1. /\ SubSeq(x, 1, n) \in Seq(Text)
        /\ Len(SubSeq(x, 1, n)) = IF 1 =< n THEN n - 1 + 1 ELSE 0
        /\ \A i \in 1 .. n - 1 + 1 : SubSeq(x, 1, n)[i] = x[1 + i - 1]
    <3>1. 1 \in Nat /\ 1 >= 1 /\ n =< Len(x)
      BY <1>2, <1>3
    <3> QED BY <1>2, <1>3, <3>1, PieceIs
  <2>2. n - 1 + 1 = n /\ \A i \in 1 .. n : 1 + i - 1 = i
    BY <1>3
  <2> QED BY <1>3, <2>1, <2>2
<1>7. /\ From(x, n + 1) \in Seq(Text) /\ Len(From(x, n + 1)) = m - n
      /\ \A i \in 1 .. m - n : From(x, n + 1)[i] = x[n + i]
  <2>1. n + 1 \in 1 .. Len(x) + 1 /\ Len(x) - (n + 1) + 1 = m - n
    BY <1>2, <1>3
  <2>2. /\ From(x, n + 1) \in Seq(Text) /\ Len(From(x, n + 1)) = m - n
        /\ \A i \in 1 .. m - n : From(x, n + 1)[i] = x[(n + 1) + i - 1]
    <3>1. /\ From(x, n + 1) \in Seq(Text) /\ Len(From(x, n + 1)) = Len(x) - (n + 1) + 1
          /\ \A i \in 1 .. Len(x) - (n + 1) + 1 : From(x, n + 1)[i] = x[(n + 1) + i - 1]
      BY <1>2, <2>1, FromIs
    <3> QED BY <2>1, <3>1
  <2>3. \A i \in 1 .. m - n : (n + 1) + i - 1 = n + i
    BY <1>3
  <2> QED BY <2>2, <2>3
<1>8. n \in 1 .. m
  BY <1>3
<1> QED BY <1>2, <1>4, <1>5, <1>6, <1>7, <1>8 DEF x, m, Word, Rest

\* Where the name ends.
LEMMA WordFound ==
  ASSUME NEW x \in Seq(Text), NEW n \in 1 .. Len(x), \A i \in 1 .. n : x[i] # Space,
         n < Len(x) => x[n + 1] = Space
  PROVE  SelectInSeq(x \o << Space >>, LAMBDA c : c = Space) = n + 1
<1> DEFINE long == x \o << Space >>
<1>1. Len(x) \in Nat /\ n \in Nat /\ n >= 1 /\ n =< Len(x)
  BY LenProperties
<1>2. << Space >> \in Seq(Text) /\ Len(<< Space >>) = 1 /\ << Space >>[1] = Space
  BY DEF Text
<1>3. /\ long \in Seq(Text) /\ Len(long) = Len(x) + 1
      /\ \A i \in 1 .. Len(x) + 1 :
             long[i] = IF i <= Len(x) THEN x[i] ELSE << Space >>[i - Len(x)]
  BY <1>2, ConcatProperties
<1> HIDE DEF long
<1>4. n + 1 \in 1 .. Len(long)
  BY <1>1, <1>3
<1>5. long[n + 1] = Space
  <2>1. CASE n < Len(x)
    <3>1. n + 1 <= Len(x) /\ n + 1 \in 1 .. Len(x) + 1
      BY <1>1, <2>1
    <3> QED BY <1>3, <2>1, <3>1
  <2>2. CASE ~(n < Len(x))
    <3>1. ~(n + 1 <= Len(x)) /\ n + 1 \in 1 .. Len(x) + 1 /\ n + 1 - Len(x) = 1
      BY <1>1, <2>2
    <3> QED BY <1>2, <1>3, <3>1
  <2> QED BY <2>1, <2>2
<1>6. \A i \in 1 .. (n + 1) - 1 : long[i] # Space
  <2> TAKE i \in 1 .. (n + 1) - 1
  <2>1. i \in 1 .. n /\ i <= Len(x) /\ i \in 1 .. Len(x) + 1
    BY <1>1
  <2> QED BY <1>3, <2>1
<1>7. SelectInSeq(long, LAMBDA c : c = Space) = n + 1
  BY <1>3, <1>4, <1>5, <1>6, FindsSpace
<1> QED BY <1>7 DEF long

\* parseCommand, by the parts of the line.
LEMMA ParseIs ==
  ASSUME NEW t \in Seq(Text), NEW st, NEW n, Splits(t, st, n)
  PROVE  /\ \A i \in DOMAIN Bindings :
                Bindings[i].name = Word(t, st, n) =>
                    ParseCommand(t) = Execute(Bindings[i], TokenizeArgs(Rest(t, st, n)))
         /\ (\A i \in DOMAIN Bindings : Bindings[i].name # Word(t, st, n)) =>
                ParseCommand(t) = Does("unknown")
<1> DEFINE start == SelectInSeq(t, LAMBDA c : c # Space)
           text == SubSeq(t, start, Len(t))
           name == SubSeq(text, 1, SelectInSeq(text \o << Space >>, LAMBDA c : c = Space) - 1)
           rest == SubSeq(text, Len(name) + 1, Len(text))
           args == IF IsBlank(rest) THEN << >>
                   ELSE SubSeq(rest, SelectInSeq(rest, LAMBDA c : c # Space), Len(rest))
           hits == {i \in DOMAIN Bindings : Bindings[i].name = name}
           hit == CHOOSE i \in hits : \A j \in hits : i =< j
<1>1. ParseCommand(t) = IF hits = {} THEN Does("unknown") ELSE Execute(Bindings[hit], TokenizeArgs(args))
  BY Zenon DEF ParseCommand
<1>2. /\ From(t, st) \in Seq(Text) /\ n \in 1 .. Len(From(t, st))
      /\ \A i \in 1 .. n : From(t, st)[i] # Space
      /\ n < Len(From(t, st)) => From(t, st)[n + 1] = Space
      /\ Len(Word(t, st, n)) = n /\ Rest(t, st, n) \in Seq(Text)
  BY SplitIs
<1>3. start = st
  <2>1. /\ st \in 1 .. Len(t) /\ n \in 1 .. Len(t) - st + 1 /\ Len(t) \in Nat
        /\ \A i \in 1 .. st - 1 : t[i] = Space
        /\ \A i \in st .. st + n - 1 : t[i] # Space
    BY LenProperties DEF Splits
  <2>2. st \in st .. st + n - 1
    BY <2>1
  <2> QED BY <2>1, <2>2, SkipsSpaces
<1>4. text = From(t, st)
  <2> HIDE DEF start
  <2> QED BY <1>3 DEF From
<1> HIDE DEF start, text
<1>5. name = Word(t, st, n)
  <2>1. SelectInSeq(text \o << Space >>, LAMBDA c : c = Space) = n + 1
    <3> DEFINE x == From(t, st)
    <3>1. /\ x \in Seq(Text) /\ n \in 1 .. Len(x) /\ (\A i \in 1 .. n : x[i] # Space)
          /\ n < Len(x) => x[n + 1] = Space
      BY <1>2
    <3> HIDE DEF x
    <3>2. SelectInSeq(x \o << Space >>, LAMBDA c : c = Space) = n + 1
      BY <3>1, WordFound
    <3> QED BY <1>4, <3>2 DEF x
  <2>2. (n + 1) - 1 = n
    BY <1>2
  <2>3. name = SubSeq(text, 1, (n + 1) - 1)
    BY <2>1, Zenon
  <2>4. name = SubSeq(text, 1, n)
    BY <2>2, <2>3, Zenon
  <2> QED BY <1>4, <2>4, Zenon DEF Word
<1> HIDE DEF name
<1>6. rest = Rest(t, st, n)
  <2>1. rest = SubSeq(text, n + 1, Len(text))
    BY <1>2, <1>5
  <2> QED BY <1>4, <2>1 DEF Rest, From
<1> HIDE DEF rest
<1>7. TokenizeArgs(args) = TokenizeArgs(Rest(t, st, n))
  BY <1>2, <1>6, RestIs
<1> HIDE DEF args
<1>8. ASSUME NEW i \in DOMAIN Bindings, Bindings[i].name = Word(t, st, n)
      PROVE  ParseCommand(t) = Execute(Bindings[i], TokenizeArgs(Rest(t, st, n)))
  <2>1. hits = {i}
    BY <1>5, <1>8, BindingAssumption
  <2>2. hit = i
    <3>1. i \in Nat
      BY BindingAssumption
    <3> QED BY <2>1, <3>1
  <2> HIDE DEF hits, hit
  <2> QED BY <1>1, <1>7, <2>1, <2>2
<1>9. ASSUME \A i \in DOMAIN Bindings : Bindings[i].name # Word(t, st, n)
      PROVE  ParseCommand(t) = Does("unknown")
  <2>1. hits = {}
    BY <1>5, <1>9
  <2> HIDE DEF hits, hit
  <2> QED BY <1>1, <2>1
<1> QED BY <1>8, <1>9, Zenon

\* The line is blanks, name and arguments in one way only.
LEMMA CallIs ==
  ASSUME NEW t \in Seq(Text), NEW st, NEW n, Splits(t, st, n),
         NEW i \in DOMAIN Bindings, NEW args \in Seq(Text), Calls(t, Bindings[i], args)
  PROVE  Bindings[i].name = Word(t, st, n) /\ args = Rest(t, st, n)
<1> DEFINE name == Bindings[i].name
           l == Len(name)
           x == From(t, st)
<1>1. name \in Seq(Letters) /\ l \in Nat /\ l > 0
  BY NameAssumption, BindingAssumption, LenProperties
<1>2. \A j \in 1 .. l : name[j] \in Letters /\ name[j] # Space
  BY <1>1, ElementOfSeq, CharAssumption
<1>3. name \in Seq(Text)
  BY <1>1, SeqMonotonic DEF Text
<1>4. PICK k \in 0 .. Len(t) :
          /\ IsBlank(SubSeq(t, 1, k))
          /\ From(t, k + 1) = name \o args
          /\ args = << >> \/ Head(args) = Space
  BY DEF Calls
<1> HIDE DEF name, l
<1>5. /\ name \o args \in Seq(Text) /\ Len(name \o args) = l + Len(args)
      /\ \A j \in 1 .. l + Len(args) : (name \o args)[j] = IF j <= l THEN name[j] ELSE args[j - l]
  BY <1>3, ConcatProperties DEF l
<1>6. Len(t) \in Nat /\ Len(args) \in Nat
  BY LenProperties
<1>7. /\ Len(From(t, k + 1)) = Len(t) - k
      /\ \A j \in 1 .. Len(t) - k : From(t, k + 1)[j] = t[k + j]
  <2>1. k + 1 \in 1 .. Len(t) + 1 /\ Len(t) - (k + 1) + 1 = Len(t) - k
    BY <1>6
  <2>2. /\ Len(From(t, k + 1)) = Len(t) - (k + 1) + 1
        /\ \A j \in 1 .. Len(t) - (k + 1) + 1 : From(t, k + 1)[j] = t[(k + 1) + j - 1]
    BY <2>1, FromIs
  <2>3. \A j \in 1 .. Len(t) - k : (k + 1) + j - 1 = k + j
    BY <1>6
  <2> QED BY <2>1, <2>2, <2>3
<1>8. \A j \in 1 .. k : t[j] = Space
  <2>1. /\ Len(SubSeq(t, 1, k)) = IF 1 =< k THEN k - 1 + 1 ELSE 0
        /\ SubSeq(t, 1, k) \in Seq(Text)
        /\ \A j \in 1 .. k - 1 + 1 : SubSeq(t, 1, k)[j] = t[1 + j - 1]
    BY <1>6, PieceIs
  <2>2. DOMAIN SubSeq(t, 1, k) = 1 .. Len(SubSeq(t, 1, k))
    BY <2>1, LenProperties
  <2> TAKE j \in 1 .. k
  <2>3. j \in 1 .. k - 1 + 1 /\ 1 + j - 1 = j /\ 1 =< k /\ k - 1 + 1 = k
    BY <1>6
  <2>4. SubSeq(t, 1, k)[j] = Space
    BY <1>4, <2>1, <2>2, <2>3 DEF IsBlank
  <2> QED BY <2>1, <2>3, <2>4
<1>9. k + 1 \in 1 .. Len(t) /\ t[k + 1] # Space
  <2>1. Len(t) - k = l + Len(args) /\ 1 \in 1 .. l + Len(args) /\ 1 <= l /\ 1 \in 1 .. l
    <3>1. Len(t) - k = l + Len(args)
      BY <1>4, <1>5, <1>7
    <3> QED BY <1>1, <1>6, <3>1
  <2>2. t[k + 1] = name[1]
    BY <1>4, <1>5, <1>7, <2>1
  <2> QED BY <1>2, <1>6, <2>1, <2>2
<1>10. k + 1 = st
  <2>1. /\ st \in 1 .. Len(t) /\ n \in 1 .. Len(t) - st + 1
        /\ \A j \in 1 .. st - 1 : t[j] = Space
        /\ \A j \in st .. st + n - 1 : t[j] # Space
    BY DEF Splits
  <2>2. ~(k + 1 < st)
    BY <1>6, <1>9, <2>1
  <2>3. ~(st < k + 1)
    <3>1. st \in st .. st + n - 1
      BY <1>6, <2>1
    <3>2. st < k + 1 => st \in 1 .. k
      BY <1>6, <2>1
    <3> QED BY <1>8, <2>1, <3>1, <3>2
  <2> QED BY <1>6, <2>1, <2>2, <2>3
<1>11. x = name \o args
  BY <1>4, <1>10
<1>12. /\ Len(x) \in Nat /\ n \in 1 .. Len(x)
       /\ \A j \in 1 .. n : x[j] # Space
       /\ n < Len(x) => x[n + 1] = Space
       /\ Word(t, st, n) \in Seq(Text) /\ Len(Word(t, st, n)) = n
       /\ \A j \in 1 .. n : Word(t, st, n)[j] = x[j]
       /\ Rest(t, st, n) \in Seq(Text) /\ Len(Rest(t, st, n)) = Len(x) - n
       /\ \A j \in 1 .. Len(x) - n : Rest(t, st, n)[j] = x[n + j]
  BY SplitIs, LenProperties
<1> HIDE DEF x
<1>13. /\ Len(x) = l + Len(args)
       /\ \A j \in 1 .. l : x[j] = name[j]
       /\ \A j \in 1 .. Len(args) : x[l + j] = args[j]
  <2>1. Len(x) = l + Len(args)
    BY <1>5, <1>11
  <2>2. \A j \in 1 .. l : j \in 1 .. l + Len(args) /\ j <= l
    BY <1>1, <1>6
  <2>3. \A j \in 1 .. l : x[j] = name[j]
    BY <1>5, <1>11, <2>2
  <2>4. \A j \in 1 .. Len(args) : x[l + j] = args[j]
    <3> TAKE j \in 1 .. Len(args)
    <3> DEFINE p == l + j
    <3>1. p \in 1 .. l + Len(args) /\ ~(p <= l) /\ p - l = j
      BY <1>1, <1>6
    <3> HIDE DEF p
    <3>2. (name \o args)[p] = args[p - l]
      <4>1. (name \o args)[p] = IF p <= l THEN name[p] ELSE args[p - l]
        BY <1>5, <3>1, Zenon
      <4> QED BY <3>1, <4>1, Zenon
    <3> QED BY <1>11, <3>1, <3>2, Zenon DEF p
  <2> QED BY <2>1, <2>3, <2>4
<1>14. ~(n < l)
  <2>1. n < l => n + 1 \in 1 .. l /\ n < Len(x)
    <3>1. n \in Nat /\ l \in Nat /\ Len(args) \in Nat /\ Len(x) = l + Len(args)
      BY <1>1, <1>6, <1>12, <1>13
    <3> QED BY <3>1
  <2> QED BY <1>2, <1>12, <1>13, <2>1
<1>15. ~(l < n)
  <2> SUFFICES ASSUME l < n PROVE FALSE
    OBVIOUS
  <2>1. 1 \in 1 .. Len(args) /\ l + 1 \in 1 .. n
    BY <1>1, <1>6, <1>12, <1>13
  <2>2. args # << >>
    BY <1>6, <2>1, EmptySeq
  <2>3. args[1] = Space
    BY <1>4, <2>2, HeadTailProperties
  <2> QED BY <1>12, <1>13, <2>1, <2>3
<1>16. l = n
  BY <1>1, <1>12, <1>14, <1>15
<1>17. name = Word(t, st, n)
  BY <1>3, <1>12, <1>13, <1>16, SeqEqual DEF l
<1>18. args = Rest(t, st, n)
  <2>1. Len(x) - n = Len(args)
    BY <1>1, <1>6, <1>13, <1>16
  <2>2. \A j \in 1 .. Len(args) : args[j] = Rest(t, st, n)[j]
    BY <1>12, <1>13, <1>16, <2>1
  <2>3. Len(args) = Len(Rest(t, st, n)) /\ Rest(t, st, n) \in Seq(Text)
    BY <1>12, <2>1
  <2> QED BY <2>2, <2>3, SeqEqual, Zenon
<1> QED BY <1>17, <1>18 DEF name

\* And it is in that one.
LEMMA CallMade ==
  ASSUME NEW t \in Seq(Text), NEW st, NEW n, Splits(t, st, n),
         NEW i \in DOMAIN Bindings, Bindings[i].name = Word(t, st, n)
  PROVE  Calls(t, Bindings[i], Rest(t, st, n)) /\ Rest(t, st, n) \in Tails(t)
<1> DEFINE x == From(t, st)
           w == Word(t, st, n)
           r == Rest(t, st, n)
<1>1. /\ x \in Seq(Text) /\ Len(x) = Len(t) - st + 1 /\ n \in 1 .. Len(x)
      /\ n < Len(x) => x[n + 1] = Space
      /\ w \in Seq(Text) /\ Len(w) = n
      /\ \A j \in 1 .. n : w[j] = x[j]
      /\ r \in Seq(Text) /\ Len(r) = Len(x) - n
      /\ \A j \in 1 .. Len(x) - n : r[j] = x[n + j]
  BY SplitIs
<1>2. /\ Len(t) \in Nat /\ st \in 1 .. Len(t)
      /\ \A j \in 1 .. st - 1 : t[j] = Space
  BY LenProperties DEF Splits
<1> HIDE DEF w, r
<1>3. x = w \o r
  <2>1. /\ w \o r \in Seq(Text) /\ Len(w \o r) = Len(w) + Len(r)
        /\ \A j \in 1 .. Len(w) + Len(r) : (w \o r)[j] = IF j <= Len(w) THEN w[j] ELSE r[j - Len(w)]
    <3>1. w \in Seq(Text) /\ r \in Seq(Text)
      BY <1>1
    <3> QED BY <3>1, ConcatProperties
  <2> HIDE DEF x
  <2>2. Len(x) \in Nat /\ Len(w) + Len(r) = Len(x)
    BY <1>1, LenProperties
  <2>3. ASSUME NEW j \in 1 .. Len(x)
        PROVE  x[j] = (w \o r)[j]
    <3>1. (w \o r)[j] = IF j <= n THEN w[j] ELSE r[j - n]
      BY <1>1, <2>1, <2>2
    <3>2. CASE j <= n
      <4>1. j \in 1 .. n
        BY <3>2
      <4> QED BY <1>1, <3>1, <3>2, <4>1
    <3>3. CASE ~(j <= n)
      <4>1. j - n \in 1 .. Len(x) - n /\ n + (j - n) = j
        BY <1>1, <2>2, <3>3
      <4> QED BY <1>1, <3>1, <3>3, <4>1
    <3> QED BY <3>2, <3>3
  <2>4. Len(w \o r) = Len(x)
    BY <2>1, <2>2
  <2> QED BY <1>1, <2>1, <2>3, <2>4, SeqEqual
<1>4. IsBlank(SubSeq(t, 1, st - 1))
  <2> DEFINE b == SubSeq(t, 1, st - 1)
  <2>1. /\ Len(b) = IF 1 =< st - 1 THEN (st - 1) - 1 + 1 ELSE 0
        /\ b \in Seq(Text)
        /\ \A j \in 1 .. (st - 1) - 1 + 1 : b[j] = t[1 + j - 1]
    <3>1. st - 1 \in Nat /\ st - 1 =< Len(t) /\ 1 \in Nat
      BY <1>2
    <3> QED BY <3>1, PieceIs
  <2> HIDE DEF b
  <2>2. \A j \in 1 .. Len(b) : j \in 1 .. (st - 1) - 1 + 1 /\ j \in 1 .. st - 1 /\ 1 + j - 1 = j
    BY <1>2, <2>1
  <2>3. DOMAIN b = 1 .. Len(b)
    BY <2>1, LenProperties
  <2>4. IsBlank(b)
    BY <1>2, <2>1, <2>2, <2>3 DEF IsBlank
  <2> QED BY <2>4 DEF b
<1>5. r = << >> \/ Head(r) = Space
  <2>1. CASE r = << >>
    BY <2>1
  <2>2. CASE r # << >>
    <3>1. Len(r) \in Nat /\ Len(r) > 0 /\ Len(x) \in Nat
      BY <1>1, <2>2, EmptySeq, LenProperties
    <3>2. 1 \in 1 .. Len(x) - n /\ n < Len(x)
      BY <1>1, <3>1
    <3>3. r[1] = Space
      BY <1>1, <3>2
    <3> QED BY <1>1, <2>2, <3>3, HeadTailProperties
  <2> QED BY <2>1, <2>2
<1>6. st - 1 \in 0 .. Len(t) /\ (st - 1) + 1 = st
  BY <1>2
<1>7. Calls(t, Bindings[i], r)
  <2>1. From(t, (st - 1) + 1) = Bindings[i].name \o r
    BY <1>3, <1>6 DEF w
  <2> QED BY <1>4, <1>5, <1>6, <2>1 DEF Calls
<1>8. r \in Tails(t)
  <2>1. r = From(t, st + n)
    <3>1. st + n \in 1 .. Len(t) + 1 /\ Len(t) - (st + n) + 1 = Len(x) - n
      BY <1>1, <1>2
    <3>2. /\ From(t, st + n) \in Seq(Text) /\ Len(From(t, st + n)) = Len(t) - (st + n) + 1
          /\ \A j \in 1 .. Len(t) - (st + n) + 1 : From(t, st + n)[j] = t[(st + n) + j - 1]
      BY <3>1, FromIs
    <3>3. \A j \in 1 .. Len(t) - st + 1 : x[j] = t[st + j - 1]
      <4>1. st \in 1 .. Len(t) + 1
        BY <1>2
      <4> QED BY <4>1, FromIs
    <3>4. ASSUME NEW j \in 1 .. Len(r)
          PROVE  r[j] = From(t, st + n)[j]
      <4>1. /\ j \in 1 .. Len(x) - n /\ n + j \in 1 .. Len(t) - st + 1
            /\ st + (n + j) - 1 = (st + n) + j - 1
        BY <1>1, <1>2
      <4>2. r[j] = t[st + (n + j) - 1]
        BY <1>1, <3>3, <4>1
      <4>3. From(t, st + n)[j] = t[(st + n) + j - 1]
        BY <3>1, <3>2, <4>1
      <4> QED BY <4>1, <4>2, <4>3
    <3>5. Len(r) = Len(From(t, st + n))
      BY <1>1, <3>1, <3>2
    <3> QED BY <1>1, <3>2, <3>4, <3>5, SeqEqual
  <2>2. st + n \in 1 .. Len(t) + 1
    <3>1. st \in 1 .. Len(t) /\ n \in 1 .. Len(t) - st + 1 /\ Len(t) \in Nat
      BY <1>1, <1>2
    <3> QED BY <3>1
  <2> QED BY <2>1, <2>2 DEF Tails
<1> QED BY <1>7, <1>8 DEF r

\* A line calls at most one command, and with one string of arguments.
LEMMA CallsAre ==
  ASSUME NEW t \in Seq(Text), NEW st, NEW n, Splits(t, st, n)
  PROVE  LET calls == {c \in (DOMAIN Bindings) \X Tails(t) : Calls(t, Bindings[c[1]], c[2])}
         IN  /\ \A i \in DOMAIN Bindings :
                    Bindings[i].name = Word(t, st, n) => calls = {<< i, Rest(t, st, n) >>}
             /\ (\A i \in DOMAIN Bindings : Bindings[i].name # Word(t, st, n)) => calls = {}
<1> DEFINE r == Rest(t, st, n)
           calls == {c \in (DOMAIN Bindings) \X Tails(t) : Calls(t, Bindings[c[1]], c[2])}
<1>1. ASSUME NEW a \in Tails(t)
      PROVE  a \in Seq(Text)
  <2>1. PICK k \in 1 .. Len(t) + 1 : a = From(t, k)
    BY <1>1 DEF Tails
  <2> QED BY <2>1, FromIs
<1>2. ASSUME NEW c \in calls
      PROVE  /\ c[1] \in DOMAIN Bindings /\ c = << c[1], c[2] >>
             /\ Bindings[c[1]].name = Word(t, st, n) /\ c[2] = r
  <2>1. /\ c[1] \in DOMAIN Bindings /\ c[2] \in Tails(t) /\ c = << c[1], c[2] >>
        /\ Calls(t, Bindings[c[1]], c[2])
    BY <1>2
  <2>2. c[2] \in Seq(Text)
    BY <1>1, <2>1
  <2>3. Bindings[c[1]].name = Word(t, st, n) /\ c[2] = r
    BY <2>1, <2>2, CallIs
  <2> QED BY <2>1, <2>3
<1>3. ASSUME NEW i \in DOMAIN Bindings, Bindings[i].name = Word(t, st, n)
      PROVE  calls = {<< i, r >>}
  <2>1. Calls(t, Bindings[i], r) /\ r \in Tails(t)
    BY <1>3, CallMade
  <2>2. << i, r >> \in calls
    <3> HIDE DEF r
    <3> QED BY <2>1
  <2> HIDE DEF calls
  <2>3. ASSUME NEW c \in calls
        PROVE  c = << i, r >>
    <3>1. c[1] = i
      BY <1>2, <1>3, BindingAssumption
    <3> QED BY <1>2, <3>1
  <2> HIDE DEF r
  <2> QED BY <2>2, <2>3
<1>4. ASSUME \A i \in DOMAIN Bindings : Bindings[i].name # Word(t, st, n)
      PROVE  calls = {}
  <2> HIDE DEF calls
  <2> QED BY <1>2, <1>4
<1> HIDE DEF calls
<1>5. /\ \A i \in DOMAIN Bindings : Bindings[i].name = Word(t, st, n) => calls = {<< i, r >>}
      /\ (\A i \in DOMAIN Bindings : Bindings[i].name # Word(t, st, n)) => calls = {}
  BY <1>3, <1>4, Zenon
<1> QED BY <1>5, Zenon DEF calls, r

\* What a line sets, by its parts.
LEMMA SetsAre ==
  ASSUME NEW t \in Seq(Text), NEW st, NEW n, Splits(t, st, n)
  PROVE  /\ \A i \in DOMAIN Bindings :
                Bindings[i].name = Word(t, st, n) =>
                    Sets(t) = IF /\ Len(Arguments(Rest(t, st, n))) = 1
                                 /\ Arguments(Rest(t, st, n))[1] \notin HelpFlags
                              THEN Meanings(Bindings[i], Arguments(Rest(t, st, n))[1]) ELSE {}
         /\ (\A i \in DOMAIN Bindings : Bindings[i].name # Word(t, st, n)) => Sets(t) = {}
<1> DEFINE r == Rest(t, st, n)
           calls == {c \in (DOMAIN Bindings) \X Tails(t) : Calls(t, Bindings[c[1]], c[2])}
           good == {c \in calls : Len(Arguments(c[2])) = 1 /\ Arguments(c[2])[1] \notin HelpFlags}
           single(a) == Len(Arguments(a)) = 1 /\ Arguments(a)[1] \notin HelpFlags
           means(c) == Meanings(Bindings[c[1]], Arguments(c[2])[1])
<1>1. /\ \A i \in DOMAIN Bindings : Bindings[i].name = Word(t, st, n) => calls = {<< i, r >>}
      /\ (\A i \in DOMAIN Bindings : Bindings[i].name # Word(t, st, n)) => calls = {}
  BY CallsAre, Zenon
<1>2. Sets(t) = UNION {means(c) : c \in good} /\ good = {c \in calls : single(c[2])}
  BY Zenon DEF Sets
<1> HIDE DEF calls, good, single, means, r
<1>3. ASSUME NEW i \in DOMAIN Bindings, Bindings[i].name = Word(t, st, n)
      PROVE  Sets(t) = IF single(r) THEN means(<< i, r >>) ELSE {}
  <2>1. calls = {<< i, r >>}
    BY <1>1, <1>3
  <2>2. << i, r >>[2] = r
    OBVIOUS
  <2>3. CASE single(r)
    <3>1. good = {<< i, r >>}
      BY <1>2, <2>1, <2>2, <2>3
    <3> QED BY <1>2, <2>3, <3>1
  <2>4. CASE ~single(r)
    <3>1. good = {}
      BY <1>2, <2>1, <2>2, <2>4
    <3> QED BY <1>2, <2>4, <3>1
  <2> QED BY <2>3, <2>4
<1>4. ASSUME \A i \in DOMAIN Bindings : Bindings[i].name # Word(t, st, n)
      PROVE  Sets(t) = {}
  <2>1. calls = {}
    BY <1>1, <1>4
  <2>2. good = {}
    BY <1>2, <2>1
  <2> QED BY <1>2, <2>2
<1>5. ASSUME NEW i \in DOMAIN Bindings
      PROVE  means(<< i, r >>) = Meanings(Bindings[i], Arguments(r)[1])
  BY DEF means
<1>6. single(r) <=> Len(Arguments(r)) = 1 /\ Arguments(r)[1] \notin HelpFlags
  BY DEF single
<1>7. ASSUME NEW i \in DOMAIN Bindings, Bindings[i].name = Word(t, st, n)
      PROVE  Sets(t) = IF Len(Arguments(r)) = 1 /\ Arguments(r)[1] \notin HelpFlags
                       THEN Meanings(Bindings[i], Arguments(r)[1]) ELSE {}
  <2>1. CASE single(r)
    BY <1>3, <1>5, <1>6, <1>7, <2>1, Zenon
  <2>2. CASE ~single(r)
    BY <1>3, <1>5, <1>6, <1>7, <2>2, Zenon
  <2> QED BY <2>1, <2>2
<1> QED BY <1>4, <1>7, Zenon DEF r

-----------------------------------------------------------------------------
(* Numbers.                                                                *)

IsNumber(s) == \A i \in DOMAIN s : s[i] \in DOMAIN DigitValue

\* num is the number that the first digits are.
Reads(s, num) ==
    /\ num \in [0 .. Len(s) -> Nat] /\ num[0] = 0
    /\ \A i \in 1 .. Len(s) : num[i] = 10 * num[i - 1] + DigitValue[s[i]]

LEMMA DigitIs ==
  ASSUME NEW c \in DOMAIN DigitValue
  PROVE  DigitValue[c] \in Nat
BY DEF DigitValue

\* Every string of digits is a number.
LEMMA ReadsExist ==
  ASSUME NEW s \in Seq(Text), IsNumber(s)
  PROVE  \E num : Reads(s, num)
<1> DEFINE n == Len(s)
           F == [i \in 1 .. n |-> [a \in Nat |-> 10 * a + DigitValue[s[i]]]]
<1>1. n \in Nat /\ \A i \in 1 .. n : DigitValue[s[i]] \in Nat
  BY LenProperties, DigitIs DEF IsNumber
<1>2. F \in [1 .. n -> [Nat -> Nat]]
  <2> HIDE DEF n
  <2>1. \A i \in 1 .. n, a \in Nat : 10 * a + DigitValue[s[i]] \in Nat
    BY <1>1
  <2> QED BY <2>1
<1>3. \A i \in 1 .. n, a \in Nat : F[i][a] = 10 * a + DigitValue[s[i]]
  OBVIOUS
<1> HIDE DEF F, n
<1>4. PICK w : Recurs(w, n, Nat, 0, F)
  BY <1>1, <1>2, RecursionExists
<1>5. /\ w \in [0 .. n -> Nat] /\ w[0] = 0
      /\ \A i \in 1 .. n : w[i - 1] \in Nat /\ w[i] = F[i][w[i - 1]]
  BY <1>1, <1>4 DEF Recurs
<1>6. \A i \in 1 .. n : w[i] = 10 * w[i - 1] + DigitValue[s[i]]
  BY <1>3, <1>5, Zenon
<1> QED BY <1>5, <1>6 DEF Reads, n

\* strtoul reads that number, up to the largest.
LEMMA StrtoulIs ==
  ASSUME NEW s \in Seq(Text), IsNumber(s), NEW num, Reads(s, num)
  PROVE  Strtoul(s) = IF num[Len(s)] > ULongMax THEN ULongMax ELSE num[Len(s)]
<1> DEFINE n == Len(s)
           next(a, d) == IF 10 * a + d > ULongMax THEN ULongMax ELSE 10 * a + d
           Fun(f) == [i \in 0 .. n |-> IF i = 0 THEN 0
                                       ELSE IF 10 * f[i - 1] + DigitValue[s[i]] > ULongMax THEN ULongMax
                                       ELSE 10 * f[i - 1] + DigitValue[s[i]]]
           f == CHOOSE f : f = Fun(f)
           up(a) == IF a > ULongMax THEN ULongMax ELSE a
           w == [i \in 0 .. n |-> up(num[i])]
<1>1. n \in Nat /\ (\A i \in 1 .. n : DigitValue[s[i]] \in Nat) /\ ULongMax \in Nat
  BY LenProperties, DigitIs, ULongAssumption DEF IsNumber
<1>2. /\ num \in [0 .. n -> Nat] /\ num[0] = 0
      /\ \A i \in 1 .. n : num[i] = 10 * num[i - 1] + DigitValue[s[i]]
  BY DEF Reads
<1>3. Strtoul(s) = f[n]
  BY Zenon DEF Strtoul
<1> HIDE DEF n
<1>4. \A a, d \in Nat : up(10 * a + d) = next(up(a), d)
  BY <1>1
<1>5. \A i \in 0 .. n : w[i] = IF i = 0 THEN 0 ELSE next(w[i - 1], DigitValue[s[i]])
  <2> TAKE i \in 0 .. n
  <2>1. CASE i = 0
    BY <1>1, <1>2, <2>1
  <2>2. CASE i # 0
    <3>1. i \in 1 .. n /\ i - 1 \in 0 .. n
      BY <1>1, <2>2
    <3>2. w[i] = up(10 * num[i - 1] + DigitValue[s[i]]) /\ w[i - 1] = up(num[i - 1])
      BY <1>2, <3>1
    <3>3. num[i - 1] \in Nat /\ DigitValue[s[i]] \in Nat
      BY <1>1, <1>2, <3>1
    <3> HIDE DEF up, next, w
    <3> QED BY <1>4, <2>2, <3>2, <3>3, Zenon
  <2> QED BY <2>1, <2>2
<1>6. w = Fun(w)
  <2> HIDE DEF up
  <2> QED BY <1>5
<1>7. f = Fun(f)
  <2> HIDE DEF Fun, w
  <2> QED BY <1>6, Zenon
<1> HIDE DEF f
<1>8. \A i \in 0 .. n : f[i] = IF i = 0 THEN 0 ELSE next(f[i - 1], DigitValue[s[i]])
  BY <1>7
<1> HIDE DEF w, next
<1>9. \A i \in 0 .. n : f[i] = w[i]
  <2>1. f[0] = w[0]
    BY <1>1, <1>5, <1>8
  <2>2. \A i \in 1 .. n : f[i - 1] = w[i - 1] => f[i] = w[i]
    <3> TAKE i \in 1 .. n
    <3>1. i \in 0 .. n /\ i # 0
      BY <1>1
    <3> QED BY <1>5, <1>8, <3>1, Zenon
  <2>3. n \in Nat
    BY <1>1
  <2>4. Alike(f, w, n)
    BY <2>1, <2>2, Zenon DEF Alike
  <2> QED BY <2>3, <2>4, RecursionIs
<1>10. f[n] = w[n] /\ n \in 0 .. n
  BY <1>1, <1>9
<1>11. w[n] = up(num[n])
  BY <1>10 DEF w
<1> QED BY <1>3, <1>10, <1>11 DEF n

\* What the places behind a digit count.
LEMMA PlacesExist ==
  ASSUME NEW n \in Nat
  PROVE  LET place == CHOOSE f : f = [i \in 0 .. n |-> IF i = 0 THEN 1 ELSE 10 * f[i - 1]]
         IN  /\ \A i \in 0 .. n : place[i] \in Nat
             /\ place[0] = 1
             /\ \A i \in 1 .. n : place[i] = 10 * place[i - 1]
<1> DEFINE F == [i \in 1 .. n |-> [a \in Nat |-> 10 * a]]
           Fun(f) == [i \in 0 .. n |-> IF i = 0 THEN 1 ELSE 10 * f[i - 1]]
           f == CHOOSE f : f = Fun(f)
<1>1. F \in [1 .. n -> [Nat -> Nat]] /\ \A i \in 1 .. n, a \in Nat : F[i][a] = 10 * a
  OBVIOUS
<1> HIDE DEF F
<1>2. PICK w : Recurs(w, n, Nat, 1, F)
  BY <1>1, RecursionExists
<1>3. /\ w \in [0 .. n -> Nat] /\ w[0] = 1
      /\ \A i \in 1 .. n : w[i - 1] \in Nat /\ w[i] = F[i][w[i - 1]]
  BY <1>2 DEF Recurs
<1>4. \A i \in 1 .. n : w[i] = 10 * w[i - 1]
  BY <1>1, <1>3, Zenon
<1>5. w = Fun(w)
  BY <1>3, <1>4
<1>6. f = Fun(f)
  <2> HIDE DEF Fun
  <2> QED BY <1>5, Zenon
<1> HIDE DEF f
<1>7. f[0] = 1 /\ \A i \in 1 .. n : f[i] = 10 * f[i - 1]
  <2>1. \A i \in 0 .. n : f[i] = IF i = 0 THEN 1 ELSE 10 * f[i - 1]
    BY <1>6, Zenon
  <2> QED BY <2>1
<1>8. f[0] = w[0]
  BY <1>3, <1>7
<1>9. \A i \in 1 .. n : f[i - 1] = w[i - 1] => f[i] = w[i]
  BY <1>4, <1>7
<1>10. \A i \in 0 .. n : f[i] = w[i]
  <2>1. Alike(f, w, n)
    BY <1>8, <1>9, Zenon DEF Alike
  <2> QED BY <2>1, RecursionIs
<1>11. \A i \in 0 .. n : f[i] \in Nat
  BY <1>3, <1>10
<1> QED BY <1>7, <1>11, Zenon DEF f

\* One digit more in the product.
LEMMA OnePlaceMore ==
  ASSUME NEW a \in Nat, NEW d \in Nat, NEW p \in Nat, NEW v \in Nat
  PROVE  (10 * a + d) * p + v = a * (10 * p) + (d * p + v)
OBVIOUS

\* Adding up what the digits are worth, from the last, gives the same number
\* as reading them from the first.
LEMMA NumberIs ==
  ASSUME NEW s \in Seq(Text), IsNumber(s), NEW num, Reads(s, num)
  PROVE  NumberOf(s) = num[Len(s)]
<1> DEFINE n == Len(s)
           place == CHOOSE f : f = [i \in 0 .. n |-> IF i = 0 THEN 1 ELSE 10 * f[i - 1]]
           Fun(f) == [i \in 0 .. n |-> IF i = 0 THEN 0
                                       ELSE DigitValue[s[n + 1 - i]] * place[i - 1] + f[i - 1]]
           value == CHOOSE f : f = Fun(f)
<1>1. n \in Nat /\ \A i \in 1 .. n : DigitValue[s[i]] \in Nat
  BY LenProperties, DigitIs DEF IsNumber
<1>2. /\ num \in [0 .. n -> Nat] /\ num[0] = 0
      /\ \A i \in 1 .. n : num[i] = 10 * num[i - 1] + DigitValue[s[i]]
  BY DEF Reads
<1>3. NumberOf(s) = value[n]
  BY Zenon DEF NumberOf
<1> HIDE DEF n
<1>4. n \in Nat
  BY <1>1
<1>5. /\ \A i \in 0 .. n : place[i] \in Nat
      /\ place[0] = 1
      /\ \A i \in 1 .. n : place[i] = 10 * place[i - 1]
  BY <1>4, PlacesExist, Zenon
<1> HIDE DEF place
<1> DEFINE d == [i \in 1 .. n |-> DigitValue[s[n + 1 - i]]]
           worth == [i \in 1 .. n |-> d[i] * place[i - 1]]
           F == [i \in 1 .. n |-> [a \in Nat |-> worth[i] + a]]
<1>6. \A i \in 1 .. n : d[i] = DigitValue[s[n + 1 - i]] /\ d[i] \in Nat
  <2>1. \A i \in 1 .. n : n + 1 - i \in 1 .. n
    BY <1>4
  <2> QED BY <1>1, <2>1
<1> HIDE DEF d
<1>7. \A i \in 1 .. n : worth[i] = d[i] * place[i - 1] /\ worth[i] \in Nat
  <2>1. \A i \in 1 .. n : place[i - 1] \in Nat /\ d[i] \in Nat
    BY <1>4, <1>5, <1>6
  <2>2. \A a, b \in Nat : a * b \in Nat
    OBVIOUS
  <2> QED BY <2>1, <2>2, Zenon
<1> HIDE DEF worth
<1>8. F \in [1 .. n -> [Nat -> Nat]] /\ \A i \in 1 .. n, a \in Nat : F[i][a] = worth[i] + a
  BY <1>7
<1> HIDE DEF F
<1>9. PICK w : Recurs(w, n, Nat, 0, F)
  BY <1>4, <1>8, RecursionExists
<1>10. /\ w \in [0 .. n -> Nat] /\ w[0] = 0
       /\ \A i \in 1 .. n : w[i - 1] \in Nat /\ w[i] = F[i][w[i - 1]]
  BY <1>4, <1>9 DEF Recurs
<1>11. \A i \in 1 .. n : w[i] = DigitValue[s[n + 1 - i]] * place[i - 1] + w[i - 1]
  <2>1. \A i \in 1 .. n : w[i] = worth[i] + w[i - 1]
    BY <1>8, <1>10, Zenon
  <2> QED BY <1>6, <1>7, <2>1, Zenon
<1>12. w = Fun(w)
  <2>1. \A i \in 0 .. n : w[i] = IF i = 0 THEN 0 ELSE DigitValue[s[n + 1 - i]] * place[i - 1] + w[i - 1]
    <3> TAKE i \in 0 .. n
    <3>1. i # 0 => i \in 1 .. n
      BY <1>4
    <3> QED BY <1>10, <1>11, <3>1, Zenon
  <2>2. w = [i \in 0 .. n |-> w[i]]
    BY <1>10, Zenon
  <2> QED BY <2>1, <2>2, Zenon
<1>13. value = Fun(value)
  <2> HIDE DEF Fun
  <2> QED BY <1>12, Zenon
<1> HIDE DEF value
<1>14. value[0] = 0 /\ \A i \in 1 .. n : value[i] = DigitValue[s[n + 1 - i]] * place[i - 1] + value[i - 1]
  <2>1. \A i \in 0 .. n : value[i] = IF i = 0 THEN 0
                                     ELSE DigitValue[s[n + 1 - i]] * place[i - 1] + value[i - 1]
    BY <1>13, Zenon
  <2>2. 0 \in 0 .. n /\ \A i \in 1 .. n : i \in 0 .. n /\ i # 0
    BY <1>4
  <2> QED BY <2>1, <2>2, Zenon
<1>15. \A i \in 0 .. n : value[i] = w[i]
  <2>1. value[0] = w[0]
    BY <1>10, <1>14
  <2>2. \A i \in 1 .. n : value[i - 1] = w[i - 1] => value[i] = w[i]
    BY <1>11, <1>14, Zenon
  <2>3. Alike(value, w, n)
    BY <2>1, <2>2, Zenon DEF Alike
  <2> QED BY <1>4, <2>3, RecursionIs
<1> DEFINE S == {i \in 0 .. n : num[n] = num[n - i] * place[i] + w[i]}
<1>16. 0 \in S
  <2>1. n - 0 = n /\ 0 \in 0 .. n /\ num[n] \in Nat /\ \A a \in Nat : a = a * 1 + 0
    BY <1>2, <1>4
  <2> QED BY <1>5, <1>10, <2>1
<1>17. ASSUME NEW i \in 1 .. n, i - 1 \in S
       PROVE  i \in S
  <2>1. /\ i \in 0 .. n /\ n + 1 - i \in 1 .. n /\ n - (i - 1) = n + 1 - i
        /\ (n + 1 - i) - 1 = n - i /\ n - i \in 0 .. n /\ i - 1 \in 0 .. n
    BY <1>4
  <2>2. num[n] = num[n - (i - 1)] * place[i - 1] + w[i - 1]
    BY <1>17
  <2>3. num[n + 1 - i] = 10 * num[n - i] + d[i]
    BY <1>2, <1>6, <2>1
  <2>4. place[i] = 10 * place[i - 1] /\ w[i] = d[i] * place[i - 1] + w[i - 1]
    BY <1>5, <1>6, <1>11
  <2>5. num[n - i] \in Nat /\ d[i] \in Nat /\ place[i - 1] \in Nat /\ w[i - 1] \in Nat
    BY <1>2, <1>5, <1>6, <1>10, <2>1
  <2>6. num[n] = (10 * num[n - i] + d[i]) * place[i - 1] + w[i - 1]
    BY <2>1, <2>2, <2>3, Zenon
  <2>7. num[n] = num[n - i] * (10 * place[i - 1]) + (d[i] * place[i - 1] + w[i - 1])
    <3> DEFINE a == num[n - i]
               p == place[i - 1]
               v == w[i - 1]
               e == d[i]
    <3>1. a \in Nat /\ p \in Nat /\ v \in Nat /\ e \in Nat /\ num[n] = (10 * a + e) * p + v
      BY <2>5, <2>6, Zenon
    <3> HIDE DEF a, p, v, e
    <3>2. (10 * a + e) * p + v = a * (10 * p) + (e * p + v)
      BY <3>1, OnePlaceMore
    <3>3. num[n] = a * (10 * p) + (e * p + v)
      BY <3>1, <3>2, Zenon
    <3> QED BY <3>3, Zenon DEF a, p, v, e
  <2>8. num[n] = num[n - i] * place[i] + w[i]
    BY <2>4, <2>7, Zenon
  <2> QED BY <2>1, <2>8
<1>18. n \in S
  <2>1. \A i \in 1 .. n : i - 1 \in S => i \in S
    BY <1>17
  <2> HIDE DEF S
  <2>2. \A i \in 0 .. n : i \in S
    BY <1>4, <1>16, <2>1, StepByStep
  <2> QED BY <1>4, <2>2
<1>19. num[n] = w[n]
  <2>1. num[n] = num[n - n] * place[n] + w[n]
    BY <1>18
  <2>2. n - n = 0 /\ n \in 0 .. n
    BY <1>4
  <2>3. place[n] \in Nat /\ w[n] \in Nat
    BY <1>5, <1>10, <2>2
  <2>4. \A a, b \in Nat : 0 * a + b = b
    OBVIOUS
  <2> QED BY <1>2, <2>1, <2>2, <2>3, <2>4, Zenon
<1>20. value[n] = w[n]
  BY <1>4, <1>15
<1> QED BY <1>3, <1>19, <1>20 DEF n

-----------------------------------------------------------------------------
(* What a line does.                                                       *)

\* parse_uint accepts what the argument means.
LEMMA UintIs ==
  ASSUME NEW b, b.type = "number", b.max \in Nat, NEW arg \in Seq(Text), arg # << >>
  PROVE  /\ IsUint(arg, b.max) => Strtoul(arg) \in Meanings(b, arg)
         /\ ~IsUint(arg, b.max) => Meanings(b, arg) = {}
<1> DEFINE N == NumberOf(arg)
           M == {v \in {N, ULongMax} : v =< b.max /\ (v = N \/ N > ULongMax)}
<1>1. Meanings(b, arg) = IF \E i \in DOMAIN arg : arg[i] \notin DOMAIN DigitValue THEN {} ELSE M
  BY DEF Meanings
<1> HIDE DEF M, N
<1>2. CASE ~IsNumber(arg)
  <2>1. \E i \in DOMAIN arg : arg[i] \notin DOMAIN DigitValue
    BY <1>2, Zenon DEF IsNumber
  <2>2. ~IsUint(arg, b.max)
    BY <2>1, Zenon DEF IsUint
  <2> QED BY <1>1, <2>1, <2>2, Zenon
<1>3. CASE IsNumber(arg)
  <2>1. ~\E i \in DOMAIN arg : arg[i] \notin DOMAIN DigitValue
    BY <1>3, Zenon DEF IsNumber
  <2>2. Meanings(b, arg) = M
    BY <1>1, <2>1, Zenon
  <2>3. PICK num : Reads(arg, num)
    BY <1>3, ReadsExist
  <2>4. N \in Nat /\ N = num[Len(arg)]
    <3>1. N = num[Len(arg)]
      BY <1>3, <2>3, NumberIs DEF N
    <3>2. Len(arg) \in 0 .. Len(arg)
      BY LenProperties
    <3> QED BY <2>3, <3>1, <3>2 DEF Reads
  <2>5. Strtoul(arg) = IF N > ULongMax THEN ULongMax ELSE N
    BY <1>3, <2>3, <2>4, StrtoulIs, Zenon
  <2>6. IsUint(arg, b.max) <=> Strtoul(arg) =< b.max
    BY <2>1, Zenon DEF IsUint
  <2>7. ULongMax \in Nat /\ b.max \in Nat
    BY ULongAssumption
  <2>8. Strtoul(arg) =< b.max => Strtoul(arg) \in M
    BY <2>4, <2>5, <2>7 DEF M
  <2>9. ~(Strtoul(arg) =< b.max) => M = {}
    BY <2>4, <2>5, <2>7 DEF M
  <2> QED BY <2>2, <2>6, <2>8, <2>9, Zenon
<1> QED BY <1>2, <1>3

\* A command with one argument does what that argument means.
LEMMA SettingIs ==
  ASSUME NEW i \in DOMAIN Bindings, Bindings[i].type \in {"number", "string"}, NEW s \in Seq(Text)
  PROVE  LET o == SetSetting(Bindings[i], TokenizeArgs(s))
         IN  /\ o.does = "set" =>
                    Len(Arguments(s)) = 1 /\ o.value \in Meanings(Bindings[i], Arguments(s)[1])
             /\ o.does # "set" =>
                    (Len(Arguments(s)) = 1 => Meanings(Bindings[i], Arguments(s)[1]) = {})
<1> DEFINE b == Bindings[i]
           out == TokenizeArgs(s)
           arg == Arguments(s)[1]
           o == SetSetting(b, out)
<1>1. /\ TokenCount(out) = 1 <=> Len(Arguments(s)) = 1
      /\ TokenCount(out) = 1 => FirstToken(out) = arg /\ arg \in Seq(Text) /\ arg # << >>
  BY TokensAre, Zenon
<1>2. b.type \in {"number", "string"} /\ b.max \in Nat
  BY BindingAssumption
<1>3. Does("refused").does # "set"
  BY DEF Does
<1> HIDE DEF b, out, arg
<1>4. CASE TokenCount(out) # 1
  <2>1. o = Does("refused")
    BY <1>4, Zenon DEF SetSetting
  <2> QED BY <1>1, <1>3, <1>4, <2>1, Zenon DEF b, out, arg
<1>5. CASE TokenCount(out) = 1 /\ b.type = "number"
  <2>1. o = IF IsUint(arg, b.max) THEN [does |-> "set", value |-> Strtoul(arg)] ELSE Does("refused")
    BY <1>1, <1>5, Zenon DEF SetSetting
  <2>2. /\ IsUint(arg, b.max) => Strtoul(arg) \in Meanings(b, arg)
        /\ ~IsUint(arg, b.max) => Meanings(b, arg) = {}
    BY <1>1, <1>2, <1>5, UintIs, Zenon
  <2> HIDE DEF o
  <2>3. CASE IsUint(arg, b.max)
    <3>1. o.does = "set" /\ o.value = Strtoul(arg)
      BY <2>1, <2>3
    <3> QED BY <1>1, <1>5, <2>2, <2>3, <3>1, Zenon DEF b, out, arg, o
  <2>4. CASE ~IsUint(arg, b.max)
    <3>1. o = Does("refused")
      BY <2>1, <2>4, Zenon
    <3> QED BY <1>1, <1>3, <2>2, <2>4, <3>1, Zenon DEF b, out, arg, o
  <2> QED BY <2>3, <2>4
<1>6. CASE TokenCount(out) = 1 /\ b.type = "string"
  <2>1. o = IF Len(arg) < b.max THEN [does |-> "set", value |-> arg] ELSE Does("refused")
    <3>1. b.type # "number"
      BY <1>6
    <3> QED BY <1>1, <1>6, <3>1, Zenon DEF SetSetting
  <2>2. Meanings(b, arg) = IF Len(arg) < b.max THEN {arg} ELSE {}
    BY <1>6 DEF Meanings
  <2> HIDE DEF o
  <2>3. CASE Len(arg) < b.max
    <3>1. o.does = "set" /\ o.value = arg /\ arg \in Meanings(b, arg)
      BY <2>1, <2>2, <2>3
    <3> QED BY <1>1, <1>6, <3>1, Zenon DEF b, out, arg, o
  <2>4. CASE ~(Len(arg) < b.max)
    <3>1. o = Does("refused") /\ Meanings(b, arg) = {}
      BY <2>1, <2>2, <2>4, Zenon
    <3> QED BY <1>1, <1>3, <3>1, Zenon DEF b, out, arg, o
  <2> QED BY <2>3, <2>4
<1> QED BY <1>2, <1>4, <1>5, <1>6

\* onHelp sets nothing.
LEMMA HelpIs ==
  ASSUME NEW s \in Seq(Text)
  PROVE  Help(TokenizeArgs(s)).does # "set"
<1> DEFINE out == TokenizeArgs(s)
           ends == {i \in 1 .. Len(out) - 1 : out[i] = Nul}
<1>1. Len(out) \in Nat
  <2>1. PICK w : Tokenizes(s, w)
    BY TokenizeRuns
  <2>2. out = w[Len(s)].out
    BY <2>1, TokenizeIs
  <2>3. Len(s) \in 0 .. Len(s)
    BY LenProperties
  <2>4. w[Len(s)] \in Tokenizing
    BY <2>1, <2>3 DEF Tokenizes
  <2>5. out \in Seq(Byte)
    BY <2>2, <2>4 DEF Tokenizing
  <2> QED BY <2>5, LenProperties
<1> HIDE DEF out
<1>2. TokenCount(out) \in Nat
  <2>1. IsFiniteSet(1 .. Len(out) - 1) /\ ends \in SUBSET (1 .. Len(out) - 1)
    <3>1. 1 \in Int /\ Len(out) - 1 \in Int
      BY <1>1
    <3>2. IsFiniteSet(1 .. Len(out) - 1)
      BY <3>1, FS_Interval
    <3> QED BY <3>2
  <2>2. TokenCount(out) = IF out = << >> THEN 0 ELSE 1 + Cardinality(ends)
    BY Zenon DEF TokenCount
  <2> HIDE DEF ends
  <2>3. Cardinality(ends) \in Nat
    BY <2>1, FS_Subset, FS_CardinalityType
  <2> QED BY <2>2, <2>3
<1> DEFINE known == \E i \in DOMAIN Bindings : Bindings[i].name = FirstToken(out)
<1>3. Help(out) = CASE TokenCount(out) = 0 -> Does("list")
                    [] TokenCount(out) = 1 -> Does(IF known THEN "explains" ELSE "unknown")
                    [] TokenCount(out) > 1 -> Does("refused")
  BY Zenon DEF Help
<1> HIDE DEF known
<1>4. Help(out) \in {Does("list"), Does(IF known THEN "explains" ELSE "unknown"), Does("refused")}
  <2>1. TokenCount(out) = 0 \/ TokenCount(out) = 1 \/ TokenCount(out) > 1
    BY <1>2
  <2> QED BY <1>3, <2>1
<1>5. \A h \in {Does("list"), Does(IF known THEN "explains" ELSE "unknown"), Does("refused")} : h.does # "set"
  BY DEF Does
<1> QED BY <1>4, <1>5, Zenon DEF out

\* A line that is not blank does what it says.
LEMMA LineDoes ==
  ASSUME NEW t \in Seq(Text), ~IsBlank(t)
  PROVE  LET o == ParseCommand(t)
         IN  (o.does = "set" => o.value \in Sets(t)) /\ (o.does # "set" => Sets(t) = {})
<1>1. PICK st, n : Splits(t, st, n)
  BY SplitExists
<1> DEFINE o == ParseCommand(t)
           w == Word(t, st, n)
           r == Rest(t, st, n)
           out == TokenizeArgs(r)
           arg == Arguments(r)[1]
<1>2. /\ \A i \in DOMAIN Bindings : Bindings[i].name = w => o = Execute(Bindings[i], out)
      /\ (\A i \in DOMAIN Bindings : Bindings[i].name # w) => o = Does("unknown")
  BY <1>1, ParseIs, Zenon
<1>3. /\ \A i \in DOMAIN Bindings :
             Bindings[i].name = w =>
                 Sets(t) = IF Len(Arguments(r)) = 1 /\ arg \notin HelpFlags
                           THEN Meanings(Bindings[i], arg) ELSE {}
      /\ (\A i \in DOMAIN Bindings : Bindings[i].name # w) => Sets(t) = {}
  BY <1>1, SetsAre, Zenon
<1>4. r \in Seq(Text)
  BY <1>1, SplitIs
<1> HIDE DEF w, r
<1>5. /\ TokenCount(out) = 1 <=> Len(Arguments(r)) = 1
      /\ TokenCount(out) = 1 => FirstToken(out) = arg
  BY <1>4, TokensAre, Zenon
<1>6. \A x \in {"unknown", "usage", "runs"} : Does(x).does # "set"
  BY DEF Does
<1>7. ASSUME \A i \in DOMAIN Bindings : Bindings[i].name # w
      PROVE  (o.does = "set" => o.value \in Sets(t)) /\ (o.does # "set" => Sets(t) = {})
  <2>1. o.does # "set" /\ Sets(t) = {}
    BY <1>2, <1>3, <1>6, <1>7
  <2> HIDE DEF o
  <2> QED BY <2>1, Zenon
<1>8. ASSUME NEW i \in DOMAIN Bindings, Bindings[i].name = w
      PROVE  (o.does = "set" => o.value \in Sets(t)) /\ (o.does # "set" => Sets(t) = {})
  <2> DEFINE b == Bindings[i]
             one == Len(Arguments(r)) = 1
  <2>1. o = Execute(b, out)
    BY <1>2, <1>8, Zenon
  <2>2. Sets(t) = IF one /\ arg \notin HelpFlags THEN Meanings(b, arg) ELSE {}
    BY <1>3, <1>8, Zenon
  <2>3. b.type \in {"help", "ignores", "number", "string"}
    BY BindingAssumption DEF CommandType
  <2>4. one => FirstToken(out) = arg
    BY <1>5, Zenon
  <2>5. b.type \in {"number", "string"} =>
            /\ SetSetting(b, out).does = "set" =>
                   one /\ SetSetting(b, out).value \in Meanings(b, arg)
            /\ SetSetting(b, out).does # "set" => (one => Meanings(b, arg) = {})
    BY <1>4, SettingIs, Zenon
  <2>6. Help(out).does # "set"
    BY <1>4, HelpIs
  <2>7. b.type \in {"help", "ignores"} => Meanings(b, arg) = {}
    BY DEF Meanings
  <2> HIDE DEF o, out, arg, b, one
  <2>8. CASE FirstToken(out) \in HelpFlags
    <3>1. o = Does("usage")
      BY <2>1, <2>8, Zenon DEF Execute
    <3>2. Sets(t) = {}
      BY <2>2, <2>4, <2>8
    <3> QED BY <1>6, <3>1, <3>2
  <2>9. CASE FirstToken(out) \notin HelpFlags /\ b.type \in {"help", "ignores"}
    <3>1. o = IF b.type = "help" THEN Help(out) ELSE Does("runs")
      BY <2>1, <2>9 DEF Execute
    <3>2. o.does # "set"
      BY <1>6, <2>6, <3>1
    <3>3. Sets(t) = {}
      BY <2>2, <2>7, <2>9
    <3> QED BY <3>2, <3>3
  <2>10. CASE FirstToken(out) \notin HelpFlags /\ b.type \in {"number", "string"}
    <3>1. o = SetSetting(b, out)
      <4>1. b.type # "help" /\ b.type # "ignores"
        BY <2>10
      <4> QED BY <2>1, <2>10, <4>1, Zenon DEF Execute
    <3>2. CASE o.does = "set"
      <4>1. one /\ o.value \in Meanings(b, arg)
        BY <2>5, <2>10, <3>1, <3>2, Zenon
      <4>2. arg \notin HelpFlags
        BY <2>4, <2>10, <4>1
      <4> QED BY <2>2, <3>2, <4>1, <4>2
    <3>3. CASE o.does # "set"
      <4>1. one => Meanings(b, arg) = {}
        BY <2>5, <2>10, <3>1, <3>3, Zenon
      <4> QED BY <2>2, <3>3, <4>1
    <3> QED BY <3>2, <3>3
  <2> QED BY <2>3, <2>8, <2>9, <2>10
<1> HIDE DEF o
<1>9. (o.does = "set" => o.value \in Sets(t)) /\ (o.does # "set" => Sets(t) = {})
  <2>1. CASE \A i \in DOMAIN Bindings : Bindings[i].name # w
    BY <1>7, <2>1, Zenon
  <2>2. CASE \E i \in DOMAIN Bindings : Bindings[i].name = w
    BY <1>8, <2>2, Zenon
  <2> QED BY <2>1, <2>2, Zenon
<1> QED BY <1>9, Zenon DEF o

\* Only Enter gives a line to parseCommand.
LEMMA OnlyEnterActs ==
  ASSUME NEW c \in Char, Key(c)
  PROVE  outcome' = outcome \/ Enter
<1>1. \A x : Arrow(x) => outcome' = outcome
  BY Zenon DEF Arrow, Keeps
<1>2. Control(c) => outcome' = outcome \/ Enter
  BY Zenon DEF Control, Keeps
<1>3. Keeps => outcome' = outcome
  BY DEF Keeps
<1> QED BY <1>1, <1>2, <1>3, Zenon DEF Key

\* What is entered is the completed line.
LEMMA EnterActs ==
  ASSUME EditorInv, SetsWhatWasTyped, Enter
  PROVE  SetsWhatWasTyped'
<1> DEFINE e == Autocomplete(Edit)
           t == e.line
           o == ParseCommand(t)
<1>1. t \in Seq(Text)
  <2>1. EditOK(e)
    BY EditIs, AutocompleteIs
  <2> HIDE DEF e
  <2> QED BY <2>1 DEF EditOK, Edits
<1>2. outcome' = IF ~IsBlank(t) THEN [of |-> t, does |-> o.does, value |-> o.value] ELSE outcome
  BY Zenon DEF Enter
<1> HIDE DEF e, t, o
<1>3. CASE IsBlank(t)
  <2>1. outcome' = outcome
    BY <1>2, <1>3
  <2> QED BY <2>1, Zenon DEF SetsWhatWasTyped
<1>4. CASE ~IsBlank(t)
  <2>1. outcome' = [of |-> t, does |-> o.does, value |-> o.value]
    BY <1>2, <1>4
  <2>2. outcome'.of = t /\ outcome'.does = o.does /\ outcome'.value = o.value
    BY <2>1
  <2>3. (o.does = "set" => o.value \in Sets(t)) /\ (o.does # "set" => Sets(t) = {})
    BY <1>1, <1>4, LineDoes, Zenon DEF o
  <2>4. (outcome'.does = "set" => outcome'.value \in Sets(outcome'.of))
        /\ (outcome'.does # "set" => Sets(outcome'.of) = {})
    BY <2>2, <2>3, Zenon
  <2> QED BY <2>4, Zenon DEF SetsWhatWasTyped
<1> QED BY <1>3, <1>4

\* Before the first command nothing has been set, and nothing typed would.
LEMMA NothingSet == Sets(<< >>) = {}
<1> DEFINE calls == {c \in (DOMAIN Bindings) \X Tails(<< >>) : Calls(<< >>, Bindings[c[1]], c[2])}
<1>1. << >> \in Seq(Text) /\ Len(<< >>) = 0
  BY EmptySeq
<1>2. ASSUME NEW c \in calls
      PROVE  FALSE
  <2>1. c[1] \in DOMAIN Bindings /\ c[2] \in Tails(<< >>) /\ Calls(<< >>, Bindings[c[1]], c[2])
    BY <1>2
  <2> DEFINE name == Bindings[c[1]].name
             args == c[2]
  <2>2. name \in Seq(Text) /\ Len(name) \in Nat /\ Len(name) > 0
    <3>1. name \in Seq(Letters) /\ Len(name) > 0
      BY <2>1, NameAssumption, BindingAssumption
    <3> HIDE DEF name
    <3> QED BY <3>1, SeqMonotonic, LenProperties DEF Text
  <2>3. \A k \in 1 .. 1 : From(<< >>, k) \in Seq(Text) /\ Len(From(<< >>, k)) = 0
    <3> TAKE k \in 1 .. 1
    <3>1. k \in 1 .. Len(<< >>) + 1 /\ Len(<< >>) - k + 1 = 0
      BY <1>1
    <3>2. From(<< >>, k) \in Seq(Text) /\ Len(From(<< >>, k)) = Len(<< >>) - k + 1
      BY <1>1, <3>1, FromIs
    <3> QED BY <3>1, <3>2
  <2>4. args \in Seq(Text)
    <3>1. PICK k \in 1 .. Len(<< >>) + 1 : args = From(<< >>, k)
      BY <2>1 DEF Tails
    <3>2. k \in 1 .. 1
      BY <1>1, <3>1
    <3> QED BY <2>3, <3>1, <3>2
  <2>5. PICK k \in 0 .. Len(<< >>) : From(<< >>, k + 1) = name \o args
    BY <2>1, Zenon DEF Calls
  <2>6. k + 1 \in 1 .. 1
    BY <1>1, <2>5
  <2> HIDE DEF name, args
  <2>7. Len(name \o args) = Len(name) + Len(args) /\ Len(args) \in Nat
    BY <2>2, <2>4, ConcatProperties, LenProperties
  <2>8. Len(name \o args) = 0
    BY <2>3, <2>5, <2>6
  <2> QED BY <2>2, <2>7, <2>8
<1>3. calls = {}
  <2> HIDE DEF calls
  <2> QED BY <1>2
<1> DEFINE good == {c \in calls : Len(Arguments(c[2])) = 1 /\ Arguments(c[2])[1] \notin HelpFlags}
<1>4. Sets(<< >>) = UNION {Meanings(Bindings[c[1]], Arguments(c[2])[1]) : c \in good}
  BY Zenon DEF Sets
<1> HIDE DEF calls
<1>5. good = {}
  BY <1>3
<1> HIDE DEF good
<1> QED BY <1>4, <1>5

\* A line that is entered, completed as it may be, changes a setting exactly if
\* it is the setting's name with one argument that it accepts, and to what that
\* argument says (parseCommand and embeddedCliTokenizeArgs, embedded_cli.h
\* 964-1053 and 1170-1252; set_setting and parse_uint, commands.c 85-95 and
\* 118-160).
THEOREM TypedIsSet == Spec => []SetsWhatWasTyped
<1>1. Init => SetsWhatWasTyped
  <2> SUFFICES ASSUME Init PROVE SetsWhatWasTyped
    OBVIOUS
  <2>1. outcome.of = << >> /\ outcome.does # "set"
    BY DEF Init, NoOutcome
  <2> QED BY <2>1, NothingSet, Zenon DEF SetsWhatWasTyped
<1>2. EditorInv /\ SetsWhatWasTyped /\ [Next]_vars => SetsWhatWasTyped'
  <2> SUFFICES ASSUME EditorInv, SetsWhatWasTyped, [Next]_vars
               PROVE  SetsWhatWasTyped'
    OBVIOUS
  <2>1. outcome' = outcome \/ Enter
    BY OnlyEnterActs, Zenon DEF Next, Log, vars
  <2>2. CASE outcome' = outcome
    BY <2>2, Zenon DEF SetsWhatWasTyped
  <2>3. CASE Enter
    BY <2>3, EnterActs
  <2> QED BY <2>1, <2>2, <2>3
<1> QED BY <1>1, <1>2, EditorInvariant, PTL DEF Spec
=============================================================================
