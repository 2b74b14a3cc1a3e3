------------------------- MODULE RequestHeadProofs -------------------------
(***************************************************************************)
(* A head is read the same in however many pieces it arrives, and one that *)
(* a client writes is read as it was meant, however many fields it has.    *)
(*                                                                         *)
(* The parser begins at the front with every piece, so a head that it has  *)
(* read to its end, or refused, is read so when more of it is there. The   *)
(* search for the blank line begins in the middle: what it passes over is  *)
(* settled by the pieces before, and it agrees with the parser on where a  *)
(* head ends.                                                              *)
(***************************************************************************)
EXTENDS RequestHead, SequenceTheorems, WellFoundedInduction, TLAPS

-----------------------------------------------------------------------------
(* Induction. The theorems of the library take an operator; here it is the *)
(* set of the numbers for which something holds.                           *)

LEMMA LeastNumber ==
  ASSUME NEW T, T \subseteq Nat, T # {}
  PROVE  \E x \in T : \A y \in T : x <= y
<1> DEFINE less == {r \in Nat \X Nat : r[1] < r[2]}
<1>1. IsWellFoundedOn(less, Nat)
  BY NatLessThanWellFounded, Zenon DEF OpToRel
<1> HIDE DEF less
<1>2. PICK x \in T : \A y \in T : ~(<<y, x>> \in less)
  BY <1>1, WFMin, Zenon
<1>3. ASSUME NEW y \in T PROVE x <= y
  <2>1. x \in Nat /\ y \in Nat /\ ~(<<y, x>> \in less)
    BY <1>2
  <2>2. <<y, x>> \in Nat \X Nat /\ <<y, x>>[1] = y /\ <<y, x>>[2] = x
    BY <2>1
  <2>3. ~(y < x)
    BY <2>1, <2>2, Zenon DEF less
  <2> QED BY <2>1, <2>3
<1> QED BY <1>3

LEMMA Induction ==
  ASSUME NEW S, NEW m \in Nat, NEW n \in Nat, m \in S,
         \A k \in m..(n - 1) : k \in S => k + 1 \in S
  PROVE  m..n \subseteq S
<1> DEFINE T == {k \in m..n : k \notin S}
<1> SUFFICES ASSUME T # {} PROVE FALSE
  OBVIOUS
<1>1. T \subseteq Nat
  OBVIOUS
<1>2. PICK x \in T : \A y \in T : x <= y
  <2> HIDE DEF T
  <2> QED BY <1>1, LeastNumber
<1>3. x \in m..n /\ x \notin S /\ x # m
  OBVIOUS
<1>4. x - 1 \in m..(n - 1) /\ x - 1 \in m..n /\ (x - 1) + 1 = x
  BY <1>3
<1>5. x - 1 \notin T
  BY <1>2, <1>4
<1> QED BY <1>3, <1>4, <1>5

\* The least of some numbers is the one that is chosen.
LEMMA Least ==
  ASSUME NEW T, T \subseteq Nat, T # {}
  PROVE  LET least == CHOOSE q \in T : \A m \in T : q <= m
         IN  least \in T /\ \A m \in T : least <= m
BY LeastNumber

LEMMA LeastIs ==
  ASSUME NEW T, T \subseteq Nat, NEW q \in T, \A m \in T : q <= m
  PROVE  (CHOOSE x \in T : \A m \in T : x <= m) = q
<1> DEFINE x == CHOOSE x \in T : \A m \in T : x <= m
<1>1. x \in T /\ \A m \in T : x <= m
  OBVIOUS
<1>2. x <= q /\ q <= x /\ x \in Nat /\ q \in Nat
  BY <1>1
<1> HIDE DEF x
<1>3. x = q
  BY <1>2
<1> QED BY <1>3 DEF x

-----------------------------------------------------------------------------
(* Places in a text *)

\* The place that is looked for, or the end.
LEMMA Found ==
  ASSUME NEW s, Len(s) \in Nat, NEW p \in Nat \ {0}, NEW chars
  PROVE  LET q == Find(s, p, chars)
         IN  /\ q \in Nat \ {0} /\ q <= Len(s) + 1
             /\ q <= Len(s) => q \in p..Len(s) /\ s[q] \in chars
             /\ \A m \in p..Len(s) : m < q => s[m] \notin chars
<1> DEFINE there == {q \in p..Len(s) : s[q] \in chars}
           P == p..Len(s) \cup {Len(s) + 1}
           Stop(q) == (q <= Len(s) => s[q] \in chars) /\ \A m \in p..(q - 1) : s[m] \notin chars
           f == Find(s, p, chars)
<1>1. \E q \in P : Stop(q)
  <2>1. CASE there = {}
    <3>1. Len(s) + 1 \in P /\ ~(Len(s) + 1 <= Len(s)) /\ (Len(s) + 1) - 1 = Len(s)
      OBVIOUS
    <3> QED BY <2>1, <3>1
  <2>2. CASE there # {}
    <3>1. there \subseteq Nat
      OBVIOUS
    <3>2. PICK q \in there : \A m \in there : q <= m
      <4> HIDE DEF there
      <4> QED BY <2>2, <3>1, LeastNumber
    <3>3. q \in p..Len(s) /\ s[q] \in chars
      OBVIOUS
    <3>4. ASSUME NEW m \in p..(q - 1) PROVE s[m] \notin chars
      <4>1. m \in p..Len(s) /\ m < q
        BY <3>3
      <4>2. s[m] \in chars => m \in there
        BY <4>1
      <4> QED BY <3>2, <4>1, <4>2
    <3>5. q \in P /\ Stop(q)
      BY <3>3, <3>4
    <3> QED BY <3>5
  <2> QED BY <2>1, <2>2
<1>2. f = CHOOSE q \in P : Stop(q)
  BY DEF Find
<1> HIDE DEF P, Stop, f
<1>3. f \in P /\ Stop(f)
  BY <1>1, <1>2, Zenon
<1>4. /\ f \in Nat \ {0} /\ f <= Len(s) + 1
      /\ f <= Len(s) => f \in p..Len(s) /\ s[f] \in chars
      /\ \A m \in p..Len(s) : m < f => s[m] \notin chars
  BY <1>3 DEF P, Stop
<1> QED BY <1>4 DEF f

LEMMA FindIs ==
  ASSUME NEW s, Len(s) \in Nat, NEW p \in Nat \ {0}, NEW chars,
         NEW q \in p..Len(s), s[q] \in chars,
         \A m \in p..Len(s) : m < q => s[m] \notin chars
  PROVE  Find(s, p, chars) = q
<1> DEFINE f == Find(s, p, chars)
<1>1. /\ f \in Nat \ {0} /\ f <= Len(s) + 1
      /\ f <= Len(s) => f \in p..Len(s) /\ s[f] \in chars
      /\ \A m \in p..Len(s) : m < f => s[m] \notin chars
  BY Found
<1> HIDE DEF f
<1>2. ~(q < f) /\ ~(f < q)
  BY <1>1
<1> QED BY <1>1, <1>2 DEF f

\* The first place without one of the characters.
FindOther(s, p, chars) == Find(s, p, {s[m] : m \in p..Len(s)} \ chars)

LEMMA FoundOther ==
  ASSUME NEW s, Len(s) \in Nat, NEW p \in Nat \ {0}, NEW chars
  PROVE  LET q == FindOther(s, p, chars)
         IN  /\ q \in Nat \ {0} /\ q <= Len(s) + 1
             /\ q <= Len(s) => q \in p..Len(s) /\ s[q] \notin chars
             /\ \A m \in p..Len(s) : m < q => s[m] \in chars
<1> DEFINE others == {s[m] : m \in p..Len(s)} \ chars
<1>1. \A m \in p..Len(s) : s[m] \in others <=> s[m] \notin chars
  OBVIOUS
<1>2. FindOther(s, p, chars) = Find(s, p, others)
  BY DEF FindOther
<1> HIDE DEF others
<1> QED BY <1>1, <1>2, Found

LEMMA FindOtherIs ==
  ASSUME NEW s, Len(s) \in Nat, NEW p \in Nat \ {0}, NEW chars,
         NEW q \in p..Len(s), s[q] \notin chars,
         \A m \in p..Len(s) : m < q => s[m] \in chars
  PROVE  FindOther(s, p, chars) = q
<1> DEFINE others == {s[m] : m \in p..Len(s)} \ chars
<1>1. \A m \in p..Len(s) : s[m] \in others <=> s[m] \notin chars
  OBVIOUS
<1>2. FindOther(s, p, chars) = Find(s, p, others)
  BY DEF FindOther
<1> HIDE DEF others
<1> QED BY <1>1, <1>2, FindIs

LEMMA FoundWithin ==
  ASSUME NEW s, Len(s) \in Nat, NEW p \in 1..(Len(s) + 1), NEW chars
  PROVE  /\ Find(s, p, chars) \in p..(Len(s) + 1)
         /\ FindOther(s, p, chars) \in p..(Len(s) + 1)
<1> DEFINE q == Find(s, p, chars)
           o == FindOther(s, p, chars)
<1>1. p \in Nat \ {0}
  OBVIOUS
<1>2. q \in Nat /\ q <= Len(s) + 1 /\ (q <= Len(s) => q \in p..Len(s))
  BY <1>1, Found
<1>3. o \in Nat /\ o <= Len(s) + 1 /\ (o <= Len(s) => o \in p..Len(s))
  BY <1>1, FoundOther
<1> HIDE DEF q, o
<1>4. q \in p..(Len(s) + 1) /\ o \in p..(Len(s) + 1)
  BY <1>2, <1>3
<1> QED BY <1>4 DEF q, o

-----------------------------------------------------------------------------
(* More of a text *)

\* The text t is what has arrived of s.
Starts(t, s) == /\ Len(t) \in Nat /\ Len(s) \in Nat /\ Len(t) <= Len(s)
                /\ \A j \in 1..Len(t) : t[j] = s[j]

LEMMA FindMore ==
  ASSUME NEW s, NEW t, Starts(t, s), NEW p \in Nat \ {0}, NEW chars,
         Find(t, p, chars) <= Len(t)
  PROVE  Find(s, p, chars) = Find(t, p, chars)
<1> DEFINE q == Find(t, p, chars)
<1>1. /\ q \in p..Len(t) /\ t[q] \in chars
      /\ \A m \in p..Len(t) : m < q => t[m] \notin chars
  BY Found DEF Starts
<1> HIDE DEF q
<1>2. /\ q \in p..Len(s) /\ s[q] \in chars
      /\ \A m \in p..Len(s) : m < q => s[m] \notin chars
  BY <1>1 DEF Starts
<1>3. Len(s) \in Nat
  BY DEF Starts
<1> QED BY <1>2, <1>3, FindIs DEF q

LEMMA FindOtherMore ==
  ASSUME NEW s, NEW t, Starts(t, s), NEW p \in Nat \ {0}, NEW chars,
         FindOther(t, p, chars) <= Len(t)
  PROVE  FindOther(s, p, chars) = FindOther(t, p, chars)
<1> DEFINE q == FindOther(t, p, chars)
<1>1. /\ q \in p..Len(t) /\ t[q] \notin chars
      /\ \A m \in p..Len(t) : m < q => t[m] \in chars
  BY FoundOther DEF Starts
<1> HIDE DEF q
<1>2. /\ q \in p..Len(s) /\ s[q] \notin chars
      /\ \A m \in p..Len(s) : m < q => s[m] \in chars
  BY <1>1 DEF Starts
<1>3. Len(s) \in Nat
  BY DEF Starts
<1> QED BY <1>2, <1>3, FindOtherIs DEF q

\* A place, or why there is none.
Place(s) == {invalid, incomplete} \cup 1..(Len(s) + 1)

LEMMA EndOfLineMore ==
  ASSUME NEW s, NEW t, Starts(t, s), NEW p \in Place(t), EndOfLine(t, p) # incomplete
  PROVE  EndOfLine(s, p) = EndOfLine(t, p)
<1>1. CASE p < 0
  BY <1>1, Zenon DEF EndOfLine
<1>2. CASE p >= 0
  <2>1. p \in 1..(Len(t) + 1) /\ Len(t) \in Nat /\ Len(s) \in Nat /\ Len(t) <= Len(s)
    BY <1>2 DEF Place, invalid, incomplete, Starts
  <2>2. p <= Len(t) /\ ~(p = Len(t) /\ t[p] = "CR")
    BY <2>1 DEF EndOfLine
  <2>3. s[p] = t[p] /\ (p < Len(t) => s[p + 1] = t[p + 1])
    BY <2>1, <2>2 DEF Starts
  <2>4. CASE t[p] = "LF"
    BY <2>1, <2>2, <2>3, <2>4 DEF EndOfLine
  <2>5. CASE t[p] = "CR"
    BY <2>1, <2>2, <2>3, <2>5 DEF EndOfLine
  <2>6. CASE t[p] \notin {"CR", "LF"}
    BY <2>1, <2>2, <2>3, <2>6 DEF EndOfLine
  <2> QED BY <2>4, <2>5, <2>6
<1> QED BY <1>1, <1>2 DEF Place, invalid, incomplete, Starts

LEMMA EndOfLineIs ==
  ASSUME NEW s, Len(s) \in Nat, NEW p \in Place(s)
  PROVE  /\ EndOfLine(s, p) \in Place(s)
         /\ p < 0 => EndOfLine(s, p) = p
         /\ p > 0 /\ EndOfLine(s, p) > 0 =>
              /\ p <= Len(s) /\ s[p] \in {"CR", "LF"} /\ EndOfLine(s, p) > p
              /\ s[EndOfLine(s, p) - 1] = "LF"
              /\ EndOfLine(s, p) = IF s[p] = "LF" THEN p + 1 ELSE p + 2
              /\ s[p] = "CR" => p < Len(s) /\ s[p + 1] = "LF"
         /\ p > 0 /\ EndOfLine(s, p) = incomplete =>
              p > Len(s) \/ (p = Len(s) /\ s[p] = "CR")
<1>1. CASE p < 0
  <2>1. EndOfLine(s, p) = p
    BY <1>1, Zenon DEF EndOfLine
  <2> QED BY <1>1, <2>1 DEF Place, invalid, incomplete
<1>2. CASE p >= 0
  <2>1. p \in 1..(Len(s) + 1)
    BY <1>2 DEF Place, invalid, incomplete
  <2>2. CASE p > Len(s) \/ (p = Len(s) /\ s[p] = "CR")
    <3>1. EndOfLine(s, p) = incomplete
      BY <2>1, <2>2 DEF EndOfLine
    <3> QED BY <2>1, <2>2, <3>1 DEF Place, incomplete
  <2>3. CASE p <= Len(s) /\ s[p] = "LF"
    <3>1. EndOfLine(s, p) = p + 1
      BY <2>1, <2>3 DEF EndOfLine
    <3> QED BY <2>1, <2>3, <3>1 DEF Place, incomplete
  <2>4. CASE p < Len(s) /\ s[p] = "CR" /\ s[p + 1] = "LF"
    <3>1. EndOfLine(s, p) = p + 2
      BY <2>1, <2>4 DEF EndOfLine
    <3> QED BY <2>1, <2>4, <3>1 DEF Place, incomplete
  <2>5. CASE p <= Len(s) /\ s[p] # "LF" /\ ~(p = Len(s) /\ s[p] = "CR")
             /\ ~(p < Len(s) /\ s[p] = "CR" /\ s[p + 1] = "LF")
    <3>1. EndOfLine(s, p) = invalid
      BY <2>1, <2>5 DEF EndOfLine
    <3> QED BY <2>1, <2>5, <3>1 DEF Place, incomplete, invalid
  <2> QED BY <2>1, <2>2, <2>3, <2>4, <2>5
<1> QED BY <1>1, <1>2 DEF Place, invalid, incomplete

LEMMA TokenIs ==
  ASSUME NEW s, Len(s) \in Nat, NEW p \in Place(s)
  PROVE  LET q == ADVANCE_TOKEN(s, p)
         IN  /\ q \in Place(s) /\ (p < 0 => q = p)
             /\ p > 0 /\ q > 0 =>
                  q \in p..Len(s) /\ s[q] = SP /\ \A m \in p..(q - 1) : s[m] \notin Control
             /\ p > 0 /\ q = incomplete => \A m \in p..Len(s) : s[m] \notin Control
<1> DEFINE f == Find(s, p, Control \cup {SP})
<1>1. CASE p < 0
  BY <1>1 DEF Place, invalid, incomplete, ADVANCE_TOKEN
<1>2. CASE ~(p < 0)
  <2>1. p \in Nat \ {0} /\ p <= Len(s) + 1
    BY <1>2 DEF Place, invalid, incomplete
  <2>2. /\ f \in Nat \ {0} /\ f <= Len(s) + 1
        /\ f <= Len(s) => f \in p..Len(s) /\ s[f] \in Control \cup {SP}
        /\ \A m \in p..Len(s) : m < f => s[m] \notin Control \cup {SP}
    BY <2>1, Found
  <2>3. ADVANCE_TOKEN(s, p) = IF f > Len(s) THEN incomplete ELSE IF s[f] = SP THEN f ELSE invalid
    BY <1>2 DEF ADVANCE_TOKEN
  <2> HIDE DEF f
  <2>4. CASE f > Len(s)
    <3>1. \A m \in p..Len(s) : m < f
      BY <2>1, <2>4, <2>2
    <3> QED BY <2>1, <2>2, <2>3, <2>4, <3>1 DEF Place, incomplete
  <2>5. CASE f <= Len(s) /\ s[f] = SP
    <3>1. ADVANCE_TOKEN(s, p) = f
      BY <2>2, <2>3, <2>5
    <3>2. \A m \in p..(f - 1) : m \in p..Len(s) /\ m < f
      BY <2>1, <2>5, <2>2
    <3> QED BY <2>1, <2>2, <2>5, <3>1, <3>2 DEF Place, incomplete
  <2>6. CASE f <= Len(s) /\ s[f] # SP
    <3>1. ADVANCE_TOKEN(s, p) = invalid
      BY <2>2, <2>3, <2>6
    <3> QED BY <2>1, <3>1 DEF Place, incomplete, invalid
  <2> QED BY <2>2, <2>4, <2>5, <2>6
<1> QED BY <1>1, <1>2

LEMMA TokenMore ==
  ASSUME NEW s, NEW t, Starts(t, s), NEW p \in Place(t), ADVANCE_TOKEN(t, p) # incomplete
  PROVE  ADVANCE_TOKEN(s, p) = ADVANCE_TOKEN(t, p)
<1> DEFINE f == Find(t, p, Control \cup {SP})
           g == Find(s, p, Control \cup {SP})
<1>1. CASE p < 0
  BY <1>1, Zenon DEF ADVANCE_TOKEN
<1>2. CASE ~(p < 0)
  <2>1. p \in Nat \ {0} /\ Len(t) \in Nat /\ Len(s) \in Nat /\ Len(t) <= Len(s)
    BY <1>2 DEF Place, invalid, incomplete, Starts
  <2>2. /\ f \in Nat \ {0}
        /\ f <= Len(t) => f \in p..Len(t)
    BY <2>1, Found
  <2>3. /\ ADVANCE_TOKEN(t, p) = IF f > Len(t) THEN incomplete ELSE IF t[f] = SP THEN f ELSE invalid
        /\ ADVANCE_TOKEN(s, p) = IF g > Len(s) THEN incomplete ELSE IF s[g] = SP THEN g ELSE invalid
    BY <1>2, Zenon DEF ADVANCE_TOKEN
  <2>4. f <= Len(t)
    <3> HIDE DEF f
    <3> QED BY <2>1, <2>2, <2>3
  <2>5. g = f
    BY <2>1, <2>4, FindMore
  <2>6. s[f] = t[f]
    <3> HIDE DEF f
    <3> QED BY <2>1, <2>2, <2>4 DEF Starts
  <2> HIDE DEF f, g
  <2> QED BY <2>1, <2>2, <2>3, <2>4, <2>5, <2>6
<1> QED BY <1>1, <1>2

LEMMA VersionIs ==
  ASSUME NEW s, Len(s) \in Nat, NEW p \in Place(s)
  PROVE  LET q == parse_http_version(s, p)
         IN  /\ q \in Place(s) /\ (p < 0 => q = p)
             /\ p > 0 /\ q > 0 =>
                  /\ q \in p..Len(s) /\ q > p + 1 /\ s[p] = "HTTP/1."
                  /\ \A m \in (p + 1)..(q - 1) : s[m] \in Digits
             /\ p > 0 /\ q = incomplete =>
                  /\ p <= Len(s) => s[p] = "HTTP/1."
                  /\ \A m \in (p + 1)..Len(s) : s[m] \in Digits
<1> DEFINE f == FindOther(s, p + 1, Digits)
           q == parse_http_version(s, p)
<1>1. CASE p < 0
  <2>1. q = p
    BY <1>1 DEF parse_http_version, Place, invalid, incomplete
  <2> QED BY <1>1, <2>1 DEF Place, invalid, incomplete
<1>2. CASE p > Len(s)
  <2>1. q = incomplete
    BY <1>2 DEF parse_http_version, Place, invalid, incomplete
  <2>2. p \in Nat /\ \A m \in (p + 1)..Len(s) : FALSE
    BY <1>2 DEF Place, invalid, incomplete
  <2> QED BY <1>2, <2>1, <2>2 DEF Place, incomplete
<1>3. CASE p \in 1..Len(s) /\ s[p] # "HTTP/1."
  <2>1. q = invalid
    BY <1>3 DEF parse_http_version, Place
  <2> QED BY <1>3, <2>1 DEF Place, incomplete, invalid
<1>4. CASE p \in 1..Len(s) /\ s[p] = "HTTP/1."
  <2>1. /\ f \in Nat \ {0} /\ f <= Len(s) + 1
        /\ f <= Len(s) => f \in (p + 1)..Len(s) /\ s[f] \notin Digits
        /\ \A m \in (p + 1)..Len(s) : m < f => s[m] \in Digits
    BY <1>4, FoundOther
  <2>2. q = IF f > Len(s) THEN incomplete ELSE IF f = p + 1 THEN invalid ELSE f
    BY <1>4 DEF parse_http_version, FindOther
  <2> HIDE DEF f, q
  <2>3. CASE f > Len(s)
    <3>1. \A m \in (p + 1)..Len(s) : m < f
      BY <1>4, <2>1, <2>3
    <3>2. q = incomplete
      BY <2>2, <2>3
    <3> QED BY <1>4, <2>1, <2>3, <3>1, <3>2 DEF Place, incomplete, q
  <2>4. CASE f <= Len(s) /\ f = p + 1
    <3>1. q = invalid
      BY <1>4, <2>2, <2>4
    <3> QED BY <1>4, <3>1 DEF Place, incomplete, invalid, q
  <2>5. CASE f <= Len(s) /\ f # p + 1
    <3>1. q = f /\ f \in p..Len(s) /\ f > p + 1
      BY <1>4, <2>1, <2>2, <2>5
    <3>2. \A m \in (p + 1)..(f - 1) : m \in (p + 1)..Len(s) /\ m < f
      BY <1>4, <3>1
    <3> QED BY <1>4, <2>1, <3>1, <3>2 DEF Place, incomplete, q
  <2> QED BY <2>1, <2>3, <2>4, <2>5
<1> QED BY <1>1, <1>2, <1>3, <1>4 DEF Place, invalid, incomplete

LEMMA VersionMore ==
  ASSUME NEW s, NEW t, Starts(t, s), NEW p \in Place(t), parse_http_version(t, p) # incomplete
  PROVE  parse_http_version(s, p) = parse_http_version(t, p)
<1> DEFINE f == FindOther(t, p + 1, Digits)
           g == FindOther(s, p + 1, Digits)
<1>1. Len(t) \in Nat /\ Len(s) \in Nat /\ Len(t) <= Len(s)
  BY DEF Starts
<1>2. CASE p < 0
  BY <1>1, <1>2 DEF parse_http_version, Place, invalid, incomplete
<1>3. CASE p > Len(t)
  BY <1>1, <1>3 DEF parse_http_version, Place, invalid, incomplete
<1>4. CASE p \in 1..Len(t) /\ t[p] # "HTTP/1."
  <2>1. p \in 1..Len(s) /\ s[p] # "HTTP/1."
    BY <1>1, <1>4 DEF Starts
  <2> QED BY <1>1, <1>4, <2>1 DEF parse_http_version
<1>5. CASE p \in 1..Len(t) /\ t[p] = "HTTP/1."
  <2>1. p \in 1..Len(s) /\ s[p] = "HTTP/1."
    BY <1>1, <1>5 DEF Starts
  <2>2. /\ parse_http_version(t, p) = IF f > Len(t) THEN incomplete ELSE IF f = p + 1 THEN invalid ELSE f
        /\ parse_http_version(s, p) = IF g > Len(s) THEN incomplete ELSE IF g = p + 1 THEN invalid ELSE g
    BY <1>1, <1>5, <2>1 DEF parse_http_version, FindOther
  <2>3. f \in Nat
    BY <1>1, <1>5, FoundOther
  <2>4. f <= Len(t)
    <3> HIDE DEF f
    <3> QED BY <1>1, <2>2, <2>3
  <2>5. g = f
    BY <1>5, <2>4, FindOtherMore
  <2> HIDE DEF f, g
  <2> QED BY <1>1, <2>2, <2>3, <2>4, <2>5
<1> QED BY <1>2, <1>3, <1>4, <1>5 DEF Place, invalid, incomplete

\* A piece of what has arrived is a piece of the whole.
LEMMA PieceMore ==
  ASSUME NEW s, NEW t, Starts(t, s), NEW a \in Nat \ {0}, NEW b \in Nat, b <= Len(t)
  PROVE  SubSeq(s, a, b) = SubSeq(t, a, b)
<1> DEFINE S == {t[i] : i \in a..b}
           u == SubSeq(s, a, b)
           v == SubSeq(t, a, b)
<1>1. /\ \A i \in a..b : s[i] = t[i] /\ s[i] \in S /\ t[i] \in S
      /\ a \in Int /\ b \in Int
  BY DEF Starts
<1> HIDE DEF S
<1>2. /\ u \in Seq(S) /\ Len(u) = IF a <= b THEN b - a + 1 ELSE 0
      /\ \A i \in 1..(b - a + 1) : u[i] = s[a + i - 1]
  BY <1>1, SubSeqProperties
<1>8. /\ v \in Seq(S) /\ Len(v) = IF a <= b THEN b - a + 1 ELSE 0
      /\ \A i \in 1..(b - a + 1) : v[i] = t[a + i - 1]
  BY <1>1, SubSeqProperties
<1>3. \A i \in 1..(b - a + 1) : a + i - 1 \in a..b
  OBVIOUS
<1>4. \A i \in 1..(b - a + 1) : u[i] = v[i]
  <2> HIDE DEF u, v
  <2> QED BY <1>1, <1>2, <1>8, <1>3
<1>5. 1..Len(u) \subseteq 1..(b - a + 1)
  <2> HIDE DEF u, v
  <2> QED BY <1>2
<1> HIDE DEF u, v
<1>6. \A i \in 1..Len(u) : u[i] = v[i]
  BY <1>4, <1>5
<1>7. u = v
  BY <1>2, <1>8, <1>6, SeqEqual
<1> QED BY <1>7 DEF u, v

-----------------------------------------------------------------------------
(* A field *)

\* Where its parts are.
Colon(s, p) == Find(s, p, {":", "/"} \cup Blank \cup Control)
ValueFrom(s, p, folded) == IF folded THEN p ELSE FindOther(s, Colon(s, p) + 1, Blank)
ValueEnd(s, p, folded) == Find(s, ValueFrom(s, p, folded), Control)

LEMMA FieldParts ==
  ASSUME NEW s, Len(s) \in Nat, NEW p \in Nat \ {0}, NEW folded \in BOOLEAN
  PROVE  Field(s, p, folded) =
           [name |-> IF folded THEN <<>> ELSE SubSeq(s, p, Colon(s, p) - 1),
            value |-> SubSeq(s, ValueFrom(s, p, folded), ValueEnd(s, p, folded) - 1),
            next  |-> IF ~folded /\ Colon(s, p) > Len(s) THEN incomplete
                      ELSE IF ~folded /\ (s[Colon(s, p)] # ":" \/ Colon(s, p) = p) THEN invalid
                      ELSE EndOfLine(s, ValueEnd(s, p, folded))]
<1> DEFINE c == Colon(s, p)
           f == ValueFrom(s, p, folded)
           e == ValueEnd(s, p, folded)
<1>1. CASE folded
  <2>1. Field(s, p, folded) = [name |-> <<>>, value |-> SubSeq(s, f, e - 1), next |-> EndOfLine(s, e)]
    BY <1>1 DEF Field, ValueFrom, ValueEnd
  <2> QED BY <1>1, <2>1
<1>2. CASE ~folded
  <2>1. Field(s, p, folded) =
          [name |-> SubSeq(s, p, c - 1), value |-> SubSeq(s, f, e - 1),
           next |-> CASE folded -> EndOfLine(s, e)
                      [] ~folded /\ c > Len(s) -> incomplete
                      [] ~folded /\ c <= Len(s) /\ (s[c] # ":" \/ c = p) -> invalid
                      [] OTHER -> EndOfLine(s, e)]
    BY <1>2 DEF Field, ValueFrom, ValueEnd, Colon, FindOther
  <2>2. c \in Nat
    BY Found DEF Colon
  <2>3. (c > Len(s)) <=> ~(c <= Len(s))
    <3> HIDE DEF c
    <3> QED BY <2>2
  <2> QED BY <1>2, <2>1, <2>3
<1> QED BY <1>1, <1>2

\* The field has a name, or needs none.
Named(s, p, folded) ==
  folded \/ (Colon(s, p) <= Len(s) /\ s[Colon(s, p)] = ":" /\ Colon(s, p) # p)

LEMMA FieldIs ==
  ASSUME NEW s, Len(s) \in Nat, NEW p \in 1..Len(s), NEW folded \in BOOLEAN
  PROVE  LET c == Colon(s, p)
             f == ValueFrom(s, p, folded)
             e == ValueEnd(s, p, folded)
             n == Field(s, p, folded).next
         IN  /\ c \in p..(Len(s) + 1) /\ f \in p..(Len(s) + 1) /\ e \in f..(Len(s) + 1)
             /\ n \in Place(s)
             /\ n = IF Named(s, p, folded) THEN EndOfLine(s, e)
                    ELSE IF c > Len(s) THEN incomplete ELSE invalid
             /\ n # incomplete /\ Named(s, p, folded) => e <= Len(s)
<1> DEFINE c == Colon(s, p)
           f == ValueFrom(s, p, folded)
           e == ValueEnd(s, p, folded)
           n == Field(s, p, folded).next
           l == EndOfLine(s, e)
<1>1. p \in 1..(Len(s) + 1)
  OBVIOUS
<1>2. c \in p..(Len(s) + 1)
  BY <1>1, FoundWithin DEF Colon
<1>3. f \in p..(Len(s) + 1)
  <2>1. CASE folded
    BY <1>1, <2>1 DEF ValueFrom
  <2>2. CASE ~folded
    <3>1. c + 1 \in Nat \ {0}
      <4> HIDE DEF c
      <4> QED BY <1>2
    <3>2. f = FindOther(s, c + 1, Blank)
      BY <2>2 DEF ValueFrom
    <3>3. f \in Nat /\ f <= Len(s) + 1 /\ (f <= Len(s) => f \in (c + 1)..Len(s))
      BY <3>1, <3>2, FoundOther
    <3> HIDE DEF c, f
    <3> QED BY <1>2, <3>3
  <2> QED BY <2>1, <2>2
<1>4. e \in f..(Len(s) + 1)
  <2>1. f \in 1..(Len(s) + 1)
    <3> HIDE DEF f
    <3> QED BY <1>3
  <2> QED BY <2>1, FoundWithin DEF ValueEnd
<1>5. e \in Place(s) /\ e > 0
  <2> HIDE DEF e, f
  <2> QED BY <1>3, <1>4 DEF Place
<1>6. l \in Place(s) /\ (l # incomplete => e <= Len(s))
  <2>1. l \in Place(s) /\ (l = incomplete \/ e <= Len(s))
    <3>1. l \in Place(s)
      BY <1>5, EndOfLineIs
    <3>2. e > Len(s) => l = incomplete
      <4> HIDE DEF e
      <4> QED BY <1>5 DEF EndOfLine, Place, invalid, incomplete
    <3>3. e \in Nat
      <4> HIDE DEF e
      <4> QED BY <1>5 DEF Place, invalid, incomplete
    <3> HIDE DEF e, l
    <3> QED BY <3>1, <3>2, <3>3
  <2> QED BY <2>1
<1>7. n = IF ~folded /\ c > Len(s) THEN incomplete
          ELSE IF ~folded /\ (s[c] # ":" \/ c = p) THEN invalid
          ELSE l
  BY <1>1, FieldParts
<1>8. Named(s, p, folded) <=> folded \/ (c <= Len(s) /\ s[c] = ":" /\ c # p)
  BY DEF Named
<1> HIDE DEF c, f, e, l, n
<1>9. n = IF Named(s, p, folded) THEN l ELSE IF c > Len(s) THEN incomplete ELSE invalid
  BY <1>2, <1>7, <1>8
<1>10. n \in Place(s) /\ incomplete # invalid
  BY <1>6, <1>9 DEF Place, invalid, incomplete
<1> QED BY <1>2, <1>3, <1>4, <1>6, <1>9, <1>10 DEF c, f, e, l, n

LEMMA FieldMore ==
  ASSUME NEW s, NEW t, Starts(t, s), NEW p \in 1..Len(t), NEW folded \in BOOLEAN,
         Field(t, p, folded).next # incomplete
  PROVE  /\ Field(s, p, folded).next = Field(t, p, folded).next
         /\ Field(t, p, folded).next # invalid => Field(s, p, folded) = Field(t, p, folded)
<1> DEFINE c == Colon(t, p)
           f == ValueFrom(t, p, folded)
           e == ValueEnd(t, p, folded)
           n == Field(t, p, folded).next
<1>1. Len(t) \in Nat /\ Len(s) \in Nat /\ Len(t) <= Len(s) /\ p \in Nat \ {0} /\ p \in 1..Len(s)
  BY DEF Starts
<1>2. /\ c \in p..(Len(t) + 1) /\ f \in p..(Len(t) + 1) /\ e \in f..(Len(t) + 1)
      /\ n = IF Named(t, p, folded) THEN EndOfLine(t, e)
             ELSE IF c > Len(t) THEN incomplete ELSE invalid
      /\ Named(t, p, folded) => e <= Len(t)
  BY <1>1, FieldIs
<1>3. n = IF ~folded /\ c > Len(t) THEN incomplete
          ELSE IF ~folded /\ (t[c] # ":" \/ c = p) THEN invalid
          ELSE EndOfLine(t, e)
  BY <1>1, FieldParts
<1>4. ~folded => c <= Len(t)
  <2>1. n # incomplete
    OBVIOUS
  <2> HIDE DEF c, e, n
  <2> QED BY <1>1, <1>2, <1>3, <2>1
<1>5. ~folded => Colon(s, p) = c /\ s[c] = t[c]
  <2>1. ~folded => Colon(s, p) = c
    BY <1>1, <1>4, FindMore DEF Colon
  <2> HIDE DEF c
  <2> QED BY <1>1, <1>2, <1>4, <2>1 DEF Starts
<1>6. Named(s, p, folded) <=> Named(t, p, folded)
  <2>1. c <= Len(t) => c <= Len(s)
    <3> HIDE DEF c
    <3> QED BY <1>1, <1>2
  <2> QED BY <1>4, <1>5, <2>1 DEF Named
<1>7. CASE ~Named(t, p, folded)
  <2>1. /\ Field(s, p, folded).next =
             IF Named(s, p, folded) THEN EndOfLine(s, ValueEnd(s, p, folded))
             ELSE IF Colon(s, p) > Len(s) THEN incomplete ELSE invalid
        /\ ~folded
    BY <1>1, <1>7, FieldIs DEF Named
  <2>2. c <= Len(s)
    <3> HIDE DEF c
    <3> QED BY <1>1, <1>2, <1>4, <2>1
  <2>3. Field(s, p, folded).next = invalid
    <3>1. ~(c > Len(s))
      <4> HIDE DEF c
      <4> QED BY <1>1, <1>2, <2>2
    <3> QED BY <1>5, <1>6, <1>7, <2>1, <3>1, Zenon
  <2>4. n = invalid
    <3> HIDE DEF n, c
    <3> QED BY <1>1, <1>2, <1>4, <1>7, <2>1
  <2> QED BY <2>3, <2>4
<1>8. CASE Named(t, p, folded)
  <2>1. e <= Len(t) /\ f <= Len(t) /\ e \in 1..Len(t)
    <3>1. e <= Len(t)
      BY <1>2, <1>8
    <3> HIDE DEF e, f
    <3> QED BY <1>1, <1>2, <3>1
  <2>2. ValueFrom(s, p, folded) = f
    <3>1. CASE folded
      BY <3>1 DEF ValueFrom
    <3>2. CASE ~folded
      <4>1. c + 1 \in Nat \ {0}
        <5> HIDE DEF c
        <5> QED BY <1>1, <1>2
      <4>2. f = FindOther(t, c + 1, Blank)
        BY <3>2 DEF ValueFrom
      <4>3. FindOther(s, c + 1, Blank) = FindOther(t, c + 1, Blank)
        <5> HIDE DEF c
        <5> QED BY <2>1, <4>1, <4>2, FindOtherMore
      <4> QED BY <1>5, <3>2, <4>2, <4>3, Zenon DEF ValueFrom
    <3> QED BY <3>1, <3>2
  <2>3. f \in Nat \ {0}
    <3> HIDE DEF f
    <3> QED BY <1>1, <1>2
  <2>4. ValueEnd(s, p, folded) = e
    <3>1. e = Find(t, f, Control) /\ ValueEnd(s, p, folded) = Find(s, f, Control)
      BY <2>2 DEF ValueEnd
    <3> HIDE DEF e, f
    <3> QED BY <2>1, <2>3, <3>1, FindMore
  <2>5. EndOfLine(s, e) = EndOfLine(t, e)
    <3>1. e \in Place(t) /\ EndOfLine(t, e) # incomplete
      <4>1. EndOfLine(t, e) # incomplete
        BY <1>2, <1>8
      <4> HIDE DEF e
      <4> QED BY <1>1, <2>1, <4>1 DEF Place
    <3> QED BY <3>1, EndOfLineMore
  <2>6. SubSeq(s, f, e - 1) = SubSeq(t, f, e - 1)
    <3>1. e - 1 \in Nat /\ e - 1 <= Len(t)
      <4> HIDE DEF e
      <4> QED BY <1>1, <2>1
    <3> QED BY <2>3, <3>1, PieceMore
  <2>7. ~folded => SubSeq(s, p, c - 1) = SubSeq(t, p, c - 1)
    <3>1. ~folded => c - 1 \in Nat /\ c - 1 <= Len(t)
      <4> HIDE DEF c
      <4> QED BY <1>1, <1>2, <1>4
    <3> QED BY SMTT(30), <1>1, <3>1, PieceMore
  <2>8. Field(t, p, folded) =
          [name |-> IF folded THEN <<>> ELSE SubSeq(t, p, c - 1),
           value |-> SubSeq(t, f, e - 1), next |-> n]
    BY <1>1, FieldParts
  <2>9. Field(s, p, folded) =
          [name |-> IF folded THEN <<>> ELSE SubSeq(s, p, Colon(s, p) - 1),
           value |-> SubSeq(s, f, e - 1), next |-> Field(s, p, folded).next]
    BY <1>1, <2>2, <2>4, FieldParts
  <2>10. Field(s, p, folded).next = EndOfLine(s, e)
    BY <1>1, <1>6, <1>8, <2>4, FieldIs
  <2>11. n = EndOfLine(t, e)
    BY <1>2, <1>8
  <2> HIDE DEF c, f, e, n
  <2>12. Field(s, p, folded).next = n
    BY <2>5, <2>10, <2>11
  <2>13. Field(s, p, folded) = Field(t, p, folded)
    <3>1. CASE folded
      BY <2>6, <2>8, <2>9, <2>12, <3>1
    <3>2. CASE ~folded
      BY <1>5, <2>6, <2>7, <2>8, <2>9, <2>12, <3>2
    <3> QED BY <3>1, <3>2
  <2> QED BY <2>12, <2>13 DEF n
<1> QED BY <1>7, <1>8

-----------------------------------------------------------------------------
(* The fields, one after the other *)

Reads(g, s, p, max) ==
  g = [n \in 0..max |-> IF n = 0 THEN [next |-> p, fields |-> <<>>] ELSE NextField(s, g[n - 1])]

LEMMA FieldsFromReads ==
  ASSUME NEW s, NEW p, NEW max \in Nat
  PROVE  Reads(FieldsFrom(s, p, max), s, p, max)
<1> DEFINE S == {k \in 0..max : \E g : Reads(g, s, p, k)}
           zero == [next |-> p, fields |-> <<>>]
<1>1. 0 \in S
  <2>1. Reads([j \in 0..0 |-> zero], s, p, 0)
    BY DEF Reads
  <2> QED BY <2>1
<1>2. ASSUME NEW k \in 0..(max - 1), k \in S PROVE k + 1 \in S
  <2>1. PICK g : Reads(g, s, p, k)
    BY <1>2
  <2> HIDE DEF zero
  <2> DEFINE h == [j \in 0..(k + 1) |-> IF j = k + 1 THEN NextField(s, g[k]) ELSE g[j]]
  <2>2. ASSUME NEW j \in 0..(k + 1)
        PROVE  h[j] = IF j = 0 THEN zero ELSE NextField(s, h[j - 1])
    <3>1. CASE j = k + 1
      BY <3>1
    <3>2. CASE j # k + 1
      <4>1. j \in 0..k /\ h[j] = g[j] /\ (j # 0 => h[j - 1] = g[j - 1])
        BY <3>2
      <4>2. g[j] = IF j = 0 THEN zero ELSE NextField(s, g[j - 1])
        BY <2>1, <4>1 DEF Reads, zero
      <4> QED BY <4>1, <4>2
    <3> QED BY <3>1, <3>2
  <2>3. Reads(h, s, p, k + 1)
    <3>1. h = [j \in 0..(k + 1) |-> h[j]]
      OBVIOUS
    <3>2. [j \in 0..(k + 1) |-> h[j]] =
            [j \in 0..(k + 1) |-> IF j = 0 THEN zero ELSE NextField(s, h[j - 1])]
      <4> HIDE DEF h
      <4> QED BY <2>2
    <3> HIDE DEF h
    <3> QED BY <3>1, <3>2 DEF Reads, zero
  <2>4. k + 1 \in 0..max
    OBVIOUS
  <2> QED BY <2>3, <2>4
<1>3. max \in 0..max
  OBVIOUS
<1>4. max \in S
  <2> HIDE DEF S
  <2> QED BY <1>1, <1>2, <1>3, Induction
<1>5. \E g : Reads(g, s, p, max)
  BY <1>4
<1> QED BY <1>5, Zenon DEF FieldsFrom, Reads

LEMMA FieldsFromIs ==
  ASSUME NEW s, NEW p, NEW max \in Nat
  PROVE  /\ FieldsFrom(s, p, max)[0] = [next |-> p, fields |-> <<>>]
         /\ \A k \in 0..(max - 1) :
              FieldsFrom(s, p, max)[k + 1] = NextField(s, FieldsFrom(s, p, max)[k])
<1> DEFINE g == FieldsFrom(s, p, max)
<1>1. Reads(g, s, p, max)
  BY FieldsFromReads
<1> HIDE DEF g
<1>2. \A j \in 0..max :
        g[j] = IF j = 0 THEN [next |-> p, fields |-> <<>>] ELSE NextField(s, g[j - 1])
  BY <1>1 DEF Reads
<1>3. \A k \in 0..(max - 1) : k + 1 \in 0..max /\ (k + 1) - 1 = k /\ k + 1 # 0
  OBVIOUS
<1>4. \A k \in 0..(max - 1) : g[k + 1] = NextField(s, g[k])
  BY <1>2, <1>3
<1>5. g[0] = [next |-> p, fields |-> <<>>]
  BY <1>2
<1> QED BY <1>4, <1>5 DEF g

\* What one of them makes of what was read before.
LEMMA NextFieldIs ==
  ASSUME NEW s, Len(s) \in Nat, NEW h, h.next \in Place(s)
  PROVE  LET folded == h.fields # <<>> /\ s[h.next] \in Blank
             stops  == h.next < 0 \/ h.next > Len(s) \/ s[h.next] \in {"CR", "LF"}
             f      == Field(s, h.next, folded)
         IN  /\ stops => NextField(s, h) = h
             /\ ~stops => /\ h.next \in 1..Len(s) /\ folded \in BOOLEAN
                          /\ f.next \in Place(s)
                          /\ NextField(s, h).next = f.next
                          /\ f.next < 0 => NextField(s, h).fields = h.fields
                          /\ f.next > 0 => NextField(s, h) =
                               [next |-> f.next,
                                fields |-> Append(h.fields, [name |-> f.name, value |-> f.value])]
             /\ NextField(s, h).next \in Place(s)
<1> DEFINE folded == h.fields # <<>> /\ s[h.next] \in Blank
           stops  == h.next < 0 \/ h.next > Len(s) \/ s[h.next] \in {"CR", "LF"}
           f      == Field(s, h.next, folded)
<1>1. CASE stops
  <2>1. NextField(s, h) = h
    BY <1>1, Zenon DEF NextField
  <2> QED BY <1>1, <2>1
<1>2. CASE ~stops
  <2>1. h.next \in 1..Len(s) /\ folded \in BOOLEAN
    BY <1>2 DEF Place, invalid, incomplete
  <2>2. f.next \in Place(s)
    <3> HIDE DEF folded
    <3> QED BY <2>1, FieldIs
  <2>3. NextField(s, h) =
          [next |-> f.next,
           fields |-> IF f.next < 0 THEN h.fields
                      ELSE Append(h.fields, [name |-> f.name, value |-> f.value])]
    BY <1>2, Zenon DEF NextField
  <2>4. f.next > 0 => ~(f.next < 0)
    <3> HIDE DEF f
    <3> QED BY <2>2 DEF Place, invalid, incomplete
  <2> HIDE DEF f, folded
  <2>5. NextField(s, h).next = f.next /\ (f.next < 0 => NextField(s, h).fields = h.fields)
    BY <2>3
  <2>6. f.next > 0 => NextField(s, h) =
                        [next |-> f.next,
                         fields |-> Append(h.fields, [name |-> f.name, value |-> f.value])]
    BY <2>3, <2>4
  <2> QED BY <1>2, <2>1, <2>2, <2>5, <2>6 DEF f, folded
<1> QED BY <1>1, <1>2

LEMMA FieldsFromPlaces ==
  ASSUME NEW s, Len(s) \in Nat, NEW p \in Place(s), NEW max \in Nat
  PROVE  \A k \in 0..max : FieldsFrom(s, p, max)[k].next \in Place(s)
<1> DEFINE g == FieldsFrom(s, p, max)
           S == {k \in 0..max : g[k].next \in Place(s)}
<1>1. /\ g[0] = [next |-> p, fields |-> <<>>]
      /\ \A k \in 0..(max - 1) : g[k + 1] = NextField(s, g[k])
  BY FieldsFromIs
<1> HIDE DEF g
<1>2. 0 \in S
  BY <1>1
<1>3. ASSUME NEW k \in 0..(max - 1), k \in S PROVE k + 1 \in S
  <2>1. g[k].next \in Place(s) /\ k + 1 \in 0..max
    BY <1>3
  <2>2. g[k + 1].next \in Place(s)
    BY <1>1, <2>1, NextFieldIs
  <2> QED BY <2>1, <2>2
<1>4. 0..max \subseteq S
  <2> HIDE DEF S
  <2> QED BY <1>2, <1>3, Induction
<1> QED BY <1>4 DEF g

LEMMA HeadersIs ==
  ASSUME NEW s, Len(s) \in Nat, NEW p \in Place(s), NEW max \in Nat
  PROVE  LET h == FieldsFrom(s, p, max)[max]
             r == parse_headers(s, p, max)
         IN  /\ h.next \in Place(s) /\ r.ret \in Place(s)
             /\ r = [ret |-> r.ret, fields |-> h.fields]
             /\ r.ret = IF h.next < 0 THEN h.next
                        ELSE IF h.next > Len(s) THEN incomplete
                        ELSE IF s[h.next] \in {"CR", "LF"} THEN EndOfLine(s, h.next)
                        ELSE invalid
<1> DEFINE h == FieldsFrom(s, p, max)[max]
           r == parse_headers(s, p, max)
           l == EndOfLine(s, h.next)
<1>1. h.next \in Place(s)
  BY FieldsFromPlaces
<1>2. l \in Place(s)
  BY <1>1, EndOfLineIs
<1>3. r = [ret |-> IF h.next \in 1..Len(s) /\ s[h.next] \notin {"CR", "LF"} THEN invalid ELSE l,
           fields |-> h.fields]
  BY Zenon DEF parse_headers
<1>4. (h.next < 0 => l = h.next) /\ (h.next > Len(s) => l = IF h.next < 0 THEN h.next ELSE incomplete)
  <2> HIDE DEF h
  <2>1. h.next > Len(s) => ~(h.next < 0) /\ h.next = Len(s) + 1
    BY <1>1 DEF Place, invalid, incomplete
  <2> QED BY <2>1 DEF EndOfLine
<1> HIDE DEF h, r, l
<1>5. CASE h.next \in 1..Len(s) /\ s[h.next] \notin {"CR", "LF"}
  <2>1. r = [ret |-> invalid, fields |-> h.fields]
    BY <1>3, <1>5
  <2> QED BY <1>1, <1>5, <2>1 DEF h, r, l, Place
<1>6. CASE ~(h.next \in 1..Len(s) /\ s[h.next] \notin {"CR", "LF"})
  <2>1. r = [ret |-> l, fields |-> h.fields]
    BY <1>3, <1>6
  <2>2. h.next < 0 \/ h.next > Len(s) \/ h.next \in 1..Len(s)
    BY <1>1 DEF Place, invalid, incomplete
  <2>3. l = IF h.next < 0 THEN h.next
            ELSE IF h.next > Len(s) THEN incomplete
            ELSE IF s[h.next] \in {"CR", "LF"} THEN l
            ELSE invalid
    BY <1>4, <1>6, <2>2
  <2> QED BY <1>1, <1>2, <2>1, <2>3 DEF h, r, l
<1> QED BY <1>5, <1>6

\* Once the text is too short for a field no other is read.
LEMMA HeadersMore ==
  ASSUME NEW s, NEW t, Starts(t, s), NEW p \in Place(t), NEW max \in Nat,
         parse_headers(t, p, max).ret # incomplete
  PROVE  parse_headers(s, p, max) = parse_headers(t, p, max)
<1> DEFINE g == FieldsFrom(t, p, max)
           h == FieldsFrom(s, p, max)
           Stuck(k) == g[k].next = incomplete \/ g[k].next > Len(t)
           S == {k \in 0..max : Stuck(k) \/ h[k] = g[k]}
<1>1. Len(t) \in Nat /\ Len(s) \in Nat /\ Len(t) <= Len(s) /\ p \in Place(s)
  BY DEF Starts, Place, invalid, incomplete
<1>2. /\ g[0] = [next |-> p, fields |-> <<>>]
      /\ \A k \in 0..(max - 1) : g[k + 1] = NextField(t, g[k])
      /\ h[0] = [next |-> p, fields |-> <<>>]
      /\ \A k \in 0..(max - 1) : h[k + 1] = NextField(s, h[k])
      /\ \A k \in 0..max : g[k].next \in Place(t) /\ h[k].next \in Place(s)
  BY ZenonT(60), <1>1, FieldsFromIs, FieldsFromPlaces
<1>3. /\ parse_headers(t, p, max) = [ret |-> parse_headers(t, p, max).ret, fields |-> g[max].fields]
      /\ parse_headers(t, p, max).ret =
           IF g[max].next < 0 THEN g[max].next
           ELSE IF g[max].next > Len(t) THEN incomplete
           ELSE IF t[g[max].next] \in {"CR", "LF"} THEN EndOfLine(t, g[max].next)
           ELSE invalid
      /\ parse_headers(s, p, max) = [ret |-> parse_headers(s, p, max).ret, fields |-> h[max].fields]
      /\ parse_headers(s, p, max).ret =
           IF h[max].next < 0 THEN h[max].next
           ELSE IF h[max].next > Len(s) THEN incomplete
           ELSE IF s[h[max].next] \in {"CR", "LF"} THEN EndOfLine(s, h[max].next)
           ELSE invalid
  BY <1>1, HeadersIs
<1> HIDE DEF g, h
<1>4. 0 \in S
  BY <1>2
<1>5. ASSUME NEW k \in 0..(max - 1), k \in S PROVE k + 1 \in S
  <2>1. k \in 0..max /\ k + 1 \in 0..max /\ g[k].next \in Place(t)
    BY <1>2
  <2>2. g[k + 1] = NextField(t, g[k]) /\ h[k + 1] = NextField(s, h[k])
    BY <1>2
  <2>3. CASE Stuck(k)
    <3>1. g[k].next < 0 \/ g[k].next > Len(t)
      BY <2>3 DEF incomplete
    <3>2. g[k + 1] = g[k]
      BY <2>2, <3>1, Zenon DEF NextField
    <3> QED BY <2>1, <2>3, <3>2
  <2>4. CASE ~Stuck(k) /\ g[k].next < 0
    <3>1. h[k] = g[k]
      BY <1>5, <2>4
    <3>2. g[k + 1] = g[k] /\ h[k + 1] = h[k]
      BY <2>2, <2>4, <3>1, Zenon DEF NextField
    <3> QED BY <2>1, <3>1, <3>2
  <2>5. CASE ~Stuck(k) /\ ~(g[k].next < 0)
    <3>1. h[k] = g[k] /\ g[k].next \in 1..Len(t) /\ g[k].next \in 1..Len(s) /\ g[k].next \in Place(s)
      BY <1>1, <1>5, <2>1, <2>5 DEF Place, invalid, incomplete
    <3>2. s[g[k].next] = t[g[k].next]
      BY <3>1 DEF Starts
    <3> DEFINE q == g[k].next
               folded == g[k].fields # <<>> /\ t[q] \in Blank
               f == Field(t, q, folded)
               e == Field(s, q, folded)
               was == g[k].fields
    <3>3. CASE t[q] \in {"CR", "LF"}
      <4>1. g[k + 1] = g[k] /\ h[k + 1] = h[k]
        BY <2>2, <3>1, <3>2, <3>3, Zenon DEF NextField
      <4> QED BY <2>1, <3>1, <4>1
    <3>4. CASE t[q] \notin {"CR", "LF"}
      <4>1. ~(q < 0 \/ q > Len(t) \/ t[q] \in {"CR", "LF"}) /\ ~(q < 0 \/ q > Len(s) \/ s[q] \in {"CR", "LF"})
        BY <1>1, <3>1, <3>2, <3>4
      <4>2. /\ g[k + 1] = [next |-> f.next,
                           fields |-> IF f.next < 0 THEN was
                                      ELSE Append(was, [name |-> f.name, value |-> f.value])]
            /\ h[k + 1] = [next |-> e.next,
                           fields |-> IF e.next < 0 THEN was
                                      ELSE Append(was, [name |-> e.name, value |-> e.value])]
        <5> HIDE DEF q
        <5>1. h[k].fields = was /\ h[k].next = q
          BY <3>1 DEF q
        <5>2. g[k].next = q
          BY DEF q
        <5>3. (h[k].fields # <<>> /\ s[h[k].next] \in Blank) <=> folded
          BY <3>2, <5>1, <5>2
        <5>4. (h[k].fields # <<>> /\ s[h[k].next] \in Blank) = folded
          BY <5>3
        <5>5. g[k + 1] = [next |-> f.next,
                           fields |-> IF f.next < 0 THEN was
                                      ELSE Append(was, [name |-> f.name, value |-> f.value])]
          BY <2>2, <4>1, <5>2, Zenon DEF NextField
        <5>6. h[k + 1] = [next |-> e.next,
                           fields |-> IF e.next < 0 THEN was
                                      ELSE Append(was, [name |-> e.name, value |-> e.value])]
          <6> HIDE DEF folded
          <6> QED BY <2>2, <4>1, <5>1, <5>4, Zenon DEF NextField
        <5> QED BY <5>5, <5>6
      <4>3. CASE f.next = incomplete
        <5>1. g[k + 1].next = incomplete
          BY <4>2, <4>3
        <5> QED BY <2>1, <5>1
      <4>4. CASE f.next # incomplete
        <5>1. e.next = f.next /\ (f.next # invalid => e = f)
          <6> HIDE DEF q
          <6>1. folded \in BOOLEAN /\ q \in 1..Len(t)
            BY <3>1 DEF q
          <6> HIDE DEF folded
          <6> QED BY <4>4, <6>1, FieldMore
        <5>2. f.next = invalid => f.next < 0
          BY DEF invalid
        <5>3. h[k + 1] = g[k + 1]
          <6> HIDE DEF f, e, was
          <6> QED BY <4>2, <5>1, <5>2
        <5> QED BY <2>1, <5>3
      <4> QED BY <4>3, <4>4
    <3> QED BY <3>3, <3>4
  <2> QED BY <2>3, <2>4, <2>5
<1>6. 0..max \subseteq S /\ max \in 0..max
  <2>1. max \in 0..max /\ 0 \in Nat
    OBVIOUS
  <2> HIDE DEF S
  <2> QED BY <1>4, <1>5, <2>1, Induction
<1>7. ~Stuck(max) /\ h[max] = g[max] /\ g[max].next \in Place(t)
  <2>1. ~Stuck(max)
    <3>1. CASE g[max].next = incomplete
      BY <1>3, <3>1 DEF incomplete
    <3>2. CASE g[max].next # incomplete /\ g[max].next > Len(t)
      <4>1. ~(g[max].next < 0)
        BY SMTT(30), <1>1, <1>2, <1>6, <3>2 DEF Place, invalid, incomplete
      <4> QED BY <1>3, <3>2, <4>1
    <3> QED BY <3>1, <3>2
  <2> QED BY <1>2, <1>6, <2>1
<1>8. parse_headers(s, p, max).ret = parse_headers(t, p, max).ret
  <2>1. CASE g[max].next < 0
    BY <1>3, <1>7, <2>1
  <2>2. CASE ~(g[max].next < 0)
    <3>1. /\ g[max].next \in 1..Len(t) /\ g[max].next <= Len(s)
          /\ s[g[max].next] = t[g[max].next]
          /\ ~(g[max].next > Len(t)) /\ ~(g[max].next > Len(s))
      BY <1>1, <1>7, <2>2 DEF Place, invalid, incomplete, Starts
    <3>2. CASE t[g[max].next] \in {"CR", "LF"}
      <4>1. parse_headers(t, p, max).ret = EndOfLine(t, g[max].next)
        BY <1>3, <2>2, <3>1, <3>2
      <4>2. parse_headers(s, p, max).ret = EndOfLine(s, g[max].next)
        BY <1>3, <1>7, <2>2, <3>1, <3>2
      <4> QED BY <1>7, <4>1, <4>2, EndOfLineMore
    <3>3. CASE t[g[max].next] \notin {"CR", "LF"}
      BY <1>3, <1>7, <2>2, <3>1, <3>3
    <3> QED BY <3>2, <3>3
  <2> QED BY <2>1, <2>2
<1> QED BY <1>3, <1>7, <1>8

\* No field is read where there is no place to read it.
LEMMA HeadersPass ==
  ASSUME NEW s, Len(s) \in Nat, NEW p \in Place(s), p < 0, NEW max \in Nat
  PROVE  parse_headers(s, p, max).ret = p
<1> DEFINE g == FieldsFrom(s, p, max)
           S == {k \in 0..max : g[k].next = p}
<1>1. /\ g[0] = [next |-> p, fields |-> <<>>]
      /\ \A k \in 0..(max - 1) : g[k + 1] = NextField(s, g[k])
  BY FieldsFromIs
<1> HIDE DEF g
<1>2. 0 \in S
  BY <1>1
<1>3. ASSUME NEW k \in 0..(max - 1), k \in S PROVE k + 1 \in S
  <2>1. g[k].next < 0 /\ k + 1 \in 0..max
    BY <1>3
  <2>2. g[k + 1] = g[k]
    BY <1>1, <2>1, Zenon DEF NextField
  <2> QED BY <1>3, <2>1, <2>2
<1>4. max \in 0..max
  OBVIOUS
<1>5. max \in S
  <2> HIDE DEF S
  <2> QED BY <1>2, <1>3, <1>4, Induction
<1>6. g[max].next = p
  BY <1>5
<1> QED BY <1>6, HeadersIs DEF g

-----------------------------------------------------------------------------
(* The whole head *)

Begin(s) == IF s # <<>> /\ s[1] \in {"CR", "LF"} THEN EndOfLine(s, 1) ELSE 1
MethodEnd(s) == ADVANCE_TOKEN(s, Begin(s))
PathEnd(s) == IF MethodEnd(s) < 0 THEN MethodEnd(s) ELSE ADVANCE_TOKEN(s, MethodEnd(s) + 1)
VersionEnd(s) == IF PathEnd(s) < 0 THEN PathEnd(s) ELSE parse_http_version(s, PathEnd(s) + 1)
LineEnd(s) == EndOfLine(s, VersionEnd(s))

LEMMA RequestParts ==
  ASSUME NEW s, NEW max
  PROVE  parse_request(s, max) =
           LET h == parse_headers(s, LineEnd(s), max)
           IN  [ret |-> IF h.ret > 0 THEN h.ret - 1 ELSE h.ret, fields |-> h.fields,
                method |-> IF MethodEnd(s) > 0 THEN SubSeq(s, Begin(s), MethodEnd(s) - 1) ELSE NULL,
                path |-> IF PathEnd(s) > 0 THEN SubSeq(s, MethodEnd(s) + 1, PathEnd(s) - 1) ELSE NULL]
BY Zenon DEF parse_request, Begin, MethodEnd, PathEnd, VersionEnd, LineEnd

LEMMA RequestPlaces ==
  ASSUME NEW s, Len(s) \in Nat
  PROVE  /\ Begin(s) \in Place(s) /\ MethodEnd(s) \in Place(s) /\ PathEnd(s) \in Place(s)
         /\ VersionEnd(s) \in Place(s) /\ LineEnd(s) \in Place(s)
         /\ MethodEnd(s) > 0 => /\ Begin(s) \in 1..MethodEnd(s) /\ MethodEnd(s) <= Len(s)
                                /\ MethodEnd(s) + 1 \in Place(s)
         /\ PathEnd(s) > 0 => /\ MethodEnd(s) > 0 /\ PathEnd(s) \in (MethodEnd(s) + 1)..Len(s)
                              /\ PathEnd(s) + 1 \in Place(s)
         /\ Begin(s) < 0 => MethodEnd(s) = Begin(s)
         /\ MethodEnd(s) < 0 => PathEnd(s) = MethodEnd(s)
         /\ PathEnd(s) < 0 => VersionEnd(s) = PathEnd(s)
         /\ VersionEnd(s) < 0 => LineEnd(s) = VersionEnd(s)
<1> DEFINE b == Begin(s)
           m == MethodEnd(s)
           p == PathEnd(s)
           v == VersionEnd(s)
           l == LineEnd(s)
<1>1. b \in Place(s)
  <2>1. 1 \in Place(s)
    BY DEF Place
  <2> QED BY <2>1, EndOfLineIs DEF Begin
<1>2. m \in Place(s) /\ (b < 0 => m = b) /\ (b > 0 /\ m > 0 => m \in b..Len(s))
  BY <1>1, TokenIs DEF MethodEnd
<1>3. m > 0 => b \in 1..m /\ m <= Len(s) /\ m + 1 \in Place(s)
  <2> HIDE DEF b, m
  <2> QED BY <1>1, <1>2 DEF Place, invalid, incomplete
<1>4. p = IF m < 0 THEN m ELSE ADVANCE_TOKEN(s, m + 1)
  BY DEF PathEnd
<1>5. m > 0 => LET q == ADVANCE_TOKEN(s, m + 1)
               IN  q \in Place(s) /\ (q > 0 => q \in (m + 1)..Len(s))
  <2>1. m > 0 => m + 1 \in Place(s) /\ m + 1 > 0
    <3> HIDE DEF m, b
    <3> QED BY <1>2, <1>3 DEF Place, invalid, incomplete
  <2> QED BY <2>1, TokenIs
<1>6. p \in Place(s) /\ (p > 0 => m > 0 /\ p \in (m + 1)..Len(s) /\ p + 1 \in Place(s))
  <2> HIDE DEF m, p, b
  <2> QED BY <1>2, <1>4, <1>5 DEF Place, invalid, incomplete
<1>7. v = IF p < 0 THEN p ELSE parse_http_version(s, p + 1)
  BY DEF VersionEnd
<1>8. v \in Place(s)
  <2>1. p > 0 => parse_http_version(s, p + 1) \in Place(s)
    BY <1>6, VersionIs
  <2> HIDE DEF m, p, v
  <2> QED BY <1>6, <1>7, <2>1 DEF Place, invalid, incomplete
<1>9. l \in Place(s) /\ (v < 0 => l = v)
  BY <1>8, EndOfLineIs DEF LineEnd
<1> QED BY <1>1, <1>2, <1>3, <1>4, <1>6, <1>7, <1>8, <1>9

LEMMA RequestMore ==
  ASSUME NEW s, NEW t \in Seq(STRING), Starts(t, s), NEW max \in Nat,
         parse_request(t, max).ret # incomplete
  PROVE  parse_request(s, max) = parse_request(t, max)
<1> DEFINE b == Begin(t)
           m == MethodEnd(t)
           p == PathEnd(t)
           v == VersionEnd(t)
           l == LineEnd(t)
           h == parse_headers(t, l, max)
<1>1. Len(t) \in Nat /\ Len(s) \in Nat /\ Len(t) <= Len(s)
  BY DEF Starts
<1>2. /\ b \in Place(t) /\ m \in Place(t) /\ p \in Place(t) /\ v \in Place(t) /\ l \in Place(t)
      /\ m > 0 => b \in 1..m /\ m <= Len(t) /\ m + 1 \in Place(t)
      /\ p > 0 => m > 0 /\ p \in (m + 1)..Len(t) /\ p + 1 \in Place(t)
      /\ b < 0 => m = b
      /\ m < 0 => p = m
      /\ p < 0 => v = p
      /\ v < 0 => l = v
  BY <1>1, RequestPlaces
<1>3. h.ret # incomplete
  <2>1. parse_request(t, max).ret = IF h.ret > 0 THEN h.ret - 1 ELSE h.ret
    BY RequestParts
  <2> HIDE DEF h
  <2> QED BY <2>1 DEF incomplete
<1>4. l # incomplete
  <2>1. l = incomplete => l < 0
    BY DEF incomplete
  <2> QED BY <1>1, <1>2, <1>3, <2>1, HeadersPass
<1>5. v # incomplete /\ p # incomplete /\ m # incomplete /\ b # incomplete
  <2> HIDE DEF l, v, p, m, b
  <2> QED BY <1>2, <1>4 DEF incomplete
<1>6. t # <<>>
  <2>1. CASE t = <<>>
    <3>1. b = 1 /\ Len(t) = 0
      BY <2>1 DEF Begin
    <3>2. Find(t, 1, Control \cup {SP}) > Len(t)
      BY <1>1, <3>1, Found
    <3>3. m = incomplete
      BY <3>1, <3>2 DEF MethodEnd, ADVANCE_TOKEN
    <3> QED BY <1>5, <3>3
  <2> QED BY <2>1
<1>7. Len(t) > 0 /\ s # <<>> /\ s[1] = t[1]
  <2>1. Len(t) > 0
    BY <1>6
  <2> QED BY <2>1, <1>1 DEF Starts
<1>8. Begin(s) = b
  <2>1. 1 \in Place(t)
    BY <1>1 DEF Place
  <2> QED BY <1>5, <1>6, <1>7, <2>1, EndOfLineMore DEF Begin
<1>9. MethodEnd(s) = m
  BY <1>2, <1>5, <1>8, TokenMore DEF MethodEnd
<1>10. PathEnd(s) = p
  <2>1. CASE m < 0
    BY <1>9, <2>1 DEF PathEnd
  <2>2. CASE ~(m < 0)
    <3>1. p = ADVANCE_TOKEN(t, m + 1) /\ PathEnd(s) = ADVANCE_TOKEN(s, m + 1)
      BY <1>9, <2>2 DEF PathEnd
    <3>2. m + 1 \in Place(t)
      <4> HIDE DEF m, b
      <4> QED BY <1>2, <2>2 DEF Place, invalid, incomplete
    <3> QED BY <1>5, <3>1, <3>2, TokenMore
  <2> QED BY <2>1, <2>2
<1>11. VersionEnd(s) = v
  <2>1. CASE p < 0
    BY <1>10, <2>1 DEF VersionEnd
  <2>2. CASE ~(p < 0)
    <3>1. v = parse_http_version(t, p + 1) /\ VersionEnd(s) = parse_http_version(s, p + 1)
      BY <1>10, <2>2 DEF VersionEnd
    <3>2. p + 1 \in Place(t)
      <4> HIDE DEF m, p
      <4> QED BY <1>2, <2>2 DEF Place, invalid, incomplete
    <3> QED BY <1>5, <3>1, <3>2, VersionMore
  <2> QED BY <2>1, <2>2
<1>12. LineEnd(s) = l
  BY <1>2, <1>4, <1>11, EndOfLineMore DEF LineEnd
<1>13. parse_headers(s, l, max) = h
  BY <1>2, <1>3, HeadersMore
<1>14. m > 0 => SubSeq(s, b, m - 1) = SubSeq(t, b, m - 1)
  <2>1. m > 0 => b \in Nat \ {0} /\ m - 1 \in Nat /\ m - 1 <= Len(t)
    <3> HIDE DEF b, m
    <3> QED BY <1>1, <1>2 DEF Place, invalid, incomplete
  <2> QED BY <2>1, PieceMore
<1>15. p > 0 => SubSeq(s, m + 1, p - 1) = SubSeq(t, m + 1, p - 1)
  <2>1. p > 0 => m + 1 \in Nat \ {0} /\ p - 1 \in Nat /\ p - 1 <= Len(t)
    <3> HIDE DEF b, m, p
    <3> QED BY <1>1, <1>2 DEF Place, invalid, incomplete
  <2> QED BY <2>1, PieceMore
<1> DEFINE Of(x, from, to) == IF to > 0 THEN SubSeq(x, from, to - 1) ELSE NULL
           r == IF h.ret > 0 THEN h.ret - 1 ELSE h.ret
<1>16. /\ parse_request(t, max) =
            [ret |-> r, fields |-> h.fields, method |-> Of(t, b, m), path |-> Of(t, m + 1, p)]
       /\ parse_request(s, max) =
            [ret |-> r, fields |-> h.fields, method |-> Of(s, b, m), path |-> Of(s, m + 1, p)]
  BY <1>8, <1>9, <1>10, <1>12, <1>13, RequestParts
<1>17. Of(s, b, m) = Of(t, b, m) /\ Of(s, m + 1, p) = Of(t, m + 1, p)
  <2> HIDE DEF b, m, p
  <2> QED BY <1>14, <1>15
<1> HIDE DEF Of, r, b, m, p, h
<1> QED BY <1>16, <1>17

-----------------------------------------------------------------------------
(* The blank line *)

LEMMA Characters ==
  /\ "CR" # "LF" /\ "LF" \in Control /\ "CR" \in Control
  /\ \A c \in Blank : c \notin Control
  /\ \A c \in Digits : c \notin Control
  /\ "HTTP/1." \notin Control /\ ":" \notin Control /\ SP \notin Control
  /\ \A c : c \notin Control => c # "CR" /\ c # "LF"
<1>1. SP # "CR" /\ SP # "LF" /\ SP # "NUL"
  BY Zenon DEF SP
<1> QED BY <1>1 DEF Control, Blank, Digits

\* The places where the search for the blank line ends.
Ends(s, p) == {q \in p..Len(s) :
                 \/ s[q] = "CR" /\ EndOfLine(s, q) < 0
                 \/ s[q] \in {"CR", "LF"} /\ q > p /\ s[q - 1] = "LF"}

\* There is none in front of a place.
Clean(s, q) == \A j \in 1..(q - 1) : j \notin Ends(s, 1)

\* A line begins there.
AtLine(s, q) == q \in 2..(Len(s) + 1) /\ s[q - 1] = "LF" /\ Clean(s, q)

LEMMA FirstEnd ==
  ASSUME NEW s, Len(s) \in Nat, NEW q \in Ends(s, 1), Clean(s, q)
  PROVE  TwoLineEnds(s, 1) = EndOfLine(s, q)
<1> DEFINE there == Ends(s, 1)
           x == CHOOSE y \in there : \A m \in there : y <= m
<1>1. TwoLineEnds(s, 1) = IF there = {} THEN incomplete ELSE EndOfLine(s, x)
  BY Zenon DEF TwoLineEnds, Ends
<1>2. q \in 1..Len(s) /\ there \subseteq 1..Len(s)
  BY DEF Ends
<1>3. \A m \in there : q <= m
  <2> SUFFICES ASSUME NEW m \in there, ~(q <= m) PROVE FALSE
    OBVIOUS
  <2>1. m \in 1..(q - 1)
    <3>1. m \in 1..Len(s)
      BY <1>2
    <3> HIDE DEF there
    <3> QED BY <1>2, <3>1
  <2> QED BY <2>1 DEF Clean
<1>4. x = q
  <2>1. there \subseteq Nat /\ q \in there
    BY <1>2
  <2> HIDE DEF there
  <2> QED BY <1>3, <2>1, LeastIs
<1>5. there # {}
  OBVIOUS
<1> HIDE DEF there, x
<1> QED BY <1>1, <1>4, <1>5

LEMMA LineEndsPlace ==
  ASSUME NEW s, Len(s) \in Nat
  PROVE  TwoLineEnds(s, 1) \in Place(s)
<1> DEFINE there == Ends(s, 1)
           x == CHOOSE y \in there : \A m \in there : y <= m
<1>1. TwoLineEnds(s, 1) = IF there = {} THEN incomplete ELSE EndOfLine(s, x)
  BY Zenon DEF TwoLineEnds, Ends
<1>2. there \subseteq 1..Len(s)
  BY DEF Ends
<1>3. there # {} => x \in there
  <2>1. there \subseteq Nat
    BY <1>2
  <2> HIDE DEF there
  <2> QED BY <2>1, Least
<1> HIDE DEF there, x
<1>4. there # {} => x \in Place(s)
  <2>1. \A y \in 1..Len(s) : y \in Place(s)
    BY DEF Place
  <2> QED BY <1>2, <1>3, <2>1
<1>5. there # {} => EndOfLine(s, x) \in Place(s)
  BY <1>4, EndOfLineIs
<1> QED BY <1>1, <1>5 DEF Place

LEMMA NoEnd ==
  ASSUME NEW s, Len(s) \in Nat, Clean(s, Len(s) + 1)
  PROVE  TwoLineEnds(s, 1) = incomplete
<1>1. Ends(s, 1) \subseteq 1..Len(s)
  BY DEF Ends
<1>2. \A j \in 1..Len(s) : j \notin Ends(s, 1)
  BY DEF Clean
<1>3. Ends(s, 1) = {}
  BY <1>1, <1>2
<1>4. Ends(s, 1) = {} => TwoLineEnds(s, 1) = incomplete
  BY Zenon DEF TwoLineEnds, Ends
<1> QED BY <1>3, <1>4

LEMMA CleanOver ==
  ASSUME NEW s, Len(s) \in Nat, NEW p \in Nat \ {0}, NEW q \in Nat, Clean(s, p),
         \A m \in p..(q - 1) : m <= Len(s) => s[m] \notin Control
  PROVE  Clean(s, q)
<1> SUFFICES ASSUME NEW j \in 1..(q - 1), j \in Ends(s, 1) PROVE FALSE
  BY DEF Clean
<1>1. j \notin 1..(p - 1)
  BY DEF Clean
<1>2. j <= Len(s) /\ s[j] \in {"CR", "LF"}
  BY DEF Ends
<1>3. j \in p..(q - 1)
  BY <1>1
<1> QED BY <1>2, <1>3, Characters

LEMMA CleanLine ==
  ASSUME NEW s, Len(s) \in Nat, NEW q \in 1..(Len(s) + 1), Clean(s, q), q = 1 \/ s[q - 1] # "LF"
  PROVE  LET l == EndOfLine(s, q)
         IN  /\ l > 0 => AtLine(s, l)
             /\ l = incomplete => TwoLineEnds(s, 1) = incomplete
<1> DEFINE l == EndOfLine(s, q)
<1>1. q \in Place(s) /\ q > 0
  BY DEF Place
<1>2. /\ l \in Place(s)
      /\ l > 0 => /\ q <= Len(s) /\ s[q] \in {"CR", "LF"} /\ l > q
                  /\ s[l - 1] = "LF"
                  /\ l = IF s[q] = "LF" THEN q + 1 ELSE q + 2
                  /\ s[q] = "CR" => q < Len(s) /\ s[q + 1] = "LF"
      /\ l = incomplete => q > Len(s) \/ (q = Len(s) /\ s[q] = "CR")
  BY <1>1, EndOfLineIs
<1>3. q \in Ends(s, 1) => s[q] = "CR" /\ l < 0
  BY DEF Ends
<1>4. CASE l > 0
  <2>1. l \in 2..(Len(s) + 1)
    <3> HIDE DEF l
    <3> QED BY <1>2, <1>4 DEF Place, invalid, incomplete
  <2>2. ASSUME NEW j \in 1..(l - 1), j \in Ends(s, 1) PROVE FALSE
    <3>1. j \notin 1..(q - 1)
      BY <2>2 DEF Clean
    <3>2. j # q
      <4>1. ~(l < 0)
        <5> HIDE DEF l
        <5> QED BY <1>4, <2>1
      <4> QED BY <1>3, <2>2, <4>1
    <3>3. l = q + 2 /\ j = q + 1 /\ s[q] = "CR" /\ s[j] = "LF" /\ j - 1 = q
      <4> HIDE DEF l
      <4> QED BY <1>2, <1>4, <2>1, <3>1, <3>2
    <3>4. s[j] = "CR" \/ s[j - 1] = "LF"
      BY <2>2 DEF Ends
    <3> QED BY <3>3, <3>4, Characters
  <2>3. Clean(s, l)
    BY <2>2 DEF Clean
  <2> QED BY <1>2, <1>4, <2>1, <2>3 DEF AtLine, incomplete
<1>5. CASE l = incomplete
  <2>1. CASE q > Len(s)
    <3>1. q = Len(s) + 1
      BY <2>1
    <3> QED BY <1>5, <3>1, NoEnd DEF incomplete
  <2>2. CASE q = Len(s) /\ s[q] = "CR"
    <3>1. l < 0
      BY <1>5 DEF incomplete
    <3>2. q \in Ends(s, 1)
      BY <2>2, <3>1 DEF Ends
    <3> QED BY <1>5, <3>2, FirstEnd DEF incomplete
  <2> QED BY <1>2, <1>5, <2>1, <2>2
<1> QED BY <1>4, <1>5

\* A field keeps the search going.
LEMMA FieldPasses ==
  ASSUME NEW s, Len(s) \in Nat, NEW p, AtLine(s, p), p <= Len(s), s[p] \notin {"CR", "LF"},
         NEW folded \in BOOLEAN, folded => s[p] \in Blank
  PROVE  LET n == Field(s, p, folded).next
         IN  /\ n > 0 => AtLine(s, n)
             /\ n = incomplete => TwoLineEnds(s, 1) = incomplete
<1> DEFINE c == Colon(s, p)
           f == ValueFrom(s, p, folded)
           e == ValueEnd(s, p, folded)
           n == Field(s, p, folded).next
<1>1. p \in 1..Len(s) /\ p \in Nat \ {0} /\ Clean(s, p)
  BY DEF AtLine
<1>2. /\ c \in p..(Len(s) + 1) /\ f \in p..(Len(s) + 1) /\ e \in f..(Len(s) + 1)
      /\ n \in Place(s)
      /\ n = IF Named(s, p, folded) THEN EndOfLine(s, e)
             ELSE IF c > Len(s) THEN incomplete ELSE invalid
  BY <1>1, FieldIs
<1>3. /\ c <= Len(s) => s[c] \in {":", "/"} \cup Blank \cup Control
      /\ \A m \in p..Len(s) : m < c => s[m] \notin {":", "/"} \cup Blank \cup Control
  BY <1>1, Found DEF Colon
<1>4. f \in Nat \ {0}
  <2> HIDE DEF c, f, e
  <2> QED BY <1>1, <1>2
<1>5. /\ e <= Len(s) => s[e] \in Control
      /\ \A m \in f..Len(s) : m < e => s[m] \notin Control
  BY <1>4, Found DEF ValueEnd
<1>6. CASE ~Named(s, p, folded)
  <2>1. CASE c > Len(s)
    <3>1. \A m \in p..(Len(s) + 1 - 1) : m < c /\ m \in p..Len(s)
      <4> HIDE DEF c
      <4> QED BY <1>1, <1>2, <2>1
    <3>2. Clean(s, Len(s) + 1)
      <4> HIDE DEF c
      <4> QED BY <1>1, <1>3, <3>1, CleanOver
    <3>3. TwoLineEnds(s, 1) = incomplete
      BY <3>2, NoEnd
    <3>4. n = incomplete
      BY <1>2, <1>6, <2>1
    <3> QED BY <3>3, <3>4 DEF incomplete
  <2>2. CASE ~(c > Len(s))
    <3>1. n = invalid
      BY <1>2, <1>6, <2>2
    <3> QED BY <3>1 DEF invalid, incomplete
  <2> QED BY <2>1, <2>2
<1>7. CASE Named(s, p, folded)
  <2>1. \A m \in p..(f - 1) : s[m] \notin Control
    <3>1. CASE folded
      <4>1. f = p
        BY <3>1 DEF ValueFrom
      <4> QED BY <1>1, <4>1
    <3>2. CASE ~folded
      <4>1. s[c] = ":" /\ c <= Len(s)
        BY <1>7, <3>2 DEF Named
      <4>2. c + 1 \in Nat \ {0}
        <5> HIDE DEF c
        <5> QED BY <1>1, <1>2
      <4>3. \A m \in (c + 1)..Len(s) : m < f => s[m] \in Blank
        BY <3>2, <4>2, FoundOther DEF ValueFrom
      <4> HIDE DEF c, f, e, n
      <4> SUFFICES ASSUME NEW m \in p..(f - 1) PROVE s[m] \notin Control
        OBVIOUS
      <4>4. m \in p..Len(s) /\ m < f /\ (m < c \/ m = c \/ m \in (c + 1)..Len(s))
        BY <1>1, <1>2, <4>1
      <4> QED BY <1>3, <4>1, <4>3, <4>4, Characters
    <3> QED BY <3>1, <3>2
  <2>2. e > p
    <3>1. CASE folded
      <4>1. f = p /\ s[p] \notin Control
        BY <3>1, Characters DEF ValueFrom
      <4>2. e # p
        <5> HIDE DEF e
        <5> QED BY <1>1, <1>5, <4>1
      <4> HIDE DEF c, f, e
      <4> QED BY <1>1, <1>2, <4>2
    <3>2. CASE ~folded
      <4>1. c <= Len(s) /\ c # p
        BY <1>7, <3>2 DEF Named
      <4>2. c + 1 \in Nat \ {0}
        <5> HIDE DEF c
        <5> QED BY <1>1, <1>2
      <4>3. f = FindOther(s, c + 1, Blank) /\ c + 1 \in 1..(Len(s) + 1)
        <5>1. c + 1 \in 1..(Len(s) + 1)
          <6> HIDE DEF c
          <6> QED BY <1>1, <1>2, <4>1
        <5> QED BY <3>2, <5>1 DEF ValueFrom
      <4>4. f \in (c + 1)..(Len(s) + 1)
        <5> HIDE DEF c, f
        <5> QED BY <4>3, FoundWithin
      <4> HIDE DEF c, f, e
      <4> QED BY <1>1, <1>2, <4>1, <4>4
    <3> QED BY <3>1, <3>2
  <2>3. \A m \in p..(e - 1) : s[m] \notin Control
    <3> HIDE DEF c, f, e, n
    <3> SUFFICES ASSUME NEW m \in p..(e - 1) PROVE s[m] \notin Control
      OBVIOUS
    <3>1. m \in p..(f - 1) \/ (m \in f..Len(s) /\ m < e)
      BY <1>1, <1>2
    <3> QED BY <1>5, <2>1, <3>1
  <2>4. e \in 1..(Len(s) + 1) /\ e - 1 \in p..(e - 1)
    <3> HIDE DEF c, f, e, n
    <3> QED BY <1>1, <1>2, <2>2
  <2>5. Clean(s, e)
    <3> HIDE DEF c, f, e, n
    <3> QED BY <1>1, <2>3, <2>4, CleanOver
  <2>6. s[e - 1] # "LF"
    BY <2>3, <2>4, Characters
  <2>7. n = EndOfLine(s, e)
    BY <1>2, <1>7
  <2> HIDE DEF e, n
  <2>8. (n > 0 => AtLine(s, n)) /\ (n = incomplete => TwoLineEnds(s, 1) = incomplete)
    BY <2>4, <2>5, <2>6, <2>7, CleanLine
  <2> QED BY <2>8 DEF n
<1> QED BY <1>6, <1>7

\* So does the request line.
LEMMA RequestLinePasses ==
  ASSUME NEW s \in Seq(STRING)
  PROVE  /\ LineEnd(s) > 0 => AtLine(s, LineEnd(s))
         /\ LineEnd(s) = incomplete => TwoLineEnds(s, 1) = incomplete
<1> DEFINE b == Begin(s)
           m == MethodEnd(s)
           p == PathEnd(s)
           v == VersionEnd(s)
           l == LineEnd(s)
           Searching(x) == x = incomplete => TwoLineEnds(s, 1) = incomplete
<1>1. Len(s) \in Nat
  OBVIOUS
<1>2. /\ b \in Place(s) /\ m \in Place(s) /\ p \in Place(s) /\ v \in Place(s) /\ l \in Place(s)
      /\ m > 0 => b \in 1..m /\ m <= Len(s) /\ m + 1 \in Place(s)
      /\ p > 0 => m > 0 /\ p \in (m + 1)..Len(s) /\ p + 1 \in Place(s)
      /\ b < 0 => m = b
      /\ m < 0 => p = m
      /\ p < 0 => v = p
      /\ v < 0 => l = v
  BY <1>1, RequestPlaces
<1>3. (b > 0 => Clean(s, b)) /\ Searching(b)
  <2>1. Clean(s, 1) /\ 1 \in 1..(Len(s) + 1)
    BY <1>1 DEF Clean
  <2>2. CASE s # <<>> /\ s[1] \in {"CR", "LF"}
    <3>1. b = EndOfLine(s, 1)
      BY <2>2 DEF Begin
    <3> HIDE DEF b
    <3> QED BY <1>1, <2>1, <3>1, CleanLine DEF AtLine
  <2>3. CASE ~(s # <<>> /\ s[1] \in {"CR", "LF"})
    <3>1. b = 1
      BY <2>3 DEF Begin
    <3> QED BY <2>1, <3>1 DEF incomplete
  <2> QED BY <2>2, <2>3
<1>4. (m > 0 => Clean(s, m + 1)) /\ Searching(m)
  <2>1. CASE b < 0
    <3>1. m = b
      BY <1>2, <2>1
    <3> HIDE DEF b, m
    <3> QED BY <1>2, <1>3, <2>1, <3>1 DEF Place, invalid, incomplete
  <2>2. CASE ~(b < 0)
    <3>1. b \in 1..(Len(s) + 1)
      <4> HIDE DEF b
      <4> QED BY <1>2, <2>2 DEF Place, invalid, incomplete
    <3>2. /\ m > 0 => m \in b..Len(s) /\ s[m] = SP /\ \A j \in b..(m - 1) : s[j] \notin Control
          /\ m = incomplete => \A j \in b..Len(s) : s[j] \notin Control
      <4>1. b > 0
        <5> HIDE DEF b
        <5> QED BY <3>1
      <4> QED BY <1>1, <1>2, <4>1, TokenIs DEF MethodEnd
    <3> HIDE DEF b, m, p, v, l
    <3>3. ASSUME m > 0 PROVE Clean(s, m + 1)
      <4>1. \A j \in b..((m + 1) - 1) : s[j] \notin Control
        <5> SUFFICES ASSUME NEW j \in b..((m + 1) - 1) PROVE s[j] \notin Control
          OBVIOUS
        <5>1. j \in b..(m - 1) \/ j = m
          BY <3>1, <3>2, <3>3
        <5> QED BY <3>2, <3>3, <5>1, Characters
      <4>2. b \in Nat \ {0} /\ m + 1 \in Nat /\ Clean(s, b)
        BY <1>3, <3>1, <3>2, <3>3
      <4> QED BY <1>1, <4>1, <4>2, CleanOver
    <3>4. ASSUME m = incomplete PROVE TwoLineEnds(s, 1) = incomplete
      <4>1. \A j \in b..((Len(s) + 1) - 1) : s[j] \notin Control
        BY <3>1, <3>2, <3>4
      <4>2. b \in Nat \ {0} /\ Len(s) + 1 \in Nat /\ Clean(s, b)
        BY <1>1, <1>3, <3>1
      <4>3. Clean(s, Len(s) + 1)
        BY <1>1, <4>1, <4>2, CleanOver
      <4> QED BY <4>3, NoEnd
    <3> QED BY <3>3, <3>4
  <2> QED BY <2>1, <2>2
<1>5. (p > 0 => Clean(s, p + 1)) /\ Searching(p)
  <2>1. CASE m < 0
    <3>1. p = m
      BY <1>2, <2>1
    <3> HIDE DEF p, m
    <3> QED BY <1>2, <1>4, <2>1, <3>1 DEF Place, invalid, incomplete
  <2>2. CASE ~(m < 0)
    <3>1. m + 1 \in 1..(Len(s) + 1) /\ m > 0 /\ m + 1 \in Place(s) /\ m + 1 > 0
      <4> HIDE DEF b, m
      <4> QED BY <1>2, <2>2 DEF Place, invalid, incomplete
    <3>2. p = ADVANCE_TOKEN(s, m + 1)
      BY <2>2 DEF PathEnd
    <3>3. /\ p > 0 => p \in (m + 1)..Len(s) /\ s[p] = SP /\ \A j \in (m + 1)..(p - 1) : s[j] \notin Control
          /\ p = incomplete => \A j \in (m + 1)..Len(s) : s[j] \notin Control
      BY <1>1, <3>1, <3>2, TokenIs
    <3> HIDE DEF b, m, p, v, l
    <3>4. ASSUME p > 0 PROVE Clean(s, p + 1)
      <4>1. \A j \in (m + 1)..((p + 1) - 1) : s[j] \notin Control
        <5> SUFFICES ASSUME NEW j \in (m + 1)..((p + 1) - 1) PROVE s[j] \notin Control
          OBVIOUS
        <5>1. j \in (m + 1)..(p - 1) \/ j = p
          BY <3>1, <3>3, <3>4
        <5> QED BY <3>3, <3>4, <5>1, Characters
      <4>2. m + 1 \in Nat \ {0} /\ p + 1 \in Nat /\ Clean(s, m + 1)
        BY <1>4, <3>1, <3>3, <3>4
      <4> QED BY <1>1, <4>1, <4>2, CleanOver
    <3>5. ASSUME p = incomplete PROVE TwoLineEnds(s, 1) = incomplete
      <4>1. \A j \in (m + 1)..((Len(s) + 1) - 1) : s[j] \notin Control
        BY <3>1, <3>3, <3>5
      <4>2. m + 1 \in Nat \ {0} /\ Len(s) + 1 \in Nat /\ Clean(s, m + 1)
        BY <1>1, <1>4, <3>1
      <4>3. Clean(s, Len(s) + 1)
        BY <1>1, <4>1, <4>2, CleanOver
      <4> QED BY <4>3, NoEnd
    <3> QED BY <3>4, <3>5
  <2> QED BY <2>1, <2>2
<1>6. (v > 0 => v > 1 /\ Clean(s, v) /\ s[v - 1] # "LF") /\ Searching(v)
  <2>1. CASE p < 0
    <3>1. v = p
      BY <1>2, <2>1
    <3> HIDE DEF p, v
    <3> QED BY <1>2, <1>5, <2>1, <3>1 DEF Place, invalid, incomplete
  <2>2. CASE ~(p < 0)
    <3>1. p + 1 \in 1..(Len(s) + 1) /\ p > 0 /\ p + 1 \in Place(s) /\ p + 1 > 0
      <4> HIDE DEF m, p
      <4> QED BY <1>2, <2>2 DEF Place, invalid, incomplete
    <3>2. v = parse_http_version(s, p + 1)
      BY <2>2 DEF VersionEnd
    <3>3. /\ v > 0 => /\ v \in (p + 1)..Len(s) /\ v > (p + 1) + 1 /\ s[p + 1] = "HTTP/1."
                      /\ \A j \in ((p + 1) + 1)..(v - 1) : s[j] \in Digits
          /\ v = incomplete => /\ p + 1 <= Len(s) => s[p + 1] = "HTTP/1."
                               /\ \A j \in ((p + 1) + 1)..Len(s) : s[j] \in Digits
      BY <1>1, <3>1, <3>2, VersionIs
    <3> HIDE DEF b, m, p, v, l
    <3>4. ASSUME v > 0 PROVE v > 1 /\ Clean(s, v) /\ s[v - 1] # "LF"
      <4>1. \A j \in (p + 1)..(v - 1) : s[j] \notin Control
        <5> SUFFICES ASSUME NEW j \in (p + 1)..(v - 1) PROVE s[j] \notin Control
          OBVIOUS
        <5>1. j \in ((p + 1) + 1)..(v - 1) \/ j = p + 1
          BY <3>1, <3>3, <3>4
        <5> QED BY <3>3, <3>4, <5>1, Characters
      <4>2. p + 1 \in Nat \ {0} /\ v \in Nat /\ Clean(s, p + 1) /\ v - 1 \in (p + 1)..(v - 1) /\ v > 1
        BY <1>5, <3>1, <3>3, <3>4
      <4>3. Clean(s, v)
        BY <1>1, <4>1, <4>2, CleanOver
      <4> QED BY <4>1, <4>2, <4>3, Characters
    <3>5. ASSUME v = incomplete PROVE TwoLineEnds(s, 1) = incomplete
      <4>1. \A j \in (p + 1)..((Len(s) + 1) - 1) : s[j] \notin Control
        <5> SUFFICES ASSUME NEW j \in (p + 1)..((Len(s) + 1) - 1) PROVE s[j] \notin Control
          OBVIOUS
        <5>1. j \in ((p + 1) + 1)..Len(s) \/ (j = p + 1 /\ p + 1 <= Len(s))
          BY <1>1, <3>1
        <5> QED BY <3>3, <3>5, <5>1, Characters
      <4>2. p + 1 \in Nat \ {0} /\ Len(s) + 1 \in Nat /\ Clean(s, p + 1)
        BY <1>1, <1>5, <3>1
      <4>3. Clean(s, Len(s) + 1)
        BY <1>1, <4>1, <4>2, CleanOver
      <4> QED BY <4>3, NoEnd
    <3> QED BY <3>4, <3>5
  <2> QED BY <2>1, <2>2
<1>7. CASE v < 0
  <2>1. l = v
    BY <1>2, <1>7
  <2> HIDE DEF l, v
  <2>2. ~(l > 0)
    BY <1>2, <1>7, <2>1 DEF Place, invalid, incomplete
  <2>3. Searching(l)
    BY <1>6, <2>1
  <2> QED BY <2>2, <2>3 DEF l
<1>8. CASE ~(v < 0)
  <2>1. v \in 1..(Len(s) + 1) /\ v > 0
    <3> HIDE DEF v
    <3> QED BY <1>2, <1>8 DEF Place, invalid, incomplete
  <2>2. l = EndOfLine(s, v)
    BY DEF LineEnd
  <2> HIDE DEF l, v
  <2>3. (l > 0 => AtLine(s, l)) /\ Searching(l)
    BY <1>1, <1>6, <2>1, <2>2, CleanLine
  <2> QED BY <2>3 DEF l
<1> QED BY <1>7, <1>8

\* Where the parser ends the search ends, if the parser has not met a fault.
LEMMA HeadersPassed ==
  ASSUME NEW s, Len(s) \in Nat, NEW p \in Place(s), NEW max \in Nat,
         p > 0 => AtLine(s, p), p = incomplete => TwoLineEnds(s, 1) = incomplete
  PROVE  LET ret == parse_headers(s, p, max).ret
         IN  /\ ret > 0 \/ ret = incomplete => TwoLineEnds(s, 1) = ret
             /\ ret > 0 => ret > 2
<1> DEFINE g == FieldsFrom(s, p, max)
           ret == parse_headers(s, p, max).ret
           Passes(n) == /\ n > 0 => AtLine(s, n)
                        /\ n = incomplete => TwoLineEnds(s, 1) = incomplete
           S == {k \in 0..max : Passes(g[k].next)}
<1>1. /\ g[0] = [next |-> p, fields |-> <<>>]
      /\ \A k \in 0..(max - 1) : g[k + 1] = NextField(s, g[k])
      /\ \A k \in 0..max : g[k].next \in Place(s)
  BY FieldsFromIs, FieldsFromPlaces
<1>2. ret = IF g[max].next < 0 THEN g[max].next
            ELSE IF g[max].next > Len(s) THEN incomplete
            ELSE IF s[g[max].next] \in {"CR", "LF"} THEN EndOfLine(s, g[max].next)
            ELSE invalid
  BY HeadersIs
<1> HIDE DEF g, ret
<1>3. 0 \in S
  <2>1. g[0].next = p
    BY <1>1
  <2> QED BY <2>1
<1>4. ASSUME NEW k \in 0..(max - 1), k \in S PROVE k + 1 \in S
  <2> DEFINE h == g[k]
             q == h.next
             folded == h.fields # <<>> /\ s[q] \in Blank
             f == Field(s, q, folded)
  <2>1. k \in 0..max /\ k + 1 \in 0..max /\ q \in Place(s) /\ g[k + 1] = NextField(s, h) /\ Passes(q)
    BY <1>1, <1>4
  <2> HIDE DEF h
  <2>2. CASE q < 0 \/ q > Len(s) \/ s[q] \in {"CR", "LF"}
    <3>1. NextField(s, h) = h
      BY <2>1, <2>2, NextFieldIs
    <3> QED BY <2>1, <3>1
  <2>3. CASE ~(q < 0 \/ q > Len(s) \/ s[q] \in {"CR", "LF"})
    <3>1. g[k + 1].next = f.next /\ folded \in BOOLEAN
      <4>1. h.next \in Place(s)
        BY <2>1
      <4>2. NextField(s, h).next = f.next
        BY ZenonT(60), <2>3, <4>1, NextFieldIs
      <4>3. folded \in BOOLEAN
        OBVIOUS
      <4> QED BY <2>1, <4>2, <4>3
    <3>2. q > 0 /\ q <= Len(s) /\ AtLine(s, q) /\ s[q] \notin {"CR", "LF"}
      <4>1. q > 0 /\ q <= Len(s)
        <5> HIDE DEF q
        <5> QED BY <2>1, <2>3 DEF Place, invalid, incomplete
      <4> QED BY <2>1, <2>3, <4>1
    <3>3. folded => s[q] \in Blank
      OBVIOUS
    <3> HIDE DEF folded, q
    <3>4. Passes(f.next)
      BY <3>1, <3>2, <3>3, FieldPasses
    <3> HIDE DEF f
    <3> QED BY <2>1, <3>1, <3>4
  <2> QED BY <2>2, <2>3
<1>5. Passes(g[max].next) /\ g[max].next \in Place(s)
  <2>1. max \in 0..max /\ 0 \in Nat
    OBVIOUS
  <2>2. max \in S
    <3> HIDE DEF S
    <3> QED BY <1>3, <1>4, <2>1, Induction
  <2> QED BY <1>1, <2>1, <2>2
<1> DEFINE n == g[max].next
<1> HIDE DEF n, Passes
<1>6. /\ n > 0 => AtLine(s, n)
      /\ n = incomplete => TwoLineEnds(s, 1) = incomplete
      /\ n \in Place(s)
      /\ ret = IF n < 0 THEN n ELSE IF n > Len(s) THEN incomplete
               ELSE IF s[n] \in {"CR", "LF"} THEN EndOfLine(s, n) ELSE invalid
  BY <1>2, <1>5 DEF n, Passes
<1>7. CASE n < 0
  <2>1. ret = n /\ ~(n > 0)
    BY <1>6, <1>7 DEF Place, invalid, incomplete
  <2>2. ~(ret > 0) /\ (ret = incomplete => TwoLineEnds(s, 1) = ret)
    BY <1>6, <2>1
  <2> QED BY <2>2 DEF ret
<1>8. CASE ~(n < 0) /\ n > Len(s)
  <2>1. n = Len(s) + 1 /\ n > 0
    BY <1>6, <1>8 DEF Place, invalid, incomplete
  <2>2. Clean(s, Len(s) + 1)
    BY <1>6, <2>1 DEF AtLine
  <2>3. ret = incomplete
    BY <1>6, <1>8
  <2>4. ~(ret > 0) /\ TwoLineEnds(s, 1) = ret
    BY <2>2, <2>3, NoEnd DEF incomplete
  <2> QED BY <2>4 DEF ret
<1>9. CASE ~(n < 0) /\ ~(n > Len(s)) /\ s[n] \in {"CR", "LF"}
  <2>1. n \in 1..Len(s) /\ n > 0
    BY <1>6, <1>9 DEF Place, invalid, incomplete
  <2>2. n > 1 /\ s[n - 1] = "LF" /\ Clean(s, n)
    BY <1>6, <2>1 DEF AtLine
  <2>3. n \in Ends(s, 1)
    BY <1>9, <2>1, <2>2 DEF Ends
  <2>4. ret = EndOfLine(s, n)
    BY <1>6, <1>9
  <2>5. ret > 0 => ret > n /\ ret \in Place(s)
    BY <1>6, <2>1, <2>4, EndOfLineIs
  <2>6. ret > 0 => ret > 2
    BY <2>1, <2>2, <2>5 DEF Place, invalid, incomplete
  <2>7. TwoLineEnds(s, 1) = ret
    BY <2>2, <2>3, <2>4, FirstEnd
  <2> QED BY <2>6, <2>7 DEF ret
<1>10. CASE ~(n < 0) /\ ~(n > Len(s)) /\ s[n] \notin {"CR", "LF"}
  <2>1. ret = invalid
    BY <1>6, <1>10
  <2> QED BY <2>1 DEF ret, invalid, incomplete
<1> QED BY <1>7, <1>8, <1>9, <1>10

LEMMA BlankLine ==
  ASSUME NEW s \in Seq(STRING), NEW max \in Nat
  PROVE  LET ret == parse_request(s, max).ret
         IN  /\ ret \in Nat \cup {invalid, incomplete}
             /\ ret >= 0 => ret > 0 /\ TwoLineEnds(s, 1) > 0
             /\ ret = incomplete => TwoLineEnds(s, 1) = incomplete
<1> DEFINE h == parse_headers(s, LineEnd(s), max)
<1>1. Len(s) \in Nat
  OBVIOUS
<1>2. LineEnd(s) \in Place(s)
  BY <1>1, RequestPlaces
<1>3. h.ret \in Place(s) /\ (h.ret > 0 \/ h.ret = incomplete => TwoLineEnds(s, 1) = h.ret)
  BY <1>1, <1>2, RequestLinePasses, HeadersPassed, HeadersIs
<1>4. parse_request(s, max).ret = IF h.ret > 0 THEN h.ret - 1 ELSE h.ret
  BY RequestParts
<1>5. h.ret > 0 => h.ret > 2
  BY <1>1, <1>2, RequestLinePasses, HeadersPassed
<1> DEFINE ret == parse_request(s, max).ret
<1> HIDE DEF h, ret
<1>6. ret = IF h.ret > 0 THEN h.ret - 1 ELSE h.ret
  BY <1>4 DEF ret
<1>7. /\ ret \in Nat \cup {invalid, incomplete}
      /\ ret >= 0 => ret > 0 /\ TwoLineEnds(s, 1) > 0
      /\ ret = incomplete => TwoLineEnds(s, 1) = incomplete
  BY <1>1, <1>3, <1>5, <1>6 DEF Place, invalid, incomplete
<1> QED BY <1>7 DEF ret

\* The search may begin where the last one was, when that has found nothing.
LEMMA SearchGoesOn ==
  ASSUME NEW s, NEW t, Starts(t, s), TwoLineEnds(t, 1) = incomplete
  PROVE  is_complete(s, Len(t)) = TwoLineEnds(s, 1)
<1> DEFINE l == Len(t)
           p == IF l < 3 THEN 1 ELSE l - 2
           First(T) == CHOOSE q \in T : \A m \in T : q <= m
<1>1. l \in Nat /\ Len(s) \in Nat /\ l <= Len(s) /\ p \in Nat \ {0}
  BY DEF Starts
<1>2. \A j \in Ends(t, 1) : j = l
  <2>1. TwoLineEnds(t, 1) = IF Ends(t, 1) = {} THEN incomplete ELSE EndOfLine(t, First(Ends(t, 1)))
    BY Zenon DEF TwoLineEnds, Ends
  <2>2. Ends(t, 1) \subseteq 1..l
    BY DEF Ends
  <2> SUFFICES ASSUME NEW j \in Ends(t, 1) PROVE j = l
    OBVIOUS
  <2> DEFINE x == First(Ends(t, 1))
  <2>3. x \in Ends(t, 1) /\ \A m \in Ends(t, 1) : x <= m
    <3>1. Ends(t, 1) \subseteq Nat /\ Ends(t, 1) # {}
      BY <2>2
    <3> QED BY <3>1, Least
  <2>4. EndOfLine(t, x) = incomplete
    BY <2>1
  <2> HIDE DEF x
  <2>5. x \in 1..l /\ j \in 1..l /\ x <= j
    BY <2>2, <2>3
  <2>6. x \in Place(t) /\ x > 0
    BY <1>1, <2>5 DEF Place
  <2>7. x > l \/ x = l
    BY <1>1, <2>4, <2>6, EndOfLineIs
  <2> QED BY <1>1, <2>5, <2>7
<1>3. ASSUME NEW j \in Ends(s, 1) PROVE j >= l
  <2> SUFFICES ASSUME j < l PROVE FALSE
    BY <1>1 DEF Ends
  <2>1. j \in 1..Len(s) /\ j \in 1..l /\ j \in Place(t) /\ j > 0 /\ j < l
    BY <1>1 DEF Ends, Place
  <2>2. s[j] = t[j] /\ (j > 1 => s[j - 1] = t[j - 1])
    BY <1>1, <2>1 DEF Starts
  <2>3. EndOfLine(t, j) # incomplete
    BY <1>1, <2>1, EndOfLineIs
  <2>4. EndOfLine(s, j) = EndOfLine(t, j)
    BY <2>1, <2>3, EndOfLineMore
  <2>5. j \in Ends(t, 1)
    BY <2>1, <2>2, <2>4 DEF Ends
  <2> QED BY <1>1, <1>2, <2>1, <2>5
<1>4. Ends(s, p) = Ends(s, 1)
  <2>1. ASSUME NEW j \in Ends(s, p) PROVE j \in Ends(s, 1)
    <3>1. j \in p..Len(s) /\ j \in 1..Len(s) /\ (j > p => j > 1)
      BY <1>1 DEF Ends
    <3> HIDE DEF p
    <3> QED BY <3>1 DEF Ends
  <2>2. ASSUME NEW j \in Ends(s, 1) PROVE j \in Ends(s, p)
    <3>1. j \in 1..Len(s) /\ j >= l
      BY <1>3 DEF Ends
    <3>2. j \in p..Len(s) /\ (j > 1 => j > p)
      BY <1>1, <3>1
    <3> HIDE DEF p
    <3> QED BY <3>2 DEF Ends
  <2> QED BY <2>1, <2>2
<1>5. /\ TwoLineEnds(s, p) = IF Ends(s, p) = {} THEN incomplete ELSE EndOfLine(s, First(Ends(s, p)))
      /\ TwoLineEnds(s, 1) = IF Ends(s, 1) = {} THEN incomplete ELSE EndOfLine(s, First(Ends(s, 1)))
  BY Zenon DEF TwoLineEnds, Ends
<1>6. is_complete(s, l) = TwoLineEnds(s, p)
  BY DEF is_complete
<1> HIDE DEF p, First
<1> QED BY <1>4, <1>5, <1>6

-----------------------------------------------------------------------------
(* A head arrives *)

\* What has arrived.
Arrived == SubSeq(request.text, 1, arrived)

Whole == parse_request(request.text, MAX_HTTP_HEADERS)

\* The pieces are searched through so far, and read so far as they go.
HeadInv ==
  /\ request \in Heads
  /\ arrived \in 0..Len(request.text)
  /\ progress \in {"waiting", "headers", "processing", "refused", "read"}
  /\ last_headers_len \in 0..arrived
  /\ TwoLineEnds(SubSeq(request.text, 1, last_headers_len), 1) = incomplete
  /\ progress \in {"waiting", "headers"} => n_headers = MAX_HTTP_HEADERS
  /\ progress = "waiting" => last_headers_len = arrived
  /\ progress \in {"headers", "waiting", "processing"} => taken = Defaults
  /\ progress \in {"processing", "read"} => head = Whole /\ Whole.ret > 0
  /\ progress = "refused" => Whole.ret = invalid
  /\ progress = "read" =>
       taken = [TakeFields(head.fields) EXCEPT !.boundary = GetMultipartBondary(head.fields)]

LEMMA PrefixStarts ==
  ASSUME NEW s \in Seq(STRING), NEW k \in 0..Len(s), NEW l \in 0..k
  PROVE  /\ SubSeq(s, 1, k) \in Seq(STRING) /\ Len(SubSeq(s, 1, k)) = k
         /\ Starts(SubSeq(s, 1, k), s)
         /\ Starts(SubSeq(s, 1, l), SubSeq(s, 1, k))
<1>1. Len(s) \in Nat /\ k \in Nat /\ l \in Nat /\ l <= k /\ k <= Len(s)
  OBVIOUS
<1>2. ASSUME NEW n \in 0..Len(s)
      PROVE  /\ SubSeq(s, 1, n) \in Seq(STRING) /\ Len(SubSeq(s, 1, n)) = n
             /\ \A i \in 1..n : SubSeq(s, 1, n)[i] = s[i]
  <2> DEFINE t == SubSeq(s, 1, n)
  <2>1. \A i \in 1..n : s[i] \in STRING
    BY <1>1
  <2>2. /\ t \in Seq(STRING) /\ Len(t) = IF 1 <= n THEN n - 1 + 1 ELSE 0
        /\ \A i \in 1..(n - 1 + 1) : t[i] = s[1 + i - 1]
    BY <2>1, SubSeqProperties
  <2> HIDE DEF t
  <2>3. t \in Seq(STRING) /\ Len(t) = n /\ \A i \in 1..n : t[i] = s[i]
    BY <1>1, <2>2
  <2> QED BY <2>3 DEF t
<1>3. k \in 0..Len(s) /\ l \in 0..Len(s)
  BY <1>1
<1> QED BY <1>1, <1>2, <1>3 DEF Starts

\* What is read of what has arrived is so of the whole, or nothing is missed.
LEMMA ParsedIsWhole ==
  ASSUME HeadInv, progress = "headers"
  PROVE  /\ ParsedHead.ret > 0 => ParsedHead = Whole /\ Whole.ret > 0
         /\ ParsedHead.ret = incomplete => TwoLineEnds(Arrived, 1) = incomplete
         /\ ParsedHead.ret = invalid => Whole.ret = invalid
<1> DEFINE s == request.text
           t == Arrived
           l == last_headers_len
           MAX == MAX_HTTP_HEADERS
           r == parse_request(t, MAX)
<1>1. /\ s \in Seq(STRING) /\ arrived \in 0..Len(s) /\ l \in 0..arrived /\ MAX \in Nat
      /\ n_headers = MAX
      /\ TwoLineEnds(SubSeq(s, 1, l), 1) = incomplete
  BY HeadsAssumption DEF HeadInv
<1>2. /\ t \in Seq(STRING) /\ Starts(t, s)
      /\ Len(SubSeq(s, 1, l)) = l /\ Starts(SubSeq(s, 1, l), t)
  <2>1. l \in 0..Len(s) /\ 0 \in 0..l
    BY <1>1
  <2> QED BY <1>1, <2>1, PrefixStarts DEF Arrived
<1>3. r.ret # incomplete => r = Whole
  BY <1>1, <1>2, RequestMore DEF Whole
<1>4. /\ r.ret \in Nat \cup {invalid, incomplete}
      /\ r.ret >= 0 => r.ret > 0 /\ TwoLineEnds(t, 1) > 0
      /\ r.ret = incomplete => TwoLineEnds(t, 1) = incomplete
  BY <1>1, <1>2, BlankLine
<1>5. is_complete(t, l) = TwoLineEnds(t, 1)
  BY <1>1, <1>2, SearchGoesOn
<1>6. ParsedHead = phr_parse_request(t, MAX, l)
  BY <1>1 DEF ParsedHead, Arrived
<1> HIDE DEF t, s, r, MAX
<1>7. CASE l # 0 /\ is_complete(t, l) < 0
  <2>1. ParsedHead.ret = TwoLineEnds(t, 1)
    BY <1>5, <1>6, <1>7 DEF phr_parse_request
  <2>2. ~(ParsedHead.ret > 0)
    <3>1. TwoLineEnds(t, 1) \in Place(t)
      BY <1>2, LineEndsPlace
    <3> QED BY <1>5, <1>7, <2>1, <3>1 DEF Place, invalid, incomplete
  <2>3. ParsedHead.ret = invalid => r.ret = invalid
    BY <1>4, <2>1 DEF invalid, incomplete
  <2>4. incomplete # invalid
    BY DEF invalid, incomplete
  <2> QED BY <1>3, <2>1, <2>2, <2>3, <2>4 DEF t
<1>8. CASE ~(l # 0 /\ is_complete(t, l) < 0)
  <2>1. ParsedHead = r
    BY <1>6, <1>8, Zenon DEF phr_parse_request, r
  <2>2. r.ret > 0 => r.ret # incomplete
    BY DEF incomplete
  <2>3. incomplete # invalid
    BY DEF invalid, incomplete
  <2> QED BY <1>3, <1>4, <2>1, <2>2, <2>3 DEF t
<1> QED BY <1>7, <1>8

LEMMA HeadInvInit == HeadInit => HeadInv
<1> SUFFICES ASSUME HeadInit PROVE HeadInv
  OBVIOUS
<1> DEFINE t == SubSeq(request.text, 1, last_headers_len)
<1>1. /\ request \in Heads /\ arrived = 0 /\ progress = "waiting" /\ last_headers_len = 0
      /\ n_headers = MAX_HTTP_HEADERS /\ taken = Defaults
  BY DEF HeadInit, HeadStart
<1>2. request.text \in Seq(STRING)
  BY <1>1, HeadsAssumption
<1>3. arrived \in 0..Len(request.text) /\ last_headers_len \in 0..arrived
  BY <1>1, <1>2
<1>4. t = <<>>
  BY <1>1, SubSeqEmpty
<1> HIDE DEF t
<1>5. TwoLineEnds(t, 1) = incomplete
  <2>1. Len(t) = 0
    BY <1>4
  <2>2. Clean(t, Len(t) + 1) /\ Len(t) \in Nat
    BY <2>1 DEF Clean
  <2> QED BY <2>2, NoEnd
<1> QED BY <1>1, <1>3, <1>5 DEF HeadInv, t

LEMMA HeadInvStep == HeadInv /\ [HeadNext]_head_vars => HeadInv'
<1> SUFFICES ASSUME HeadInv, [HeadNext]_head_vars PROVE HeadInv'
  OBVIOUS
<1>0. request.text \in Seq(STRING) /\ Len(request.text) \in Nat
  BY HeadsAssumption DEF HeadInv
<1>1. CASE Receive
  <2>1. arrived' \in 0..Len(request.text) /\ last_headers_len \in 0..arrived'
    BY <1>0, <1>1 DEF Receive, HeadInv
  <2> QED BY <1>1, <2>1 DEF Receive, HeadInv, Whole
<1>2. CASE HeadComplete
  <2>1. ParsedHead = Whole /\ Whole.ret > 0
    BY <1>2, ParsedIsWhole DEF HeadComplete
  <2>2. Whole' = Whole
    BY <1>2 DEF HeadComplete, Whole
  <2> QED BY <1>2, <2>1, <2>2 DEF HeadComplete, HeadInv
<1>3. CASE HeadIncomplete
  <2>1. TwoLineEnds(Arrived, 1) = incomplete
    BY <1>3, ParsedIsWhole DEF HeadIncomplete
  <2>2. SubSeq(request'.text, 1, last_headers_len') = Arrived
    BY <1>3 DEF HeadIncomplete, Arrived
  <2>3. last_headers_len' \in 0..arrived'
    BY <1>3 DEF HeadIncomplete, HeadInv
  <2> QED BY <1>3, <2>1, <2>2, <2>3 DEF HeadIncomplete, HeadInv
<1>4. CASE HeadInvalid
  <2>1. Whole.ret = invalid
    BY <1>4, ParsedIsWhole DEF HeadInvalid
  <2>2. Whole' = Whole
    BY <1>4 DEF HeadInvalid, Whole
  <2> QED BY <1>4, <2>1, <2>2 DEF HeadInvalid, HeadInv
<1>5. CASE ProcessHeaders
  <2>1. Whole' = Whole
    BY <1>5 DEF ProcessHeaders, Whole
  <2> QED BY <1>5, <2>1 DEF ProcessHeaders, HeadInv
<1>6. CASE UNCHANGED head_vars
  BY <1>6 DEF head_vars, HeadInv, Whole
<1> QED BY <1>1, <1>2, <1>3, <1>4, <1>5, <1>6 DEF HeadNext, HeadRoutine

-----------------------------------------------------------------------------
(* What stands in a text *)

Char == STRING \cup {SP, "CR", "LF", ":", "HTTP/1.", "1"}

\* The text w stands in s from p on.
At(s, p, w) == /\ p \in Nat \ {0} /\ p + Len(w) <= Len(s) + 1
               /\ \A j \in 1..Len(w) : s[p + j - 1] = w[j]

LEMMA AtConcat ==
  ASSUME NEW s, NEW p, NEW u \in Seq(Char), NEW w \in Seq(Char), Len(s) \in Nat,
         At(s, p, u \o w)
  PROVE  At(s, p, u) /\ At(s, p + Len(u), w)
<1> DEFINE v == u \o w
<1>1. /\ Len(v) = Len(u) + Len(w) /\ Len(u) \in Nat /\ Len(w) \in Nat
      /\ \A i \in 1..(Len(u) + Len(w)) : v[i] = IF i <= Len(u) THEN u[i] ELSE w[i - Len(u)]
  BY ConcatProperties, LenProperties
<1>2. p \in Nat \ {0} /\ p + Len(v) <= Len(s) + 1 /\ \A j \in 1..Len(v) : s[p + j - 1] = v[j]
  BY DEF At
<1> HIDE DEF v
<1>3. ASSUME NEW j \in 1..Len(u) PROVE s[p + j - 1] = u[j]
  <2>1. j \in 1..Len(v) /\ j \in 1..(Len(u) + Len(w)) /\ j <= Len(u)
    BY <1>1
  <2> QED BY <1>1, <1>2, <2>1
<1>4. ASSUME NEW j \in 1..Len(w) PROVE s[(p + Len(u)) + j - 1] = w[j]
  <2> DEFINE i == Len(u) + j
  <2>1. /\ i \in 1..Len(v) /\ i \in 1..(Len(u) + Len(w)) /\ ~(i <= Len(u)) /\ i - Len(u) = j
        /\ p + i - 1 = (p + Len(u)) + j - 1
    BY <1>1, <1>2
  <2> HIDE DEF i
  <2>2. s[p + i - 1] = v[i] /\ v[i] = w[i - Len(u)]
    BY <1>1, <1>2, <2>1
  <2> QED BY <2>1, <2>2
<1>5. p + Len(u) <= Len(s) + 1 /\ p + Len(u) \in Nat \ {0} /\ (p + Len(u)) + Len(w) <= Len(s) + 1
  BY <1>1, <1>2
<1> QED BY <1>2, <1>3, <1>4, <1>5 DEF At

LEMMA PieceIs ==
  ASSUME NEW s, NEW p, NEW w \in Seq(Char), Len(s) \in Nat, At(s, p, w)
  PROVE  SubSeq(s, p, p + Len(w) - 1) = w
<1> DEFINE q == p + Len(w) - 1
           u == SubSeq(s, p, q)
<1>1. p \in Nat \ {0} /\ Len(w) \in Nat /\ \A j \in 1..Len(w) : s[p + j - 1] = w[j] /\ w[j] \in Char
  BY DEF At
<1>2. \A i \in p..q : s[i] \in Char
  <2> SUFFICES ASSUME NEW i \in p..q PROVE s[i] \in Char
    OBVIOUS
  <2> DEFINE j == i - p + 1
  <2>1. j \in 1..Len(w) /\ p + j - 1 = i
    BY <1>1
  <2> HIDE DEF j
  <2> QED BY <1>1, <2>1
<1>3. p \in Int /\ q \in Int /\ (IF p <= q THEN q - p + 1 ELSE 0) = Len(w) /\ q - p + 1 = Len(w)
  BY <1>1
<1>4. /\ u \in Seq(Char) /\ Len(u) = IF p <= q THEN q - p + 1 ELSE 0
      /\ \A i \in 1..(q - p + 1) : u[i] = s[p + i - 1]
  <2> HIDE DEF q
  <2> QED BY <1>2, <1>3, SubSeqProperties
<1> HIDE DEF u, q
<1>5. Len(u) = Len(w) /\ \A i \in 1..Len(u) : u[i] = w[i]
  BY <1>1, <1>3, <1>4
<1>6. u = w
  BY <1>4, <1>5, SeqEqual
<1> QED BY <1>6 DEF u, q

\* The line ends.
IsEnd(end) == end \in {<<"CR", "LF">>, <<"LF">>}

LEMMA EndText ==
  ASSUME NEW end, IsEnd(end)
  PROVE  end \in Seq(Char) /\ Len(end) \in {1, 2}
<1>1. "CR" \in Char /\ "LF" \in Char
  BY DEF Char
<1>2. CASE end = <<"LF">>
  BY <1>1, <1>2
<1>3. CASE end = <<"CR", "LF">>
  BY <1>1, <1>3
<1> QED BY <1>2, <1>3 DEF IsEnd

LEMMA EndIs ==
  ASSUME NEW s, NEW p, NEW end, IsEnd(end), Len(s) \in Nat, At(s, p, end)
  PROVE  /\ EndOfLine(s, p) = p + Len(end)
         /\ p \in 1..Len(s) /\ s[p] \in {"CR", "LF"}
         /\ end \in Seq(Char) /\ Len(end) \in {1, 2}
<1>1. /\ p \in Nat \ {0} /\ p + Len(end) <= Len(s) + 1
      /\ \A j \in 1..Len(end) : s[p + j - 1] = end[j]
  BY DEF At
<1>2. CASE end = <<"LF">>
  <2>1. Len(end) = 1 /\ end[1] = "LF" /\ end \in Seq(Char)
    BY <1>2 DEF Char
  <2> HIDE <1>2
  <2>2. p \in 1..Len(s) /\ s[p] = "LF"
    <3>1. s[p + 1 - 1] = end[1] /\ p + 1 - 1 = p
      BY <1>1, <2>1
    <3> QED BY <1>1, <2>1, <3>1
  <2>3. EndOfLine(s, p) = p + 1
    BY <2>2 DEF EndOfLine
  <2> QED BY <2>1, <2>2, <2>3
<1>3. CASE end = <<"CR", "LF">>
  <2>1. Len(end) = 2 /\ end[1] = "CR" /\ end[2] = "LF" /\ end \in Seq(Char)
    BY <1>3 DEF Char
  <2> HIDE <1>3
  <2>2. p \in 1..Len(s) /\ p < Len(s) /\ s[p] = "CR" /\ s[p + 1] = "LF"
    <3>1. /\ s[p + 1 - 1] = end[1] /\ p + 1 - 1 = p
          /\ s[p + 2 - 1] = end[2] /\ p + 2 - 1 = p + 1
      BY <1>1, <2>1
    <3> QED BY <1>1, <2>1, <3>1
  <2>3. EndOfLine(s, p) = p + 2
    BY <2>2 DEF EndOfLine
  <2> QED BY <2>1, <2>2, <2>3
<1> QED BY <1>2, <1>3 DEF IsEnd

\* None of the characters of a text is among these.
Without(w, chars) == \A j \in DOMAIN w : w[j] \notin chars

LEMMA FindBehind ==
  ASSUME NEW s, NEW p, NEW w \in Seq(Char), NEW chars, Len(s) \in Nat, At(s, p, w),
         Without(w, chars), p + Len(w) <= Len(s), s[p + Len(w)] \in chars
  PROVE  Find(s, p, chars) = p + Len(w)
<1> DEFINE q == p + Len(w)
<1>1. p \in Nat \ {0} /\ Len(w) \in Nat /\ \A j \in 1..Len(w) : s[p + j - 1] = w[j] /\ w[j] \notin chars
  BY DEF At, Without
<1>2. q \in p..Len(s) /\ s[q] \in chars
  BY <1>1
<1>3. ASSUME NEW m \in p..Len(s), m < q PROVE s[m] \notin chars
  <2> DEFINE j == m - p + 1
  <2>1. j \in 1..Len(w) /\ p + j - 1 = m
    BY <1>1, <1>3
  <2> HIDE DEF j
  <2> QED BY <1>1, <2>1
<1> HIDE DEF q
<1>4. Find(s, p, chars) = q
  BY <1>1, <1>2, <1>3, FindIs
<1> QED BY <1>4 DEF q

LEMMA TokenStands ==
  ASSUME NEW s, NEW p, NEW w \in Seq(Char), Len(s) \in Nat, At(s, p, w),
         Without(w, Control \cup {SP}), p + Len(w) <= Len(s), s[p + Len(w)] = SP
  PROVE  ADVANCE_TOKEN(s, p) = p + Len(w)
<1> DEFINE q == p + Len(w)
<1>1. Find(s, p, Control \cup {SP}) = q
  BY FindBehind
<1>2. ~(p < 0) /\ ~(q > Len(s))
  BY DEF At
<1> HIDE DEF q
<1>3. s[q] = SP
  BY DEF q
<1>4. ADVANCE_TOKEN(s, p) = q
  BY <1>1, <1>2, <1>3, Zenon DEF ADVANCE_TOKEN
<1> QED BY <1>4 DEF q

LEMMA Texts1 ==
  /\ \A w \in Seq(STRING) : w \in Seq(Char)
  /\ <<SP>> \in Seq(Char) /\ <<":", SP>> \in Seq(Char) /\ <<SP, "HTTP/1.", "1">> \in Seq(Char)
  /\ Len(<<SP>>) = 1 /\ Len(<<":", SP>>) = 2 /\ Len(<<SP, "HTTP/1.", "1">>) = 3
<1>1. STRING \subseteq Char /\ SP \in Char /\ ":" \in Char /\ "HTTP/1." \in Char /\ "1" \in Char
  BY DEF Char
<1>2. \A w \in Seq(STRING) : w \in Seq(Char)
  BY <1>1, SeqMonotonic
<1> QED BY <1>1, <1>2

LineText(f, end) == f.name \o <<":", SP>> \o f.value \o end

\* A field as a client writes it.
IsField(f) ==
  /\ f \in [name : Seq(STRING), value : Seq(STRING)]
  /\ f.name # <<>>
  /\ Without(f.name, Control \cup Blank \cup {":", "/"})
  /\ Without(f.value, Control)
  /\ f.value # <<>> => f.value[1] \notin Blank

LEMMA LineIsText ==
  ASSUME NEW f, IsField(f), NEW end, end \in Seq(Char)
  PROVE  LineText(f, end) \in Seq(Char)
<1>1. f.name \in Seq(Char) /\ f.value \in Seq(Char) /\ <<":", SP>> \in Seq(Char)
  BY Texts1 DEF IsField
<1> QED BY <1>1, ConcatProperties DEF LineText

PlainField(s, p) == Field(s, p, FALSE)

LEMMA FieldStands ==
  ASSUME NEW s, NEW p, NEW f, IsField(f), NEW end, IsEnd(end), end \in Seq(Char),
         Len(s) \in Nat, At(s, p, LineText(f, end))
  PROVE  /\ LineText(f, end) \in Seq(Char)
         /\ p \in 1..Len(s) /\ s[p] \notin {"CR", "LF"} \cup Blank
         /\ PlainField(s, p).name = f.name /\ PlainField(s, p).value = f.value
         /\ PlainField(s, p).next = p + Len(LineText(f, end))
<1> DEFINE a == f.name
           mid == <<":", SP>>
           v == f.value
           c == p + Len(a)
           from == c + 2
           e == from + Len(v)
<1>1. a \in Seq(Char) /\ mid \in Seq(Char) /\ v \in Seq(Char) /\ Len(mid) = 2 /\ mid[1] = ":" /\ mid[2] = SP
  BY Texts1 DEF IsField
<1>2. /\ a \o mid \in Seq(Char) /\ (a \o mid) \o v \in Seq(Char)
      /\ ((a \o mid) \o v) \o end \in Seq(Char)
      /\ Len(a \o mid) = Len(a) + 2 /\ Len((a \o mid) \o v) = Len(a) + 2 + Len(v)
      /\ Len(((a \o mid) \o v) \o end) = Len(a) + 2 + Len(v) + Len(end)
      /\ Len(a) \in Nat /\ Len(v) \in Nat /\ Len(end) \in Nat
  BY <1>1, ConcatProperties, LenProperties
<1>3. LineText(f, end) = ((a \o mid) \o v) \o end
  BY DEF LineText
<1>4. p \in Nat \ {0}
  BY DEF At
<1> HIDE DEF a, mid, v
<1>5. At(s, p, (a \o mid) \o v) /\ At(s, p + (Len(a) + 2 + Len(v)), end)
  <2>1. At(s, p, ((a \o mid) \o v) \o end)
    BY <1>3
  <2>2. At(s, p, (a \o mid) \o v) /\ At(s, p + Len((a \o mid) \o v), end)
    <3> DEFINE u == (a \o mid) \o v
    <3>1. u \in Seq(Char) /\ At(s, p, u \o end)
      BY <1>2, <2>1
    <3> HIDE DEF u
    <3>2. At(s, p, u) /\ At(s, p + Len(u), end)
      BY <3>1, AtConcat
    <3> QED BY <3>2 DEF u
  <2> QED BY <1>2, <2>2
<1>6. At(s, p, a \o mid) /\ At(s, p + (Len(a) + 2), v)
  BY <1>1, <1>2, <1>5, AtConcat
<1>7. At(s, p, a) /\ At(s, c, mid)
  BY <1>1, <1>2, <1>6, AtConcat
<1>8. c \in Nat \ {0} /\ from = p + (Len(a) + 2) /\ e = p + (Len(a) + 2 + Len(v)) /\ from \in Nat \ {0}
  BY <1>2, <1>4
<1>9. At(s, from, v) /\ At(s, e, end)
  BY <1>5, <1>6, <1>8
<1>10. EndOfLine(s, e) = e + Len(end) /\ e \in 1..Len(s) /\ s[e] \in {"CR", "LF"}
  BY <1>9, EndIs
<1>11. /\ c \in 1..Len(s) /\ s[c] = ":" /\ c + 1 <= Len(s) /\ s[c + 1] = SP
  <2>1. c + 2 <= Len(s) + 1 /\ \A j \in 1..2 : s[c + j - 1] = mid[j]
    BY <1>1, <1>7 DEF At
  <2>2. s[c + 1 - 1] = mid[1] /\ s[c + 2 - 1] = mid[2] /\ c + 1 - 1 = c /\ c + 2 - 1 = c + 1
    BY <1>8, <2>1
  <2> HIDE DEF c
  <2> QED BY <1>1, <1>8, <2>1, <2>2
<1>12. Len(a) > 0 /\ a[1] \notin Control \cup Blank \cup {":", "/"} /\ s[p] = a[1]
  <2>1. Len(a) > 0
    BY <1>1, <1>2 DEF IsField, a
  <2>2. 1 \in DOMAIN a
    BY <1>1, <2>1
  <2>3. a[1] \notin Control \cup Blank \cup {":", "/"}
    BY <2>2 DEF IsField, Without, a
  <2>4. s[p + 1 - 1] = a[1] /\ p + 1 - 1 = p
    BY <1>2, <1>4, <1>7, <2>1 DEF At
  <2> QED BY <2>1, <2>3, <2>4
<1> HIDE DEF c, from, e
<1>13. Colon(s, p) = c
  <2>1. Without(a, {":", "/"} \cup Blank \cup Control)
    BY DEF IsField, Without, a
  <2>2. Find(s, p, {":", "/"} \cup Blank \cup Control) = p + Len(a)
    <3>1. p + Len(a) <= Len(s) /\ s[p + Len(a)] \in {":", "/"} \cup Blank \cup Control
      BY <1>8, <1>11 DEF c
    <3> QED BY <1>1, <1>7, <2>1, <3>1, FindBehind
  <2> QED BY <2>2 DEF Colon, c
<1>14. from \in (c + 1)..Len(s) /\ s[from] \notin Blank
  <2>1. from \in (c + 1)..Len(s)
    BY <1>2, <1>8, <1>10, <1>11 DEF from, e
  <2>2. CASE Len(v) = 0
    <3>1. from = e
      BY <1>8, <2>2 DEF e
    <3>2. "CR" \notin Blank /\ "LF" \notin Blank
      BY Characters
    <3> QED BY <1>10, <2>1, <3>1, <3>2
  <2>3. CASE Len(v) # 0
    <3>1. s[from + 1 - 1] = v[1] /\ from + 1 - 1 = from
      <4>1. \A j \in 1..Len(v) : s[from + j - 1] = v[j]
        BY <1>9 DEF At
      <4>2. 1 \in 1..Len(v)
        BY <1>2, <2>3
      <4> QED BY <1>8, <4>1, <4>2
    <3>2. v # <<>>
      BY <2>3
    <3>3. v[1] \notin Blank
      BY <3>2 DEF IsField, v
    <3> QED BY <2>1, <3>1, <3>3
  <2> QED BY <2>2, <2>3
<1>15. ValueFrom(s, p, FALSE) = from
  <2>1. \A m \in (c + 1)..Len(s) : m < from => s[m] \in Blank
    <3> SUFFICES ASSUME NEW m \in (c + 1)..Len(s), m < from PROVE s[m] \in Blank
      OBVIOUS
    <3>1. m = c + 1
      BY <1>8, <1>11 DEF from
    <3> QED BY <1>11, <3>1 DEF Blank
  <2>2. c + 1 \in Nat \ {0}
    BY <1>8
  <2>3. FindOther(s, c + 1, Blank) = from
    BY <1>14, <2>1, <2>2, FindOtherIs
  <2> QED BY <1>13, <2>3 DEF ValueFrom
<1>16. ValueEnd(s, p, FALSE) = e
  <2>1. Without(v, Control) /\ s[e] \in Control
    BY <1>10, Characters DEF IsField, v
  <2>2. e = from + Len(v) /\ e <= Len(s)
    BY <1>10 DEF e
  <2>3. Find(s, from, Control) = e
    BY <1>1, <1>9, <2>1, <2>2, FindBehind
  <2> QED BY <1>15, <2>3 DEF ValueEnd
<1>17. p \in 1..Len(s) /\ c # p /\ c <= Len(s)
  BY <1>2, <1>4, <1>11, <1>12 DEF c
<1>18. PlainField(s, p) =
         [name |-> SubSeq(s, p, c - 1), value |-> SubSeq(s, from, e - 1), next |-> EndOfLine(s, e)]
  <2>1. /\ Field(s, p, FALSE) =
             [name |-> SubSeq(s, p, Colon(s, p) - 1),
              value |-> SubSeq(s, ValueFrom(s, p, FALSE), ValueEnd(s, p, FALSE) - 1),
              next  |-> IF Colon(s, p) > Len(s) THEN incomplete
                        ELSE IF s[Colon(s, p)] # ":" \/ Colon(s, p) = p THEN invalid
                        ELSE EndOfLine(s, ValueEnd(s, p, FALSE))]
    BY <1>4, FieldParts
  <2>2. ~(c > Len(s)) /\ ~(s[c] # ":" \/ c = p)
    BY <1>8, <1>11, <1>17
  <2> QED BY <1>13, <1>15, <1>16, <2>1, <2>2 DEF PlainField
<1>19. SubSeq(s, p, c - 1) = a
  <2>1. SubSeq(s, p, p + Len(a) - 1) = a
    BY <1>1, <1>7, PieceIs
  <2>2. c - 1 = p + Len(a) - 1
    BY <1>2, <1>4, <1>8 DEF c
  <2> QED BY <2>1, <2>2, Zenon
<1>20. SubSeq(s, from, e - 1) = v
  <2>1. SubSeq(s, from, from + Len(v) - 1) = v
    BY <1>1, <1>9, PieceIs
  <2>2. e - 1 = from + Len(v) - 1
    BY <1>2, <1>8, <1>10 DEF e
  <2> QED BY <2>1, <2>2, Zenon
<1>21. e + Len(end) = p + Len(LineText(f, end)) /\ LineText(f, end) \in Seq(Char)
  <2>1. LineText(f, end) \in Seq(Char) /\ Len(LineText(f, end)) = Len(a) + 2 + Len(v) + Len(end)
    BY <1>2, <1>3
  <2> QED BY <1>2, <1>4, <1>8, <2>1
<1>22. s[p] \notin {"CR", "LF"} \cup Blank
  BY <1>12, Characters
<1>23. /\ PlainField(s, p).name = a /\ PlainField(s, p).value = v
       /\ PlainField(s, p).next = p + Len(LineText(f, end))
  <2> DEFINE x == SubSeq(s, p, c - 1)
             y == SubSeq(s, from, e - 1)
             n == EndOfLine(s, e)
             all == PlainField(s, p)
  <2>1. all = [name |-> x, value |-> y, next |-> n]
    BY <1>18
  <2>2. x = a /\ y = v /\ n = p + Len(LineText(f, end))
    BY <1>10, <1>19, <1>20, <1>21, Zenon
  <2> HIDE DEF x, y, n, all
  <2>3. all.name = x /\ all.value = y /\ all.next = n
    BY <2>1
  <2> QED BY <2>2, <2>3, Zenon DEF all
<1> QED BY <1>17, <1>21, <1>22, <1>23 DEF a, v

-----------------------------------------------------------------------------
(* Lines, one after the other *)

Flattens(g, n, lines) ==
  g = [i \in 1..n |-> IF i = 1 THEN lines[i] ELSE g[i - 1] \o lines[i]]

LEMMA FlattenSeqIs ==
  ASSUME NEW lines, Len(lines) \in Nat \ {0}
  PROVE  \E g : Flattens(g, Len(lines), lines) /\ FlattenSeq(lines) = g[Len(lines)]
<1> DEFINE n == Len(lines)
           S == {k \in 1..n : \E g : Flattens(g, k, lines)}
           Whole1 == CHOOSE g : Flattens(g, n, lines)
<1>1. 1 \in S
  <2>1. Flattens([i \in 1..1 |-> lines[1]], 1, lines)
    BY DEF Flattens
  <2> QED BY <2>1
<1>2. ASSUME NEW k \in 1..(n - 1), k \in S PROVE k + 1 \in S
  <2>1. PICK g : Flattens(g, k, lines)
    BY <1>2
  <2> DEFINE h == [i \in 1..(k + 1) |-> IF i = k + 1 THEN g[k] \o lines[k + 1] ELSE g[i]]
  <2>2. ASSUME NEW i \in 1..(k + 1)
        PROVE  h[i] = IF i = 1 THEN lines[i] ELSE h[i - 1] \o lines[i]
    <3>1. CASE i = k + 1
      <4>1. i # 1 /\ i - 1 = k /\ k \in 1..(k + 1) /\ k # k + 1
        BY <3>1
      <4>2. h[i] = g[k] \o lines[k + 1] /\ h[k] = g[k]
        BY <3>1, <4>1
      <4> QED BY <3>1, <4>1, <4>2, Zenon
    <3>2. CASE i # k + 1
      <4>1. i \in 1..k /\ h[i] = g[i] /\ (i # 1 => h[i - 1] = g[i - 1])
        BY <3>2
      <4>2. g[i] = IF i = 1 THEN lines[i] ELSE g[i - 1] \o lines[i]
        BY <2>1, <4>1 DEF Flattens
      <4> QED BY <4>1, <4>2
    <3> QED BY <3>1, <3>2
  <2>3. Flattens(h, k + 1, lines)
    <3>1. h = [i \in 1..(k + 1) |-> h[i]]
      OBVIOUS
    <3>2. [i \in 1..(k + 1) |-> h[i]] =
            [i \in 1..(k + 1) |-> IF i = 1 THEN lines[i] ELSE h[i - 1] \o lines[i]]
      <4> HIDE DEF h
      <4> QED BY <2>2
    <3> HIDE DEF h
    <3> QED BY <3>1, <3>2 DEF Flattens
  <2>4. k + 1 \in 1..n
    OBVIOUS
  <2> QED BY <2>3, <2>4
<1>3. n \in 1..n
  OBVIOUS
<1>4. n \in S
  <2> HIDE DEF S
  <2> QED BY <1>1, <1>2, <1>3, Induction
<1>5. \E g : Flattens(g, n, lines)
  BY <1>4
<1>6. Flattens(Whole1, n, lines)
  BY <1>5, Zenon
<1>7. FlattenSeq(lines) = Whole1[n]
  <2>1. Len(lines) # 0
    OBVIOUS
  <2> QED BY <2>1, Zenon DEF FlattenSeq, Flattens
<1> QED BY <1>6, <1>7, Zenon

LEMMA FlattensIs ==
  ASSUME NEW lines \in Seq(Seq(Char)), NEW n \in Nat \ {0}, n = Len(lines),
         NEW g, Flattens(g, n, lines)
  PROVE  /\ g[1] = lines[1]
         /\ \A k \in 1..(n - 1) : g[k + 1] = g[k] \o lines[k + 1]
         /\ \A k \in 1..n : g[k] \in Seq(Char)
<1>1. /\ g[1] = lines[1]
      /\ \A k \in 1..(n - 1) : g[k + 1] = g[k] \o lines[k + 1]
  <2>1. \A i \in 1..n : g[i] = IF i = 1 THEN lines[i] ELSE g[i - 1] \o lines[i]
    BY DEF Flattens
  <2>2. \A k \in 1..(n - 1) : k + 1 \in 1..n /\ k + 1 # 1 /\ (k + 1) - 1 = k
    OBVIOUS
  <2>3. 1 \in 1..n
    OBVIOUS
  <2> QED BY <2>1, <2>2, <2>3
<1>2. \A k \in 1..n : lines[k] \in Seq(Char)
  OBVIOUS
<1> DEFINE S == {k \in 1..n : g[k] \in Seq(Char)}
<1>3. 1 \in S
  BY <1>1, <1>2
<1>4. ASSUME NEW k \in 1..(n - 1), k \in S PROVE k + 1 \in S
  <2>1. k + 1 \in 1..n /\ g[k] \in Seq(Char) /\ lines[k + 1] \in Seq(Char)
    BY <1>2, <1>4
  <2>2. g[k + 1] \in Seq(Char)
    BY ZenonT(60), <1>1, <2>1, ConcatProperties
  <2> QED BY <2>1, <2>2
<1>5. 1..n \subseteq S
  <2> HIDE DEF S
  <2> QED BY <1>3, <1>4, Induction
<1> QED BY <1>1, <1>5

LEMMA FlattenText ==
  ASSUME NEW lines \in Seq(Seq(Char))
  PROVE  FlattenSeq(lines) \in Seq(Char)
<1>1. CASE Len(lines) = 0
  <2>1. lines = <<>> /\ FlattenSeq(lines) = lines
    BY <1>1 DEF FlattenSeq
  <2>2. <<>> \in Seq(Char)
    OBVIOUS
  <2> QED BY <2>1, <2>2, Zenon
<1>2. CASE Len(lines) # 0
  <2> DEFINE n == Len(lines)
  <2>1. n \in Nat \ {0} /\ n \in 1..n
    BY <1>2
  <2>2. PICK g : Flattens(g, n, lines) /\ FlattenSeq(lines) = g[n]
    BY <2>1, FlattenSeqIs
  <2>3. n = Len(lines)
    OBVIOUS
  <2> HIDE DEF n
  <2>4. \A k \in 1..n : g[k] \in Seq(Char)
    BY <2>1, <2>2, <2>3, FlattensIs
  <2> QED BY <2>1, <2>2, <2>4
<1> QED BY <1>1, <1>2

\* Where each of some lines is that stand in a text.
ArePlaces(P, s, p, lines) ==
  /\ P \in [0..Len(lines) -> Nat]
  /\ P[0] = p /\ P[Len(lines)] = p + Len(FlattenSeq(lines))
  /\ \A k \in 0..(Len(lines) - 1) :
       At(s, P[k], lines[k + 1]) /\ P[k + 1] = P[k] + Len(lines[k + 1])

LEMMA LinesStand ==
  ASSUME NEW s, Len(s) \in Nat, NEW p \in 1..(Len(s) + 1), NEW lines \in Seq(Seq(Char)),
         At(s, p, FlattenSeq(lines))
  PROVE  \E P : ArePlaces(P, s, p, lines)
<1> DEFINE n == Len(lines)
<1>1. CASE n = 0
  <2>1. lines = <<>> /\ Len(FlattenSeq(lines)) = 0
    <3>1. lines = <<>>
      BY <1>1
    <3>2. FlattenSeq(lines) = lines
      BY <1>1 DEF FlattenSeq
    <3> QED BY <3>1, <3>2
  <2> DEFINE P == [k \in 0..0 |-> p]
  <2>2. P \in [0..n -> Nat] /\ P[0] = p /\ P[n] = p + Len(FlattenSeq(lines))
    BY <1>1, <2>1
  <2>3. \A k \in 0..(n - 1) : FALSE
    BY <1>1
  <2> HIDE DEF P
  <2>4. ArePlaces(P, s, p, lines)
    BY <1>1, <2>2, <2>3 DEF ArePlaces
  <2> QED BY <2>4
<1>2. CASE n # 0
  <2>1. n \in Nat \ {0}
    BY <1>2
  <2>2. PICK g : Flattens(g, n, lines) /\ FlattenSeq(lines) = g[n]
    BY <2>1, FlattenSeqIs
  <2>3. /\ g[1] = lines[1]
        /\ \A k \in 1..(n - 1) : g[k + 1] = g[k] \o lines[k + 1]
        /\ \A k \in 1..n : g[k] \in Seq(Char)
    BY <2>1, <2>2, FlattensIs
  <2>4. \A k \in 1..n : lines[k] \in Seq(Char)
    OBVIOUS
  <2>5. \A k \in 1..n : g[k] \in Seq(Char)
    BY <2>3
  <2> HIDE DEF n
  <2>6. \A k \in 1..n : At(s, p, g[k])
    <3> DEFINE S == {j \in 0..(n - 1) : At(s, p, g[n - j])}
    <3>1. 0 \in S
      <4>1. n - 0 = n /\ 0 \in 0..(n - 1)
        BY <2>1
      <4> QED BY <2>2, <4>1
    <3>2. ASSUME NEW j \in 0..((n - 1) - 1), j \in S PROVE j + 1 \in S
      <4> DEFINE k == n - (j + 1)
      <4>1. k \in 1..(n - 1) /\ k \in 1..n /\ k + 1 \in 1..n /\ n - j = k + 1 /\ j + 1 \in 0..(n - 1)
        BY <2>1
      <4> HIDE DEF k
      <4>2. At(s, p, g[k] \o lines[k + 1])
        BY <2>3, <3>2, <4>1
      <4>3. At(s, p, g[k])
        BY <2>4, <2>5, <4>1, <4>2, AtConcat
      <4> QED BY <4>1, <4>3 DEF k
    <3>3. 0..(n - 1) \subseteq S
      <4>1. 0 \in Nat /\ n - 1 \in Nat
        BY <2>1
      <4> HIDE DEF S
      <4> QED BY <3>1, <3>2, <4>1, Induction
    <3> SUFFICES ASSUME NEW k \in 1..n PROVE At(s, p, g[k])
      OBVIOUS
    <3>4. n - k \in 0..(n - 1) /\ n - (n - k) = k
      BY <2>1
    <3> QED BY <3>3, <3>4
  <2> DEFINE P == [k \in 0..n |-> IF k = 0 THEN p ELSE p + Len(g[k])]
  <2>7. P \in [0..n -> Nat] /\ P[0] = p /\ P[n] = p + Len(FlattenSeq(lines))
    <3>1. \A k \in 1..n : Len(g[k]) \in Nat
      BY <2>5, LenProperties
    <3> QED BY <2>1, <2>2, <3>1
  <2>8. ASSUME NEW k \in 0..(n - 1)
        PROVE  At(s, P[k], lines[k + 1]) /\ P[k + 1] = P[k] + Len(lines[k + 1])
    <3>1. CASE k = 0
      <4>1. k + 1 = 1 /\ 1 \in 1..n /\ 1 \in 0..n
        BY <2>1, <3>1
      <4>2. P[0] = p /\ P[1] = p + Len(g[1])
        <5> DEFINE len == p + Len(g[1])
        <5>1. P[1] = IF 1 = 0 THEN p ELSE len
          BY <4>1
        <5> HIDE DEF len, P
        <5>2. P[1] = len
          BY <5>1
        <5> QED BY <2>7, <5>2 DEF len
      <4> HIDE DEF P
      <4>3. At(s, p, lines[1])
        BY <2>3, <2>6, <4>1
      <4> QED BY <2>3, <3>1, <4>1, <4>2, <4>3, Zenon
    <3>2. CASE k # 0
      <4>1. k \in 1..(n - 1) /\ k \in 1..n /\ k + 1 \in 1..n /\ k \in 0..n /\ k + 1 \in 0..n
        BY <2>1, <3>2
      <4>2. At(s, p, g[k] \o lines[k + 1]) /\ g[k] \in Seq(Char) /\ lines[k + 1] \in Seq(Char)
        <5>1. At(s, p, g[k + 1]) /\ g[k + 1] = g[k] \o lines[k + 1]
          BY <2>3, <2>6, <4>1
        <5> QED BY <2>4, <2>5, <4>1, <5>1
      <4>3. At(s, p + Len(g[k]), lines[k + 1])
        BY <4>2, AtConcat
      <4>4. g[k + 1] = g[k] \o lines[k + 1]
        BY <2>3, <4>1
      <4>5. Len(g[k + 1]) = Len(g[k]) + Len(lines[k + 1]) /\ Len(g[k]) \in Nat /\ Len(lines[k + 1]) \in Nat
        BY <4>2, <4>4, ConcatProperties, LenProperties
      <4>6. P[k] = p + Len(g[k]) /\ P[k + 1] = p + Len(g[k + 1])
        BY <4>1
      <4> HIDE DEF P
      <4>7. P[k + 1] = P[k] + Len(lines[k + 1])
        <5> DEFINE a == Len(g[k])
                   b == Len(lines[k + 1])
                   c == Len(g[k + 1])
        <5>1. c = a + b /\ a \in Nat /\ b \in Nat /\ P[k] = p + a /\ P[k + 1] = p + c /\ p \in Nat
          BY <4>5, <4>6
        <5> HIDE DEF a, b, c
        <5>2. P[k + 1] = P[k] + b
          BY <5>1
        <5> QED BY <5>2 DEF b
      <4> QED BY <4>3, <4>6, <4>7, Zenon
    <3> QED BY <3>1, <3>2
  <2> HIDE DEF P
  <2>9. ArePlaces(P, s, p, lines)
    BY <2>7, <2>8 DEF n, ArePlaces
  <2> QED BY <2>9
<1> QED BY <1>1, <1>2

-----------------------------------------------------------------------------
(* A head as a client writes it *)

FieldRecord == [name : Seq(STRING), value : Seq(STRING)]

LinesOf(fields, end) == [j \in DOMAIN fields |-> LineText(fields[j], end)]

\* All fields are read, and the blank line behind them.
HeadersAt(s, p, fields, end, max) ==
  /\ Len(s) \in Nat /\ p \in 1..(Len(s) + 1)
  /\ fields \in Seq(FieldRecord) /\ \A j \in 1..Len(fields) : IsField(fields[j])
  /\ IsEnd(end) /\ end \in Seq(Char) /\ max \in Nat /\ Len(fields) <= max
  /\ LinesOf(fields, end) \in Seq(Seq(Char))
  /\ At(s, p, FlattenSeq(LinesOf(fields, end)))
  /\ At(s, p + Len(FlattenSeq(LinesOf(fields, end))), end)

LEMMA HeadersStand ==
  ASSUME NEW s, NEW p, NEW fields, NEW end, NEW max, HeadersAt(s, p, fields, end, max)
  PROVE  parse_headers(s, p, max) =
           [ret |-> p + Len(FlattenSeq(LinesOf(fields, end))) + Len(end), fields |-> fields]
<1> USE DEF HeadersAt
<1> DEFINE lines == LinesOf(fields, end)
           n == Len(fields)
           g == FieldsFrom(s, p, max)
           stop == p + Len(FlattenSeq(lines))
<1>1. n \in Nat /\ n <= max /\ lines \in Seq(Seq(Char)) /\ p \in Place(s)
  BY DEF Place
<1>2. Len(lines) = n /\ \A j \in 1..n : lines[j] = LineText(fields[j], end)
  <2>1. lines = [j \in 1..n |-> LineText(fields[j], end)]
    BY DEF LinesOf
  <2>2. Len(lines) = n
    <3>1. DOMAIN lines = 1..Len(lines) /\ Len(lines) \in Nat
      <4> HIDE DEF lines
      <4> QED BY <1>1, LenProperties
    <3>2. DOMAIN lines = 1..n
      BY <2>1
    <3> HIDE DEF lines
    <3> QED BY <1>1, <3>1, <3>2
  <2>3. ASSUME NEW j \in 1..n PROVE lines[j] = LineText(fields[j], end)
    BY <2>1, Zenon
  <2> QED BY <2>2, <2>3
<1> HIDE DEF lines
<1>3. PICK P : ArePlaces(P, s, p, lines)
  <2>1. At(s, p, FlattenSeq(lines)) /\ lines \in Seq(Seq(Char))
    BY <1>1 DEF lines
  <2> QED BY <2>1, LinesStand
<1>14. /\ P \in [0..n -> Nat] /\ P[0] = p /\ P[n] = stop
       /\ \A k \in 0..(n - 1) :
            At(s, P[k], lines[k + 1]) /\ P[k + 1] = P[k] + Len(lines[k + 1])
  <2>1. Len(lines) = n
    BY <1>2
  <2> HIDE DEF n
  <2> QED BY <1>3, <2>1 DEF ArePlaces
<1>4. /\ g[0] = [next |-> p, fields |-> <<>>]
      /\ \A k \in 0..(max - 1) : g[k + 1] = NextField(s, g[k])
  BY FieldsFromIs
<1>5. At(s, stop, end)
  BY DEF lines
<1>6. EndOfLine(s, stop) = stop + Len(end) /\ stop \in 1..Len(s) /\ s[stop] \in {"CR", "LF"}
  BY <1>5, EndIs
<1> HIDE DEF g, n, stop
<1>7. \A k \in 0..n : g[k] = [next |-> P[k], fields |-> SubSeq(fields, 1, k)]
  <2> DEFINE S == {k \in 0..n : g[k] = [next |-> P[k], fields |-> SubSeq(fields, 1, k)]}
  <2>1. 0 \in S
    <3>1. SubSeq(fields, 1, 0) = <<>>
      BY SubSeqEmpty
    <3> QED BY <1>1, <1>14, <1>4, <3>1
  <2>2. ASSUME NEW k \in 0..(n - 1), k \in S PROVE k + 1 \in S
    <3> DEFINE h == g[k]
               f == fields[k + 1]
               read == SubSeq(fields, 1, k)
               q == P[k]
    <3>1. /\ k \in 0..(max - 1) /\ k \in 0..n /\ k + 1 \in 0..n /\ k + 1 \in 1..n
          /\ h = [next |-> q, fields |-> read] /\ IsField(f)
      <4>1. /\ k \in 0..(max - 1) /\ k \in 0..n /\ k + 1 \in 0..n /\ k + 1 \in 1..n
        BY <1>1
      <4>2. h = [next |-> q, fields |-> read]
        BY <2>2
      <4>3. IsField(f)
        BY <4>1 DEF n
      <4> QED BY <4>1, <4>2, <4>3
    <3>2. At(s, q, LineText(f, end)) /\ P[k + 1] = q + Len(LineText(f, end)) /\ q \in Nat
      BY <1>2, <1>14, <3>1
    <3> HIDE DEF h, f, q
    <3> DEFINE all == PlainField(s, q)
    <3>3. /\ q \in 1..Len(s) /\ s[q] \notin {"CR", "LF"} \cup Blank
          /\ all.name = f.name /\ all.value = f.value
          /\ all.next = q + Len(LineText(f, end))
          /\ LineText(f, end) \in Seq(Char)
      <4>1. IsField(f) /\ At(s, q, LineText(f, end))
        BY <3>1, <3>2
      <4> QED BY <4>1, FieldStands
    <3>4. (h.fields # <<>> /\ s[h.next] \in Blank) = FALSE
      BY <3>1, <3>3
    <3>5. ~(h.next < 0 \/ h.next > Len(s) \/ s[h.next] \in {"CR", "LF"}) /\ h.next = q /\ h.fields = read
      <4>1. h.next = q /\ h.fields = read
        BY <3>1
      <4>2. ~(q < 0) /\ ~(q > Len(s)) /\ s[q] \notin {"CR", "LF"}
        BY <3>3
      <4> QED BY <4>1, <4>2
    <3>6. NextField(s, h) =
            [next   |-> all.next,
             fields |-> IF all.next < 0 THEN read
                        ELSE Append(read, [name |-> all.name, value |-> all.value])]
      BY <3>4, <3>5, Zenon DEF NextField, PlainField
    <3>7. ~(all.next < 0)
      <4>1. Len(LineText(f, end)) \in Nat
        BY <3>3, LenProperties
      <4> HIDE DEF all
      <4> QED BY <3>3, <4>1
    <3>8. [name |-> all.name, value |-> all.value] = f
      <4>1. f = [name |-> f.name, value |-> f.value]
        BY <3>1 DEF IsField
      <4> HIDE DEF all
      <4> QED BY <3>3, <4>1
    <3>9. Append(read, f) = SubSeq(fields, 1, k + 1)
      <4>1. /\ fields[k + 1] \in FieldRecord /\ k + 1 \in 1..Len(fields) /\ 1 \in 1..Len(fields)
            /\ (k + 1) - 1 = k
        BY <1>1, <3>1 DEF n
      <4>2. SubSeq(fields, 1, k + 1) = SubSeq(fields, 1, (k + 1) - 1) \o <<fields[k + 1]>>
        <5>1. k + 1 \in 1..Len(fields)
          BY <4>1
        <5> QED BY <4>1, <5>1, SubSeqRecursiveSecond
      <4>3. read \in Seq(FieldRecord)
        <5>1. \A i \in 1..k : fields[i] \in FieldRecord
          BY <4>1
        <5>2. 1 \in Int /\ k \in Int
          BY <3>1
        <5> QED BY <5>1, <5>2, SubSeqProperties
      <4> HIDE DEF read
      <4>4. Append(read, fields[k + 1]) = read \o <<fields[k + 1]>>
        BY <4>1, <4>3, AppendIsConcat
      <4> QED BY <4>1, <4>2, <4>4 DEF read, f
    <3> DEFINE to == all.next
    <3>10. to = P[k + 1]
      BY <3>2, <3>3
    <3>11. NextField(s, h) = [next |-> P[k + 1], fields |-> SubSeq(fields, 1, k + 1)]
      BY <3>6, <3>7, <3>8, <3>9, <3>10, Zenon
    <3> QED BY <1>4, <3>1, <3>11 DEF h
  <2>3. 0..n \subseteq S
    <3> HIDE DEF S
    <3> QED BY <1>1, <2>1, <2>2, Induction
  <2> QED BY <2>3
<1>8. \A k \in n..max : g[k] = [next |-> stop, fields |-> fields]
  <2> DEFINE S == {k \in n..max : g[k] = [next |-> stop, fields |-> fields]}
  <2>1. n \in S
    <3>1. SubSeq(fields, 1, n) = fields
      BY SubSeqFull DEF n
    <3>2. n \in 0..n /\ n \in n..max
      BY <1>1
    <3> QED BY <1>14, <1>7, <3>1, <3>2
  <2>2. ASSUME NEW k \in n..(max - 1), k \in S PROVE k + 1 \in S
    <3>1. k \in 0..(max - 1) /\ k + 1 \in n..max
      BY <1>1
    <3>2. g[k].next = stop /\ g[k] = [next |-> stop, fields |-> fields]
      BY <2>2
    <3>3. NextField(s, g[k]) = g[k]
      BY <1>6, <3>2, Zenon DEF NextField
    <3> QED BY <1>4, <3>1, <3>2, <3>3
  <2>3. n..max \subseteq S
    <3> HIDE DEF S
    <3> QED BY <1>1, <2>1, <2>2, Induction
  <2> QED BY <2>3
<1>9. g[max] = [next |-> stop, fields |-> fields]
  BY <1>1, <1>8
<1> DEFINE r == parse_headers(s, p, max)
<1>10. /\ r = [ret |-> r.ret, fields |-> g[max].fields]
       /\ r.ret = IF g[max].next < 0 THEN g[max].next
                  ELSE IF g[max].next > Len(s) THEN incomplete
                  ELSE IF s[g[max].next] \in {"CR", "LF"} THEN EndOfLine(s, g[max].next)
                  ELSE invalid
  BY <1>1, HeadersIs DEF g
<1> HIDE DEF r
<1>11. g[max].next = stop /\ g[max].fields = fields
  BY <1>9
<1>12. ~(stop < 0) /\ ~(stop > Len(s))
  BY <1>6
<1>13. r.ret = stop + Len(end)
  BY <1>6, <1>10, <1>11, <1>12, Zenon
<1> QED BY <1>10, <1>11, <1>13, Zenon DEF r, stop, lines

Version == <<SP, "HTTP/1.", "1">>

\* Where the pieces of a head are, by their lengths.
Laid(lm, lp, le, lf, a, b, c, d, e, f) ==
  /\ a = 1 + lm /\ b = a + 1 /\ c = b + lp /\ d = c + 3 /\ e = d + le /\ f = e + lf

Follow(a, b, c, d, e, f) ==
  /\ a \in Nat \ {0} /\ b \in Nat \ {0} /\ c \in Nat \ {0} /\ d \in Nat \ {0}
  /\ e \in Nat \ {0} /\ f \in Nat \ {0}
  /\ a <= b /\ b <= c /\ c < d /\ d <= e /\ e <= f

LEMMA Layout ==
  ASSUME NEW lm \in Nat, NEW lp \in Nat, NEW le \in Nat, NEW lf \in Nat,
         NEW a, NEW b, NEW c, NEW d, NEW e, NEW f, Laid(lm, lp, le, lf, a, b, c, d, e, f)
  PROVE  /\ Follow(a, b, c, d, e, f)
         /\ b = 1 + (lm + 1) /\ c = 1 + ((lm + 1) + lp) /\ d = 1 + (((lm + 1) + lp) + 3)
         /\ e = 1 + ((((lm + 1) + lp) + 3) + le) /\ f = 1 + (((((lm + 1) + lp) + 3) + le) + lf)
BY DEF Laid, Follow

\* The pieces of a head, one behind the other.
HeadOf(m, p, end, flat, body) ==
  m \o <<SP>> \o p \o Version \o end \o flat \o end \o body

Pieces(s, m, p, end, flat, body, a, b, c, d, e, f) ==
  /\ Len(s) + 1 = (f + Len(end)) + Len(body)
  /\ At(s, 1, m) /\ At(s, a, <<SP>>) /\ At(s, b, p) /\ At(s, c, Version)
  /\ At(s, d, end) /\ At(s, e, flat) /\ At(s, f, end)
  /\ Len(s) \in Nat

LEMMA PiecesStand ==
  ASSUME NEW m \in Seq(Char), NEW p \in Seq(Char), NEW end \in Seq(Char),
         NEW flat \in Seq(Char), NEW body \in Seq(Char), NEW s,
         s = HeadOf(m, p, end, flat, body),
         NEW a, NEW b, NEW c, NEW d, NEW e, NEW f,
         Laid(Len(m), Len(p), Len(end), Len(flat), a, b, c, d, e, f)
  PROVE  Pieces(s, m, p, end, flat, body, a, b, c, d, e, f)
<1> DEFINE sp == <<SP>>
           t1 == m \o sp
           t2 == t1 \o p
           t3 == t2 \o Version
           t4 == t3 \o end
           t5 == t4 \o flat
           t6 == t5 \o end
<1>1. sp \in Seq(Char) /\ Version \in Seq(Char) /\ Len(sp) = 1 /\ Len(Version) = 3
  BY Texts1 DEF Version
<1>2. /\ Len(m) \in Nat /\ Len(p) \in Nat /\ Len(end) \in Nat /\ Len(flat) \in Nat
      /\ Len(body) \in Nat
  BY LenProperties
<1>3. s = t6 \o body
  BY DEF HeadOf
<1> HIDE DEF sp
<1>4. t1 \in Seq(Char) /\ Len(t1) = Len(m) + Len(sp)
  BY <1>1, ConcatProperties
<1> HIDE DEF t1
<1>5. t2 \in Seq(Char) /\ Len(t2) = Len(t1) + Len(p)
  BY <1>4, ConcatProperties
<1> HIDE DEF t2
<1>6. t3 \in Seq(Char) /\ Len(t3) = Len(t2) + Len(Version)
  BY <1>1, <1>5, ConcatProperties
<1> HIDE DEF t3
<1>7. t4 \in Seq(Char) /\ Len(t4) = Len(t3) + Len(end)
  BY <1>6, ConcatProperties
<1> HIDE DEF t4
<1>8. t5 \in Seq(Char) /\ Len(t5) = Len(t4) + Len(flat)
  BY <1>7, ConcatProperties
<1> HIDE DEF t5
<1>9. t6 \in Seq(Char) /\ Len(t6) = Len(t5) + Len(end)
  BY <1>8, ConcatProperties
<1> HIDE DEF t6
<1>10. s \in Seq(Char) /\ Len(s) = Len(t6) + Len(body)
  BY <1>3, <1>9, ConcatProperties
<1>11. At(s, 1, t6 \o body)
  <2>1. At(s, 1, s)
    BY <1>10, LenProperties DEF At
  <2> QED BY <1>3, <2>1
<1>12. At(s, 1, t6) /\ Len(s) \in Nat
  BY <1>9, <1>10, <1>11, AtConcat, LenProperties
<1>13. At(s, 1, t5) /\ At(s, 1 + Len(t5), end)
  <2>1. At(s, 1, t5 \o end)
    BY <1>12 DEF t6
  <2> QED BY <1>8, <1>12, <2>1, AtConcat
<1>14. At(s, 1, t4) /\ At(s, 1 + Len(t4), flat)
  <2>1. At(s, 1, t4 \o flat)
    BY <1>13 DEF t5
  <2> QED BY <1>7, <1>12, <2>1, AtConcat
<1>15. At(s, 1, t3) /\ At(s, 1 + Len(t3), end)
  <2>1. At(s, 1, t3 \o end)
    BY <1>14 DEF t4
  <2> QED BY <1>6, <1>12, <2>1, AtConcat
<1>16. At(s, 1, t2) /\ At(s, 1 + Len(t2), Version)
  <2>1. At(s, 1, t2 \o Version)
    BY <1>15 DEF t3
  <2> QED BY <1>1, <1>5, <1>12, <2>1, AtConcat
<1>17. At(s, 1, t1) /\ At(s, 1 + Len(t1), p)
  <2>1. At(s, 1, t1 \o p)
    BY <1>16 DEF t2
  <2> QED BY <1>4, <1>12, <2>1, AtConcat
<1>18. At(s, 1, m) /\ At(s, 1 + Len(m), sp)
  <2>1. At(s, 1, m \o sp)
    BY <1>17 DEF t1
  <2> QED BY <1>1, <1>12, <2>1, AtConcat
<1>19. /\ Len(t1) = Len(m) + 1 /\ Len(t2) = (Len(m) + 1) + Len(p)
       /\ Len(t3) = ((Len(m) + 1) + Len(p)) + 3
       /\ Len(t4) = (((Len(m) + 1) + Len(p)) + 3) + Len(end)
       /\ Len(t5) = ((((Len(m) + 1) + Len(p)) + 3) + Len(end)) + Len(flat)
  BY <1>1, <1>4, <1>5, <1>6, <1>7, <1>8, Zenon
<1>20. /\ b = 1 + (Len(m) + 1) /\ c = 1 + ((Len(m) + 1) + Len(p))
       /\ d = 1 + (((Len(m) + 1) + Len(p)) + 3)
       /\ e = 1 + ((((Len(m) + 1) + Len(p)) + 3) + Len(end))
       /\ f = 1 + (((((Len(m) + 1) + Len(p)) + 3) + Len(end)) + Len(flat))
  BY <1>2, Layout
<1>21. b = 1 + Len(t1) /\ c = 1 + Len(t2) /\ d = 1 + Len(t3) /\ e = 1 + Len(t4) /\ f = 1 + Len(t5)
  BY <1>19, <1>20, Zenon
<1>22. Len(s) + 1 = (f + Len(end)) + Len(body)
  <2>1. Len(t5) \in Nat
    BY <1>8, LenProperties
  <2>2. \A x, y, z \in Nat : ((x + y) + z) + 1 = ((1 + x) + y) + z
    OBVIOUS
  <2> HIDE DEF t6
  <2>3. Len(s) = (Len(t5) + Len(end)) + Len(body)
    BY <1>9, <1>10, Zenon
  <2>4. ((Len(t5) + Len(end)) + Len(body)) + 1 = ((1 + Len(t5)) + Len(end)) + Len(body)
    BY <1>2, <2>1, <2>2
  <2> QED BY <1>21, <2>3, <2>4, Zenon
<1>23. /\ At(s, b, p) /\ At(s, c, Version) /\ At(s, d, end) /\ At(s, e, flat) /\ At(s, f, end)
  BY <1>13, <1>14, <1>15, <1>16, <1>17, <1>21, Zenon
<1>24. At(s, a, <<SP>>)
  <2>1. At(s, a, sp)
    BY <1>18 DEF Laid
  <2> QED BY <2>1 DEF sp
<1> QED BY <1>12, <1>18, <1>22, <1>23, <1>24 DEF Pieces

\* The parser reads a head that stands in front of anything as it was written.
IsHeadOf(s, m, p, fields, end, body, max) ==
  /\ m \in Seq(Char) /\ p \in Seq(Char) /\ body \in Seq(Char)
  /\ Without(m, Control \cup {SP}) /\ Without(p, Control \cup {SP})
  /\ fields \in Seq(FieldRecord) /\ \A j \in 1..Len(fields) : IsField(fields[j])
  /\ IsEnd(end) /\ max \in Nat /\ Len(fields) <= max
  /\ s = HeadOf(m, p, end, FlattenSeq(LinesOf(fields, end)), body)

LEMMA HeadReads ==
  ASSUME NEW s, NEW m, NEW p, NEW fields, NEW end, NEW body, NEW max,
         IsHeadOf(s, m, p, fields, end, body, max)
  PROVE  /\ parse_request(s, max) = [ret |-> Len(s) - Len(body), fields |-> fields,
                                     method |-> m, path |-> p]
         /\ Len(s) - Len(body) > 0
<1>0. /\ m \in Seq(Char) /\ p \in Seq(Char) /\ body \in Seq(Char)
      /\ Without(m, Control \cup {SP}) /\ Without(p, Control \cup {SP})
      /\ fields \in Seq(FieldRecord) /\ \A j \in 1..Len(fields) : IsField(fields[j])
      /\ IsEnd(end) /\ max \in Nat /\ Len(fields) <= max
  BY DEF IsHeadOf
<1> DEFINE lines == LinesOf(fields, end)
           flat == FlattenSeq(lines)
           a == 1 + Len(m)
           b == a + 1
           c == b + Len(p)
           d == c + 3
           e == d + Len(end)
           f == e + Len(flat)
<1>1. end \in Seq(Char) /\ Len(end) \in {1, 2}
  BY <1>0, EndText
<1>2. lines \in Seq(Seq(Char))
  <2>1. \A j \in 1..Len(fields) : LineText(fields[j], end) \in Seq(Char)
    BY <1>0, <1>1, LineIsText
  <2>2. lines = [j \in 1..Len(fields) |-> LineText(fields[j], end)]
    BY DEF LinesOf
  <2> DEFINE n == Len(fields)
             T == Seq(Char)
  <2>3. lines \in [1..n -> T] /\ n \in Nat
    BY <2>1, <2>2, LenProperties
  <2> HIDE DEF lines, n, T
  <2>4. lines \in UNION {[1..k -> T] : k \in Nat}
    BY <2>3
  <2>5. Seq(T) = UNION {[1..k -> T] : k \in Nat}
    BY SeqDef, Zenon
  <2> QED BY <2>4, <2>5 DEF T
<1>3. flat \in Seq(Char)
  <2> HIDE DEF lines
  <2> QED BY <1>2, FlattenText
<1>4. s = HeadOf(m, p, end, flat, body)
  BY DEF IsHeadOf
<1>20. a = 1 + Len(m) /\ b = a + 1 /\ c = b + Len(p) /\ d = c + 3 /\ e = d + Len(end) /\ f = e + Len(flat)
  OBVIOUS
<1> HIDE DEF flat, a, b, c, d, e, f
<1>25. Laid(Len(m), Len(p), Len(end), Len(flat), a, b, c, d, e, f)
  BY <1>20, Zenon DEF Laid
<1>5. /\ Len(s) + 1 = (f + Len(end)) + Len(body)
      /\ At(s, 1, m) /\ At(s, a, <<SP>>) /\ At(s, b, p) /\ At(s, c, Version)
      /\ At(s, d, end) /\ At(s, e, flat) /\ At(s, f, end)
      /\ Len(s) \in Nat
  <2>1. Pieces(s, m, p, end, flat, body, a, b, c, d, e, f)
    BY <1>0, <1>1, <1>3, <1>4, <1>25, PiecesStand
  <2> QED BY <2>1 DEF Pieces
<1>21. /\ Len(m) \in Nat /\ Len(p) \in Nat /\ Len(end) \in Nat /\ Len(flat) \in Nat
       /\ Len(body) \in Nat
  BY <1>1, <1>3, LenProperties
<1>22. /\ a \in Nat \ {0} /\ b \in Nat \ {0} /\ c \in Nat \ {0} /\ d \in Nat \ {0}
       /\ e \in Nat \ {0} /\ f \in Nat \ {0}
       /\ a <= b /\ b <= c /\ c < d /\ d <= e /\ e <= f
  <2>1. Follow(a, b, c, d, e, f)
    BY <1>21, <1>25, Layout
  <2> QED BY <2>1 DEF Follow
<1>23. d < e /\ f <= Len(s) /\ Len(s) - Len(body) = (f + Len(end)) - 1 /\ Len(s) - Len(body) > 0
  <2> DEFINE le == Len(end)
             lb == Len(body)
             ls == Len(s)
  <2>1. /\ le \in {1, 2} /\ lb \in Nat /\ ls \in Nat /\ ls + 1 = (f + le) + lb /\ e = d + le
        /\ d \in Nat \ {0} /\ f \in Nat \ {0}
    BY <1>1, <1>5, <1>20, <1>21, <1>22, Zenon
  <2> HIDE DEF le, lb, ls
  <2>2. d < e /\ f <= ls /\ ls - lb = (f + le) - 1 /\ ls - lb > 0
    BY <2>1
  <2> QED BY <2>2, Zenon DEF le, lb, ls
<1>6. /\ a \in Nat \ {0} /\ b \in Nat \ {0} /\ c \in Nat \ {0} /\ d \in Nat \ {0}
      /\ e \in Nat \ {0} /\ f \in Nat \ {0} /\ Len(s) \in Nat
      /\ a <= b /\ b <= c /\ c < d /\ d < e /\ e <= f /\ f <= Len(s)
  BY <1>5, <1>22, <1>23
<1>7. a <= Len(s) /\ s[a] = SP
  <2>1. Len(<<SP>>) = 1 /\ <<SP>>[1] = SP
    OBVIOUS
  <2>2. s[a + 1 - 1] = SP
    <3>1. \A j \in 1..1 : s[a + j - 1] = <<SP>>[j]
      BY <1>5, <2>1 DEF At
    <3>2. 1 \in 1..1
      OBVIOUS
    <3> QED BY <2>1, <3>1, <3>2, Zenon
  <2>3. a + 1 - 1 = a /\ a <= Len(s)
    BY <1>6
  <2> QED BY <2>2, <2>3, Zenon
<1>8. s[c] = SP /\ s[c + 1] = "HTTP/1." /\ s[c + 2] = "1"
  <2>1. /\ Len(Version) = 3 /\ Version[1] = SP /\ Version[2] = "HTTP/1." /\ Version[3] = "1"
    BY DEF Version
  <2>2. \A j \in 1..3 : s[c + j - 1] = Version[j]
    BY <1>5, <2>1 DEF At
  <2>3. /\ s[c + 1 - 1] = Version[1] /\ s[c + 2 - 1] = Version[2] /\ s[c + 3 - 1] = Version[3]
    <3>1. 1 \in 1..3 /\ 2 \in 1..3 /\ 3 \in 1..3
      OBVIOUS
    <3> QED BY <2>2, <3>1, Zenon
  <2>4. c + 1 - 1 = c /\ c + 2 - 1 = c + 1 /\ c + 3 - 1 = c + 2
    BY <1>6
  <2> QED BY <2>1, <2>3, <2>4, Zenon
<1>9. EndOfLine(s, d) = e /\ s[d] \in {"CR", "LF"}
  <2>1. EndOfLine(s, d) = d + Len(end) /\ s[d] \in {"CR", "LF"}
    BY <1>0, <1>5, EndIs
  <2> QED BY <1>20, <2>1, Zenon
<1>10. Begin(s) = 1
  <2>1. s[1] \notin {"CR", "LF"}
    <3>1. CASE Len(m) = 0
      <4>1. a = 1
        BY <1>20, <3>1
      <4> QED BY <1>7, <4>1, Characters
    <3>2. CASE Len(m) # 0
      <4>1. 1 \in 1..Len(m) /\ 1 \in DOMAIN m /\ 1 + 1 - 1 = 1
        BY <1>21, <3>2, LenProperties
      <4>2. s[1 + 1 - 1] = m[1]
        BY <1>5, <4>1 DEF At
      <4>3. m[1] \notin Control
        BY <1>0, <4>1 DEF Without
      <4> QED BY <4>1, <4>2, <4>3, Characters
    <3> QED BY <3>1, <3>2
  <2> QED BY <2>1 DEF Begin
<1>11. MethodEnd(s) = a
  <2>1. 1 + Len(m) <= Len(s) /\ s[1 + Len(m)] = SP
    BY <1>7, <1>20
  <2>2. At(s, 1, m) /\ Len(s) \in Nat
    BY <1>5, <1>6
  <2>3. ADVANCE_TOKEN(s, 1) = 1 + Len(m)
    BY <1>0, <2>1, <2>2, TokenStands
  <2> QED BY <1>10, <1>20, <2>3, Zenon DEF MethodEnd
<1>12. PathEnd(s) = c
  <2>1. b + Len(p) <= Len(s) /\ s[b + Len(p)] = SP
    <3>1. c <= Len(s)
      BY <1>6
    <3> QED BY <1>8, <1>20, <3>1, Zenon
  <2>2. At(s, b, p) /\ Len(s) \in Nat
    BY <1>5, <1>6
  <2>3. ADVANCE_TOKEN(s, b) = b + Len(p)
    BY <1>0, <2>1, <2>2, TokenStands
  <2>4. ~(a < 0)
    BY <1>6
  <2> QED BY <1>11, <1>20, <2>3, <2>4, Zenon DEF PathEnd
<1>13. VersionEnd(s) = d
  <2> DEFINE v == c + 1
  <2>1. v \in Nat \ {0} /\ ~(v < 0) /\ ~(v > Len(s)) /\ v \in 1..Len(s) /\ v + 1 = c + 2
        /\ v + 1 \in Nat \ {0} /\ d \in (v + 1)..Len(s) /\ d = c + 3 /\ v + 2 = d /\ s[v] = "HTTP/1."
        /\ ~(d > Len(s)) /\ d # v + 1
    <3>1. d = c + 3 /\ s[v] = "HTTP/1."
      BY <1>8, <1>20
    <3>2. v \in Nat \ {0} /\ v + 1 = c + 2 /\ v + 2 = d /\ v < d /\ d <= Len(s) /\ d # v + 1
      BY <1>6, <3>1
    <3>3. Len(s) \in Nat
      BY <1>6
    <3> HIDE DEF v
    <3>4. v \in 1..Len(s) /\ v + 1 \in Nat \ {0} /\ d \in (v + 1)..Len(s) /\ ~(v < 0) /\ ~(v > Len(s)) /\ ~(d > Len(s))
      BY <1>6, <3>2, <3>3
    <3> QED BY <3>1, <3>2, <3>4
  <2>2. FindOther(s, v + 1, Digits) = d
    <3>1. s[d] \notin Digits
      BY <1>9, Characters
    <3>2. \A j \in (v + 1)..Len(s) : j < d => s[j] \in Digits
      <4> SUFFICES ASSUME NEW j \in (v + 1)..Len(s), j < d PROVE s[j] \in Digits
        OBVIOUS
      <4>1. j = c + 2
        <5>1. v + 1 <= j /\ j < d /\ j \in Int /\ v + 2 = d /\ v + 1 = c + 2 /\ v \in Nat
          BY <2>1
        <5> HIDE DEF v
        <5>2. j = v + 1
          BY <5>1
        <5> QED BY <5>1, <5>2
      <4> QED BY <1>8, <4>1 DEF Digits
    <3> HIDE DEF v
    <3> QED BY <1>6, <2>1, <3>1, <3>2, FindOtherIs
  <2> HIDE DEF v
  <2>3. parse_http_version(s, v) = d
    BY <2>1, <2>2, Zenon DEF parse_http_version, FindOther
  <2>4. ~(c < 0)
    BY <1>6
  <2> QED BY <1>12, <2>3, <2>4, Zenon DEF VersionEnd, v
<1>14. LineEnd(s) = e
  BY <1>9, <1>13 DEF LineEnd
<1>15. parse_headers(s, e, max) = [ret |-> f + Len(end), fields |-> fields]
  <2>1. e \in 1..(Len(s) + 1) /\ At(s, e, FlattenSeq(lines)) /\ At(s, e + Len(FlattenSeq(lines)), end)
    <3>1. e \in 1..(Len(s) + 1)
      BY <1>6
    <3> QED BY <1>5, <1>20, <3>1, Zenon DEF flat
  <2>2. e + Len(FlattenSeq(lines)) = f
    BY <1>20 DEF flat
  <2>3. parse_headers(s, e, max) = [ret |-> e + Len(FlattenSeq(lines)) + Len(end), fields |-> fields]
    <3>1. Len(s) \in Nat /\ end \in Seq(Char)
      BY <1>1, <1>6
    <3>2. HeadersAt(s, e, fields, end, max)
      BY <1>0, <1>2, <2>1, <3>1 DEF HeadersAt
    <3> HIDE DEF lines
    <3>3. parse_headers(s, e, max) =
            [ret |-> e + Len(FlattenSeq(LinesOf(fields, end))) + Len(end), fields |-> fields]
      BY <3>2, HeadersStand
    <3> QED BY <3>3 DEF lines
  <2> HIDE DEF lines
  <2> QED BY <2>2, <2>3, Zenon
<1>16. f + Len(end) > 0 /\ a > 0 /\ c > 0
  BY <1>6, <1>21
<1>17. SubSeq(s, 1, a - 1) = m
  <2>1. SubSeq(s, 1, 1 + Len(m) - 1) = m
    BY <1>0, <1>5, <1>6, PieceIs
  <2>2. a - 1 = 1 + Len(m) - 1
    BY <1>20, <1>21
  <2> QED BY <2>1, <2>2, Zenon
<1>18. SubSeq(s, a + 1, c - 1) = p
  <2>1. SubSeq(s, b, b + Len(p) - 1) = p
    BY <1>0, <1>5, <1>6, PieceIs
  <2>2. c - 1 = b + Len(p) - 1 /\ a + 1 = b
    BY <1>20, <1>21, <1>22
  <2> QED BY <2>1, <2>2, Zenon
<1>19. parse_request(s, max) =
         [ret |-> f + Len(end) - 1, fields |-> fields, method |-> m, path |-> p]
  <2> DEFINE h == parse_headers(s, e, max)
             n == f + Len(end)
  <2>1. h.ret = n /\ h.fields = fields
    BY <1>15
  <2>2. n > 0
    BY <1>16
  <2>3. parse_request(s, max) =
          [ret |-> IF h.ret > 0 THEN h.ret - 1 ELSE h.ret, fields |-> h.fields,
           method |-> IF a > 0 THEN SubSeq(s, 1, a - 1) ELSE NULL,
           path |-> IF c > 0 THEN SubSeq(s, a + 1, c - 1) ELSE NULL]
    BY <1>10, <1>11, <1>12, <1>14, RequestParts
  <2> HIDE DEF h, n
  <2>4. parse_request(s, max) = [ret |-> n - 1, fields |-> fields, method |-> m, path |-> p]
    BY <1>16, <1>17, <1>18, <2>1, <2>2, <2>3, Zenon
  <2>5. n - 1 = f + Len(end) - 1
    BY <1>6, <1>21 DEF n
  <2> QED BY <2>4, <2>5, Zenon
<1>24. f + Len(end) - 1 = Len(s) - Len(body)
  <2>1. (f + Len(end)) - 1 = f + Len(end) - 1
    BY <1>6, <1>21
  <2> QED BY <1>23, <2>1, Zenon
<1> QED BY <1>19, <1>23, <1>24, Zenon

LEMMA HeadStands ==
  ASSUME NEW r, IsHead(r)
  PROVE  /\ parse_request(r.text, MAX_HTTP_HEADERS) =
              [ret |-> Len(r.text) - Len(r.body), fields |-> r.fields,
               method |-> r.method, path |-> r.path]
         /\ Len(r.text) - Len(r.body) > 0
<1> DEFINE s == r.text
           end == r.end
           fields == r.fields
           m == r.method
           p == r.path
           body == r.body
<1>1. {m, p, body} \subseteq Seq(STRING) /\ IsEnd(end) /\ Len(fields) <= MAX_HTTP_HEADERS
      /\ fields \in Seq(FieldRecord)
  BY DEF IsHead, IsEnd, FieldRecord
<1>2. m \in Seq(Char) /\ p \in Seq(Char) /\ body \in Seq(Char)
  BY <1>1, Texts1
<1>3. Without(m, Control \cup {SP}) /\ Without(p, Control \cup {SP})
  <2>1. Without(m \o p, Control \cup {SP})
    BY DEF IsHead, Without
  <2> HIDE DEF m, p
  <2> DEFINE chars == Control \cup {SP}
             mp == m \o p
  <2>2. /\ Len(mp) = Len(m) + Len(p) /\ Len(m) \in Nat /\ Len(p) \in Nat
        /\ \A i \in 1..(Len(m) + Len(p)) : mp[i] = IF i <= Len(m) THEN m[i] ELSE p[i - Len(m)]
        /\ mp \in Seq(Char)
    BY <1>2, ConcatProperties, LenProperties
  <2> HIDE DEF chars, mp
  <2>3. \A j \in 1..(Len(m) + Len(p)) : mp[j] \notin chars
    BY <2>1, <2>2, LenProperties DEF Without, chars, mp
  <2>4. ASSUME NEW j \in 1..Len(m) PROVE m[j] \notin chars
    <3>1. j \in 1..(Len(m) + Len(p)) /\ j <= Len(m)
      BY <2>2
    <3> QED BY <2>2, <2>3, <3>1
  <2>5. ASSUME NEW j \in 1..Len(p) PROVE p[j] \notin chars
    <3> DEFINE i == Len(m) + j
    <3>1. i \in 1..(Len(m) + Len(p)) /\ ~(i <= Len(m)) /\ i - Len(m) = j
      BY <2>2
    <3> HIDE DEF i
    <3> QED BY <2>2, <2>3, <3>1
  <2> QED BY <1>2, <2>4, <2>5, LenProperties DEF Without, chars
<1>4. ASSUME NEW j \in 1..Len(fields) PROVE IsField(fields[j])
  <2>1. j \in DOMAIN fields /\ fields[j] \in FieldRecord
    <3> HIDE DEF fields
    <3> QED BY <1>1, LenProperties
  <2> QED BY <2>1 DEF IsHead, IsField, Without, FieldRecord
<1>5. s = HeadOf(m, p, end, FlattenSeq(LinesOf(fields, end)), body)
  BY DEF IsHead, HeadOf, Version, LinesOf, LineText
<1>6. MAX_HTTP_HEADERS \in Nat
  BY HeadsAssumption
<1> HIDE DEF s, end, fields, m, p, body
<1>7. /\ parse_request(s, MAX_HTTP_HEADERS) = [ret |-> Len(s) - Len(body), fields |-> fields,
                                              method |-> m, path |-> p]
      /\ Len(s) - Len(body) > 0
  <2>1. \A j \in 1..Len(fields) : IsField(fields[j])
    BY <1>4
  <2>2. IsHeadOf(s, m, p, fields, end, body, MAX_HTTP_HEADERS)
    BY <1>1, <1>2, <1>3, <1>5, <1>6, <2>1 DEF IsHeadOf
  <2> QED BY <2>2, HeadReads
<1> QED BY <1>7, Zenon DEF s, end, fields, m, p, body

-----------------------------------------------------------------------------
(* What the session takes out of the fields *)

TakesAll(g, fields, n) ==
  g = [k \in 0..n |-> IF k = 0 THEN Defaults ELSE TakeField(g[k - 1], fields[k])]

LEMMA TakingTakesAll ==
  ASSUME NEW fields, Len(fields) \in Nat
  PROVE  TakesAll(Taking(fields), fields, Len(fields))
<1> DEFINE max == Len(fields)
           S == {k \in 0..max : \E g : TakesAll(g, fields, k)}
<1>1. 0 \in S
  <2>1. TakesAll([j \in 0..0 |-> Defaults], fields, 0)
    BY DEF TakesAll
  <2> QED BY <2>1
<1>2. ASSUME NEW k \in 0..(max - 1), k \in S PROVE k + 1 \in S
  <2>1. PICK g : TakesAll(g, fields, k)
    BY <1>2
  <2> DEFINE h == [j \in 0..(k + 1) |-> IF j = k + 1 THEN TakeField(g[k], fields[k + 1]) ELSE g[j]]
  <2>2. ASSUME NEW j \in 0..(k + 1)
        PROVE  h[j] = IF j = 0 THEN Defaults ELSE TakeField(h[j - 1], fields[j])
    <3>1. CASE j = k + 1
      BY <3>1
    <3>2. CASE j # k + 1
      <4>1. j \in 0..k /\ h[j] = g[j] /\ (j # 0 => h[j - 1] = g[j - 1])
        BY <3>2
      <4>2. g[j] = IF j = 0 THEN Defaults ELSE TakeField(g[j - 1], fields[j])
        BY <2>1, <4>1 DEF TakesAll
      <4> QED BY <4>1, <4>2
    <3> QED BY <3>1, <3>2
  <2>3. TakesAll(h, fields, k + 1)
    <3>1. h = [j \in 0..(k + 1) |-> h[j]]
      OBVIOUS
    <3>2. [j \in 0..(k + 1) |-> h[j]] =
            [j \in 0..(k + 1) |-> IF j = 0 THEN Defaults ELSE TakeField(h[j - 1], fields[j])]
      <4> HIDE DEF h
      <4> QED BY <2>2
    <3> HIDE DEF h
    <3> QED BY <3>1, <3>2 DEF TakesAll
  <2>4. k + 1 \in 0..max
    OBVIOUS
  <2> QED BY <2>3, <2>4
<1>3. max \in 0..max
  OBVIOUS
<1>4. max \in S
  <2> HIDE DEF S
  <2> QED BY <1>1, <1>2, <1>3, Induction
<1>5. \E g : TakesAll(g, fields, max)
  BY <1>4
<1> QED BY <1>5, Zenon DEF Taking, TakesAll

\* No name twice, and no field for two of them.
Apart(fields) ==
  /\ \A known \in Names : \A i, j \in TakenFor(fields, known) : i = j
  /\ \A i, j \in Names : i # j => TakenFor(fields, i) \cap TakenFor(fields, j) = {}

\* There is a field with that name among the first so many, and its value.
Seen(fields, known, k) == \E j \in TakenFor(fields, known) : j <= k

ValueOf(fields, known) == fields[CHOOSE j \in TakenFor(fields, known) : TRUE].value

LEMMA SeenMore ==
  ASSUME NEW fields, Len(fields) \in Nat, DOMAIN fields = 1..Len(fields), Apart(fields),
         NEW known \in Names, NEW k \in 0..(Len(fields) - 1)
  PROVE  /\ NameStarts(fields[k + 1].name, known) =>
              Seen(fields, known, k + 1) /\ ValueOf(fields, known) = fields[k + 1].value
         /\ ~NameStarts(fields[k + 1].name, known) =>
              (Seen(fields, known, k + 1) <=> Seen(fields, known, k))
<1> DEFINE T == TakenFor(fields, known)
<1>1. k + 1 \in DOMAIN fields /\ \A j \in DOMAIN fields : j <= k + 1 <=> (j <= k \/ j = k + 1)
  OBVIOUS
<1>2. k + 1 \in T <=> NameStarts(fields[k + 1].name, known)
  BY <1>1 DEF TakenFor
<1>3. T \subseteq DOMAIN fields /\ \A i, j \in T : i = j
  BY DEF TakenFor, Apart
<1> HIDE DEF T
<1>4. CASE k + 1 \in T
  <2>1. (CHOOSE j \in T : TRUE) = k + 1
    BY <1>3, <1>4
  <2>2. k + 1 <= k + 1
    OBVIOUS
  <2>3. Seen(fields, known, k + 1)
    BY <1>4, <2>2 DEF Seen, T
  <2> QED BY <1>2, <1>4, <2>1, <2>3 DEF ValueOf, T
<1>5. CASE k + 1 \notin T
  BY <1>1, <1>2, <1>3, <1>5 DEF Seen, T
<1> QED BY <1>4, <1>5

KeepAlive(value) == value # <<>> /\ Initial(value[1]) \in {"k", "K"}

\* What the first so many of the fields say.
Said(fields, k) ==
  [keep_alive |-> Seen(fields, "Connection", k) => KeepAlive(ValueOf(fields, "Connection")),
   body_len |-> IF Seen(fields, "Content-Length", k)
                THEN strtol(ValueOf(fields, "Content-Length")) ELSE 0,
   cookie |-> IF Seen(fields, "Cookie", k) THEN ValueOf(fields, "Cookie") ELSE NULL,
   if_modified_since |-> IF Seen(fields, "If-Modified-Since", k)
                         THEN ValueOf(fields, "If-Modified-Since") ELSE NULL,
   boundary |-> NULL]

LEMMA TakeFieldIs ==
  ASSUME NEW t, NEW f, f.name # <<>>,
         \A i, j \in Names : NameStarts(f.name, i) /\ NameStarts(f.name, j) => i = j
  PROVE  /\ NameStarts(f.name, "Connection") =>
              TakeField(t, f) = [t EXCEPT !.keep_alive = KeepAlive(f.value)]
         /\ NameStarts(f.name, "Content-Length") =>
              TakeField(t, f) = [t EXCEPT !.body_len = strtol(f.value)]
         /\ NameStarts(f.name, "Cookie") => TakeField(t, f) = [t EXCEPT !.cookie = f.value]
         /\ NameStarts(f.name, "If-Modified-Since") =>
              TakeField(t, f) = [t EXCEPT !.if_modified_since = f.value]
         /\ (\A known \in Names \ {"Content-Type"} : ~NameStarts(f.name, known)) =>
              TakeField(t, f) = t
<1> DEFINE Is(known) == NameStarts(f.name, known)
<1>1. /\ Is("Connection") => ~Is("Content-Length") /\ ~Is("Cookie") /\ ~Is("If-Modified-Since")
      /\ Is("Content-Length") => ~Is("Cookie") /\ ~Is("If-Modified-Since")
      /\ Is("Cookie") => ~Is("If-Modified-Since")
  BY DEF Names
<1>2. CASE Is("Connection")
  BY <1>1, <1>2 DEF TakeField, KeepAlive, Names
<1>3. CASE Is("Content-Length")
  BY <1>1, <1>3 DEF TakeField, Names
<1>4. CASE Is("Cookie")
  BY <1>1, <1>4 DEF TakeField, Names
<1>5. CASE Is("If-Modified-Since")
  BY <1>1, <1>5 DEF TakeField, Names
<1>6. CASE ~Is("Connection") /\ ~Is("Content-Length") /\ ~Is("Cookie") /\ ~Is("If-Modified-Since")
  BY <1>6 DEF TakeField
<1> QED BY <1>2, <1>3, <1>4, <1>5, <1>6

LEMMA TakenAsSaid ==
  ASSUME NEW fields \in Seq(FieldRecord), Apart(fields),
         \A j \in 1..Len(fields) : fields[j].name # <<>>
  PROVE  TakeFields(fields) = Said(fields, Len(fields))
<1> DEFINE g == Taking(fields)
           n == Len(fields)
           Is(k, known) == NameStarts(fields[k + 1].name, known)
<1>1. n \in Nat /\ DOMAIN fields = 1..n
  BY LenProperties
<1>2. /\ g[0] = Defaults
      /\ \A k \in 0..(n - 1) : g[k + 1] = TakeField(g[k], fields[k + 1])
  <2>1. TakesAll(g, fields, n)
    BY <1>1, TakingTakesAll
  <2> HIDE DEF g, n
  <2>2. \A j \in 0..n : g[j] = IF j = 0 THEN Defaults ELSE TakeField(g[j - 1], fields[j])
    BY <2>1 DEF TakesAll
  <2>3. \A k \in 0..(n - 1) : k + 1 \in 0..n /\ (k + 1) - 1 = k /\ k + 1 # 0
    BY <1>1
  <2>4. 0 \in 0..n
    BY <1>1
  <2> QED BY <2>2, <2>3, <2>4
<1> HIDE DEF g, n
<1> DEFINE S == {k \in 0..n : g[k] = Said(fields, k)}
<1>3. 0 \in S
  <2>1. \A known : ~Seen(fields, known, 0)
    BY <1>1 DEF Seen, TakenFor
  <2>2. Said(fields, 0) = Defaults
    BY <2>1 DEF Said, Defaults
  <2> QED BY <1>1, <1>2, <2>2
<1>4. ASSUME NEW k \in 0..(n - 1), k \in S PROVE k + 1 \in S
  <2> DEFINE f == fields[k + 1]
             t == Said(fields, k)
  <2>1. k + 1 \in DOMAIN fields /\ k + 1 \in 0..n /\ g[k + 1] = TakeField(t, f)
    BY <1>1, <1>2, <1>4
  <2>2. f.name # <<>>
    BY <1>1, <2>1 DEF n
  <2>3. \A i, j \in Names : NameStarts(f.name, i) /\ NameStarts(f.name, j) => i = j
    BY <2>1 DEF Apart, TakenFor
  <2>4. \A known \in Names :
          /\ Is(k, known) => Seen(fields, known, k + 1) /\ ValueOf(fields, known) = f.value
          /\ ~Is(k, known) => (Seen(fields, known, k + 1) <=> Seen(fields, known, k))
    BY <1>1, SeenMore DEF n
  <2> HIDE DEF f, t
  <2>5. TakeField(t, f) = Said(fields, k + 1)
    <3>1. CASE Is(k, "Connection")
      <4> DEFINE keep == KeepAlive(f.value)
                 old == Seen(fields, "Connection", k) => KeepAlive(ValueOf(fields, "Connection"))
                 new == Seen(fields, "Connection", k + 1) => KeepAlive(ValueOf(fields, "Connection"))
                 length == IF Seen(fields, "Content-Length", k)
                           THEN strtol(ValueOf(fields, "Content-Length")) ELSE 0
                 cookie == IF Seen(fields, "Cookie", k) THEN ValueOf(fields, "Cookie") ELSE NULL
                 since == IF Seen(fields, "If-Modified-Since", k)
                          THEN ValueOf(fields, "If-Modified-Since") ELSE NULL
      <4>1. NameStarts(f.name, "Connection")
        BY <3>1 DEF f
      <4>2. TakeField(t, f) = [t EXCEPT !.keep_alive = keep]
        BY <2>2, <2>3, <4>1, TakeFieldIs, Zenon
      <4>3. Seen(fields, "Connection", k + 1) /\ ValueOf(fields, "Connection") = f.value
        BY <2>4, <3>1 DEF Names
      <4>4. new = keep
        BY <4>3, Zenon DEF KeepAlive
      <4>5. /\ Seen(fields, "Content-Length", k + 1) <=> Seen(fields, "Content-Length", k)
            /\ Seen(fields, "Cookie", k + 1) <=> Seen(fields, "Cookie", k)
            /\ Seen(fields, "If-Modified-Since", k + 1) <=> Seen(fields, "If-Modified-Since", k)
        BY <2>3, <2>4, <3>1 DEF Names, f
      <4>6. t = [keep_alive |-> old, body_len |-> length, cookie |-> cookie,
                 if_modified_since |-> since, boundary |-> NULL]
        BY DEF Said, t
      <4>7. Said(fields, k + 1) = [keep_alive |-> new, body_len |-> length, cookie |-> cookie,
                                   if_modified_since |-> since, boundary |-> NULL]
        BY <4>5, Zenon DEF Said
      <4> HIDE DEF keep, old, new, length, cookie, since
      <4>8. [t EXCEPT !.keep_alive = keep] =
              [keep_alive |-> keep, body_len |-> length, cookie |-> cookie,
               if_modified_since |-> since, boundary |-> NULL]
        BY <4>6
      <4> QED BY <4>2, <4>4, <4>7, <4>8, Zenon
    <3>2. CASE Is(k, "Content-Length")
      BY <2>2, <2>3, <2>4, <3>2, TakeFieldIs DEF Said, Names, f, t
    <3>3. CASE Is(k, "Cookie")
      BY <2>2, <2>3, <2>4, <3>3, TakeFieldIs DEF Said, Names, f, t
    <3>4. CASE Is(k, "If-Modified-Since")
      BY <2>2, <2>3, <2>4, <3>4, TakeFieldIs DEF Said, Names, f, t
    <3>5. CASE \A known \in Names \ {"Content-Type"} : ~Is(k, known)
      BY <2>2, <2>3, <2>4, <3>5, TakeFieldIs DEF Said, Names, f, t
    <3> QED BY <3>1, <3>2, <3>3, <3>4, <3>5 DEF Names
  <2> QED BY <2>1, <2>5
<1>5. 0..n \subseteq S
  <2> HIDE DEF S
  <2> QED BY <1>1, <1>3, <1>4, Induction
<1>6. n \in S
  BY <1>1, <1>5
<1> QED BY <1>6 DEF TakeFields, g, n

LEMMA PieceOf ==
  ASSUME NEW w \in Seq(STRING), NEW a \in Nat, NEW b \in Nat, a <= b, b <= Len(w)
  PROVE  /\ SubSeq(w, a + 1, b) \in Seq(STRING) /\ Len(SubSeq(w, a + 1, b)) = b - a
         /\ \A i \in 1..(b - a) : SubSeq(w, a + 1, b)[i] = w[a + i]
<1> DEFINE m == a + 1
           u == SubSeq(w, m, b)
<1>1. m \in Int /\ b \in Int /\ (b - m) + 1 = b - a /\ (m <= b <=> a < b)
  OBVIOUS
<1>2. \A i \in m..b : w[i] \in STRING
  <2>1. Len(w) \in Nat /\ \A i \in 1..Len(w) : w[i] \in STRING
    BY LenProperties
  <2> QED BY <2>1
<1>3. \A i \in 1..(b - a) : m + i - 1 = a + i
  OBVIOUS
<1> HIDE DEF m
<1>4. /\ u \in Seq(STRING) /\ Len(u) = IF m <= b THEN b - m + 1 ELSE 0
      /\ \A i \in 1..(b - m + 1) : u[i] = w[m + i - 1]
  BY <1>1, <1>2, SubSeqProperties
<1> HIDE DEF u
<1>5. Len(u) = b - a /\ \A i \in 1..(b - a) : u[i] = w[a + i]
  <2>1. (IF m <= b THEN b - m + 1 ELSE 0) = b - a /\ b - m + 1 = b - a
    BY <1>1
  <2>2. Len(u) = b - a /\ \A i \in 1..(b - a) : u[i] = w[m + i - 1]
    BY <1>4, <2>1
  <2> QED BY <1>3, <2>2
<1> QED BY <1>4, <1>5 DEF u, m

\* The boundary that the value names is the one that is cut out of it.
LEMMA BoundaryIs ==
  ASSUME NEW value \in Seq(STRING), NEW b, NamesBoundary(value, b)
  PROVE  b = IF "boundary=" \notin {value[j] : j \in DOMAIN value} THEN NULL
             ELSE UpTo(After(value, "boundary="), {";"})
<1> DEFINE places == {j \in DOMAIN value : value[j] = "boundary="}
           n == Len(value)
<1>1. n \in Nat /\ DOMAIN value = 1..n /\ \A i \in 1..n : value[i] \in STRING
  BY LenProperties
<1>20. n = Len(value)
  OBVIOUS
<1> HIDE DEF n
<1>2. CASE places = {}
  <2>1. b = NULL
    BY <1>2 DEF NamesBoundary
  <2> QED BY <1>2, <2>1
<1>3. CASE places # {}
  <2>1. PICK j \in places, k \in 0..n :
          /\ \A m \in places : j <= m
          /\ j <= k /\ b = SubSeq(value, j + 1, k)
          /\ \A m \in DOMAIN b : b[m] # ";"
          /\ k < n => value[k + 1] = ";"
    BY <1>3 DEF NamesBoundary, n
  <2>2. "boundary=" \in {value[i] : i \in DOMAIN value}
    BY <1>3
  <2>3. j \in 1..n /\ places \subseteq Nat
    BY <1>1
  <2>8. j \in Nat /\ k \in Nat /\ n \in Nat /\ j <= k /\ k <= n /\ j <= n
    <3>1. j \in 1..n /\ k \in 0..n /\ j <= k /\ n \in Nat
      BY <1>1, <2>1
    <3> HIDE DEF places
    <3> QED BY <3>1
  <2> DEFINE v == SubSeq(value, j + 1, n)
  <2>4. After(value, "boundary=") = v
    <3> DEFINE ends == {i \in 1..Len(value) : value[i] \in {"boundary="}}
    <3>1. ends = places
      BY <1>1, <1>20
    <3>2. (CHOOSE i \in ends : \A m \in ends : i <= m) = j
      <4> HIDE DEF ends, places
      <4> QED BY <2>1, <2>3, <3>1, LeastIs
    <3>3. ends # {}
      BY <1>3, <3>1
    <3>4. UpTo(value, {"boundary="}) = SubSeq(value, 1, j - 1)
      BY <3>2, <3>3, Zenon DEF UpTo
    <3>5. Len(SubSeq(value, 1, j - 1)) = j - 1
      <4> DEFINE l == j - 1
      <4>1. 0 \in Nat /\ l \in Nat /\ 0 <= l /\ l <= Len(value) /\ l - 0 = l /\ 0 + 1 = 1
        BY <1>1, <1>20, <2>3
      <4> HIDE DEF l
      <4>2. Len(SubSeq(value, 0 + 1, l)) = l - 0
        BY <4>1, PieceOf
      <4> QED BY <4>1, <4>2, Zenon DEF l
    <3>6. (j - 1) + 2 = j + 1
      BY <2>3
    <3>7. Len(UpTo(value, {"boundary="})) + 2 = j + 1
      BY <3>4, <3>5, <3>6, Zenon
    <3> QED BY <1>20, <3>7, Zenon DEF After
  <2> HIDE DEF places
  <2>5. /\ v \in Seq(STRING) /\ Len(v) = n - j
        /\ \A i \in 1..(n - j) : v[i] = value[j + i]
    <3>1. j \in Nat /\ n \in Nat /\ j <= n /\ n <= Len(value)
      BY <1>1, <1>20, <2>3
    <3> QED BY <3>1, PieceOf
  <2>6. /\ b \in Seq(STRING) /\ Len(b) = k - j
        /\ \A i \in 1..(k - j) : b[i] = value[j + i]
    <3>1. j \in Nat /\ k \in Nat /\ j <= k /\ k <= Len(value)
      BY <1>20, <2>8
    <3> QED BY <2>1, <3>1, PieceOf
  <2> HIDE DEF v
  <2> DEFINE ends == {i \in 1..Len(v) : v[i] \in {";"}}
  <2>7. UpTo(v, {";"}) = b
    <3>1. j \in Nat /\ k \in Nat /\ n \in Nat /\ j <= k /\ k <= n
      BY <2>8
    <3>2. \A i \in 1..(k - j) : b[i] # ";"
      BY <2>1, <2>6, LenProperties
    <3>6. Len(v) = n - j /\ n - j \in Nat /\ k - j \in Nat
      BY <2>5, <3>1
    <3>3. ASSUME NEW i \in 1..(n - j), i <= k - j PROVE v[i] = b[i] /\ v[i] # ";"
      <4>1. i \in 1..(k - j)
        BY <3>1, <3>3
      <4> QED BY <2>5, <2>6, <3>2, <3>3, <4>1
    <3>4. CASE k = n
      <4>1. ends = {}
        <5> SUFFICES ASSUME NEW i \in ends PROVE FALSE
          OBVIOUS
        <5>1. i \in 1..Len(v) /\ v[i] = ";"
          OBVIOUS
        <5>2. i \in 1..(n - j) /\ i <= k - j
          <6> HIDE DEF ends
          <6>1. i \in 1..(n - j)
            BY <3>6, <5>1, Zenon
          <6>2. i <= n - j
            BY <3>6, <6>1
          <6> QED BY <3>4, <6>1, <6>2
        <5> QED BY <3>3, <5>1, <5>2
      <4>2. v = b
        <5>1. Len(v) = Len(b) /\ v \in Seq(STRING) /\ b \in Seq(STRING)
          BY <2>5, <2>6, <3>4
        <5>2. \A i \in 1..Len(v) : v[i] = b[i]
          <6> SUFFICES ASSUME NEW i \in 1..(n - j) PROVE v[i] = b[i]
            BY <3>6
          <6>1. i <= k - j
            BY <3>4, <3>6
          <6> QED BY <3>3, <6>1
        <5> QED BY <5>1, <5>2, SeqEqual
      <4> QED BY <4>1, <4>2, Zenon DEF UpTo
    <3>5. CASE k # n
      <4> DEFINE e == (k - j) + 1
      <4>1. e \in 1..(n - j) /\ j + e = k + 1 /\ k < n /\ e - 1 = k - j
        BY <3>1, <3>5
      <4>2. v[e] = ";"
        BY <2>1, <2>5, <4>1
      <4>3. e \in ends /\ ends \subseteq Nat
        <5>1. e \in 1..Len(v) /\ v[e] \in {";"}
          BY <3>6, <4>1, <4>2
        <5>2. \A i \in ends : i \in Nat
          <6> SUFFICES ASSUME NEW i \in ends PROVE i \in Nat
            OBVIOUS
          <6>1. i \in 1..Len(v)
            OBVIOUS
          <6> HIDE DEF ends, e
          <6> QED BY <3>6, <6>1
        <5> HIDE DEF e
        <5>3. e \in ends
          BY <5>1
        <5> QED BY <5>2, <5>3
      <4>4. \A m \in ends : e <= m
        <5> SUFFICES ASSUME NEW m \in ends, ~(e <= m) PROVE FALSE
          OBVIOUS
        <5>1. m \in 1..(n - j) /\ v[m] = ";"
          BY <3>6
        <5>2. m <= k - j
          <6> HIDE DEF e, ends
          <6>1. m \in Int /\ e \in Int /\ e - 1 = k - j /\ k - j \in Int
            <7>1. m \in Int
              BY <4>3
            <7>2. e \in Int /\ e - 1 = k - j /\ k - j \in Int
              BY <3>6, <4>1
            <7> QED BY <7>1, <7>2
          <6>2. ~(e <= m)
            OBVIOUS
          <6> QED BY <6>1, <6>2
        <5> QED BY <3>3, <5>1, <5>2
      <4> HIDE DEF e, ends
      <4>5. (CHOOSE i \in ends : \A m \in ends : i <= m) = e
        BY <4>3, <4>4, LeastIs
      <4>6. UpTo(v, {";"}) = SubSeq(v, 1, e - 1)
        <5>1. ends # {}
          BY <4>3
        <5> QED BY <4>5, <5>1, Zenon DEF UpTo, ends
      <4>7. SubSeq(v, 1, k - j) = b
        <5> DEFINE l == k - j
                   u == SubSeq(v, 1, l)
        <5>1. l \in Nat /\ l <= n - j /\ \A i \in 1..l : i \in 1..(n - j) /\ i <= l
          BY <3>1
        <5>2. \A i \in 1..l : v[i] = b[i]
          <6> SUFFICES ASSUME NEW i \in 1..l PROVE v[i] = b[i]
            OBVIOUS
          <6>1. i \in 1..(n - j) /\ i <= k - j
            BY <5>1
          <6> QED BY <3>3, <6>1
        <5>3. Len(b) = l /\ b \in Seq(STRING)
          BY <2>6
        <5> HIDE DEF l
        <5>4. u \in Seq(STRING) /\ Len(u) = l /\ \A i \in 1..l : u[i] = v[i]
          <6>1. 0 \in Nat /\ 0 <= l /\ l <= Len(v) /\ l - 0 = l /\ 0 + 1 = 1
            BY <2>5, <5>1
          <6>2. \A i \in 1..l : 0 + i = i
            OBVIOUS
          <6>3. /\ SubSeq(v, 0 + 1, l) \in Seq(STRING) /\ Len(SubSeq(v, 0 + 1, l)) = l - 0
                /\ \A i \in 1..(l - 0) : SubSeq(v, 0 + 1, l)[i] = v[0 + i]
            BY <2>5, <5>1, <6>1, PieceOf
          <6> QED BY <6>1, <6>2, <6>3
        <5> HIDE DEF u
        <5>5. u = b
          BY <5>2, <5>3, <5>4, SeqEqual
        <5> QED BY <5>5 DEF u, l
      <4> QED BY <4>1, <4>6, <4>7, Zenon
    <3> QED BY <3>4, <3>5
  <2> QED BY <2>2, <2>4, <2>7, Zenon
<1> QED BY <1>2, <1>3

\* The fields of a head are taken for what the client meant.
LEMMA TakenAsMeant ==
  ASSUME NEW fields \in Seq(FieldRecord), NEW meant, SayWhatIsMeant(fields, meant),
         \A j \in 1..Len(fields) : fields[j].name # <<>>
  PROVE  [TakeFields(fields) EXCEPT !.boundary = GetMultipartBondary(fields)] = meant
<1> DEFINE n == Len(fields)
           T(known) == TakenFor(fields, known)
<1>1. Apart(fields)
  BY DEF SayWhatIsMeant, Apart
<1>2. TakeFields(fields) = Said(fields, n)
  BY <1>1, TakenAsSaid
<1>3. \A known : Seen(fields, known, n) <=> T(known) # {}
  BY DEF Seen, TakenFor
<1> DEFINE keep == T("Connection") # {} => KeepAlive(ValueOf(fields, "Connection"))
           length == IF T("Content-Length") # {}
                     THEN strtol(ValueOf(fields, "Content-Length")) ELSE 0
           cookie == IF T("Cookie") # {} THEN ValueOf(fields, "Cookie") ELSE NULL
           since == IF T("If-Modified-Since") # {}
                    THEN ValueOf(fields, "If-Modified-Since") ELSE NULL
           bound == GetMultipartBondary(fields)
<1>4. Said(fields, n) = [keep_alive |-> keep, body_len |-> length, cookie |-> cookie,
                         if_modified_since |-> since, boundary |-> NULL]
  <2> HIDE DEF n
  <2> QED BY <1>3, Zenon DEF Said
<1>5. meant = [keep_alive |-> keep, body_len |-> length, cookie |-> cookie,
               if_modified_since |-> since, boundary |-> meant.boundary]
  BY DEF SayWhatIsMeant, ValueOf, KeepAlive
<1>6. bound = meant.boundary
  <2> DEFINE value == ValueOf(fields, "Content-Type")
             types == {j \in DOMAIN fields : NameStarts(fields[j].name, "Content-Type")}
  <2>1. types = T("Content-Type")
    BY DEF TakenFor
  <2>2. CASE types = {}
    <3>1. meant.boundary = NULL
      BY <2>1, <2>2 DEF SayWhatIsMeant
    <3>2. bound = NULL
      BY <2>2 DEF GetMultipartBondary
    <3> QED BY <3>1, <3>2
  <2>3. CASE types # {}
    <3>1. NamesBoundary(value, meant.boundary)
      BY <2>1, <2>3 DEF SayWhatIsMeant, ValueOf
    <3>2. PICK j \in types : \A m \in types : m = j
      BY <1>1, <2>1, <2>3 DEF Apart, Names
    <3>3. (CHOOSE i \in T("Content-Type") : TRUE) = j
      BY <2>1, <3>2
    <3>4. j \in 1..n /\ types \subseteq Nat /\ fields[j] \in FieldRecord
      BY LenProperties
    <3>5. (CHOOSE i \in types : \A m \in types : i <= m) = j
      <4>1. \A m \in types : j <= m
        BY <3>2, <3>4
      <4> HIDE DEF types
      <4> QED BY <3>4, <4>1, LeastIs
    <3>6. value = fields[j].value /\ value \in Seq(STRING)
      BY <3>3, <3>4 DEF ValueOf, FieldRecord
    <3>7. bound = IF "boundary=" \notin {value[i] : i \in DOMAIN value} THEN NULL
                  ELSE UpTo(After(value, "boundary="), {";"})
      <4>1. value = fields[CHOOSE i \in types : \A m \in types : i <= m].value
        BY <3>5, <3>6
      <4>2. GetMultipartBondary(fields) =
              LET v == fields[CHOOSE i \in types : \A m \in types : i <= m].value
              IN  IF types = {} \/ "boundary=" \notin {v[i] : i \in DOMAIN v} THEN NULL
                  ELSE UpTo(After(v, "boundary="), {";"})
        BY Zenon DEF GetMultipartBondary
      <4> HIDE DEF value, types
      <4> QED BY <2>3, <4>1, <4>2, Zenon
    <3> HIDE DEF value, bound
    <3> QED BY <3>1, <3>6, <3>7, BoundaryIs
  <2> QED BY <2>2, <2>3
<1> HIDE DEF keep, length, cookie, since, bound
<1>7. [Said(fields, n) EXCEPT !.boundary = bound] =
        [keep_alive |-> keep, body_len |-> length, cookie |-> cookie,
         if_modified_since |-> since, boundary |-> bound]
  BY <1>4
<1> QED BY <1>2, <1>5, <1>6, <1>7, Zenon DEF bound

-----------------------------------------------------------------------------

\* The invariant says all that is promised.
LEMMA HeadInvImplies == HeadInv => HeadAsSent
<1> SUFFICES ASSUME HeadInv PROVE HeadAsSent
  OBVIOUS
<1>1. request \in Heads /\ request.text \in Seq(STRING)
  BY HeadsAssumption DEF HeadInv
<1>2. ASSUME request.sound
      PROVE  /\ IsHead(request)
             /\ Whole = [ret |-> Len(request.text) - Len(request.body), fields |-> request.fields,
                         method |-> request.method, path |-> request.path]
             /\ Whole.ret > 0
  <2>1. IsHead(request)
    BY <1>1, <1>2, HeadsAssumption
  <2>2. /\ parse_request(request.text, MAX_HTTP_HEADERS) =
              [ret |-> Len(request.text) - Len(request.body), fields |-> request.fields,
               method |-> request.method, path |-> request.path]
        /\ Len(request.text) - Len(request.body) > 0
    BY <2>1, HeadStands
  <2> DEFINE n == Len(request.text) - Len(request.body)
  <2>3. Whole = [ret |-> n, fields |-> request.fields,
                 method |-> request.method, path |-> request.path]
    BY <2>2 DEF Whole
  <2> HIDE DEF n
  <2>4. Whole.ret = n
    BY <2>3
  <2> QED BY <2>1, <2>2, <2>3, <2>4, Zenon DEF n
<1>3. progress \in {"processing", "read"} => head = Whole
  BY DEF HeadInv
<1>4. progress = "refused" => Whole.ret = invalid
  BY DEF HeadInv
<1>5. progress = "waiting" /\ arrived = Len(request.text) =>
        Whole.ret < 0 /\ TwoLineEnds(request.text, 1) = incomplete
  <2> SUFFICES ASSUME progress = "waiting", arrived = Len(request.text)
               PROVE  Whole.ret < 0 /\ TwoLineEnds(request.text, 1) = incomplete
    OBVIOUS
  <2>1. SubSeq(request.text, 1, last_headers_len) = request.text
    BY <1>1, SubSeqFull DEF HeadInv
  <2>2. TwoLineEnds(request.text, 1) = incomplete
    BY <2>1 DEF HeadInv
  <2>3. /\ Whole.ret \in Nat \cup {invalid, incomplete}
        /\ Whole.ret >= 0 => TwoLineEnds(request.text, 1) > 0
    BY <1>1, BlankLine, HeadsAssumption DEF Whole
  <2> QED BY <2>2, <2>3 DEF invalid, incomplete
<1>6. progress = "refused" => ~request.sound
  <2>1. ~(invalid > 0)
    BY DEF invalid
  <2> QED BY <1>2, <1>4, <2>1, Zenon
<1>7. ASSUME progress = "read", request.sound
      PROVE  /\ head.method = request.method /\ head.path = request.path
             /\ head.ret = Len(request.text) - Len(request.body)
             /\ taken = request.meant
  <2>1. /\ head.method = request.method /\ head.path = request.path
        /\ head.ret = Len(request.text) - Len(request.body) /\ head.fields = request.fields
    <3> DEFINE n == Len(request.text) - Len(request.body)
    <3>1. head = [ret |-> n, fields |-> request.fields,
                  method |-> request.method, path |-> request.path]
      BY <1>2, <1>3, <1>7
    <3> HIDE DEF n
    <3>2. head.method = request.method /\ head.path = request.path /\ head.ret = n /\ head.fields = request.fields
      BY <3>1
    <3> QED BY <3>2 DEF n
  <2>2. /\ request.fields \in Seq(FieldRecord) /\ SayWhatIsMeant(request.fields, request.meant)
        /\ \A j \in 1..Len(request.fields) : request.fields[j].name # <<>>
    BY <1>2, <1>7, LenProperties DEF IsHead, FieldRecord
  <2>3. taken = [TakeFields(request.fields) EXCEPT !.boundary = GetMultipartBondary(request.fields)]
    BY <1>7, <2>1 DEF HeadInv
  <2> QED BY <2>1, <2>2, <2>3, TakenAsMeant
<1> QED BY <1>3, <1>4, <1>5, <1>6, <1>7 DEF HeadAsSent, Whole

\* What the session reads of a request does not depend on the pieces it comes
\* in, and is what the client meant: on_input, ParseHttpRequest and
\* ProcessHeaders (http_session.cpp) around phr_parse_request.
THEOREM HeadsAlwaysAsSent == HeadSpec => []HeadAsSent
<1> QED BY HeadInvInit, HeadInvStep, HeadInvImplies, PTL DEF HeadSpec

=============================================================================
