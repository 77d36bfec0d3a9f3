----------------------- MODULE DownstreamServer_proofs ----------------------
(***************************************************************************)
(* The corrected worst case is a bound, and a tight one, for every         *)
(* envelope, queue length and number of bypasses, whatever arrives when.   *)
(*                                                                         *)
(* Two arguments meet.  The stall geometry: advance() is the inverse of    *)
(* counting usable cycles (Work, EndOf), so that work adds up over its     *)
(* interruptions and only its first partial window is in question.  And    *)
(* the queue: from any cycle at which the first i - 1 of the outstanding   *)
(* transactions are over, the rest is at most one busy period of so many   *)
(* of the longest (Backlog), and the outstanding limit says how many.      *)
(***************************************************************************)
EXTENDS DownstreamServer, FiniteSetTheorems, SequenceTheorems,
        WellFoundedInduction, TLAPS
---------------------------------------------------------------------------
(* Products are natural numbers, and grow with their factors.               *)
LEMMA ProductIs ==
  ASSUME NEW m \in Nat, NEW n \in Nat
  PROVE  m * n \in Nat
BY SMT

LEMMA ProductGrows ==
  ASSUME NEW m \in Int, NEW n \in Int, NEW d \in Nat, m <= n
  PROVE  d * m \in Int /\ d * n \in Int /\ d * m <= d * n
BY SMT

(* Quotients and remainders of the source's // and %.                       *)
LEMMA QuotientIs ==
  ASSUME NEW a \in Nat, NEW d \in Nat \ {0}
  PROVE  /\ a \div d \in Nat /\ a % d \in 0 .. d - 1
         /\ a = d * (a \div d) + (a % d)
BY SMT

(* Division has one result, which grows with what is divided.               *)
LEMMA QuotientUnique ==
  ASSUME NEW a \in Int, NEW d \in Nat \ {0}, NEW q \in Int,
         NEW r \in 0 .. d - 1, a = d * q + r
  PROVE  a \div d = q /\ a % d = r
<1> DEFINE q1 == a \div d
           r1 == a % d
<1>1. q1 \in Int /\ r1 \in 0 .. d - 1 /\ a = d * q1 + r1
  BY SMT
<1> HIDE DEF q1, r1
<1>2. ASSUME q1 < q PROVE FALSE
  <2>1. q1 + 1 <= q
    BY <1>1, <1>2
  <2>2. d * (q1 + 1) <= d * q
    BY <1>1, <2>1, ProductGrows
  <2>3. d * (q1 + 1) = d * q1 + d
    BY <1>1, SMT
  <2> QED
    BY <1>1, <2>2, <2>3
<1>3. ASSUME q < q1 PROVE FALSE
  <2>1. q + 1 <= q1
    BY <1>1, <1>3
  <2>2. d * (q + 1) <= d * q1
    BY <1>1, <2>1, ProductGrows
  <2>3. d * (q + 1) = d * q + d
    BY <1>1, SMT
  <2> QED
    BY <1>1, <2>2, <2>3
<1>4. q1 = q
  BY <1>1, <1>2, <1>3
<1>5. r1 = r
  BY <1>1, <1>4
<1> QED
  BY <1>4, <1>5 DEF q1, r1

LEMMA QuotientGrows ==
  ASSUME NEW a \in Nat, NEW b \in Nat, NEW d \in Nat \ {0}, a <= b
  PROVE  a \div d \in Nat /\ b \div d \in Nat /\ a \div d <= b \div d
<1> DEFINE j == a \div d
           k == b \div d
<1>1. /\ j \in Nat /\ a = d * j + (a % d) /\ a % d \in 0 .. d - 1
      /\ k \in Nat /\ b = d * k + (b % d) /\ b % d \in 0 .. d - 1
  BY QuotientIs
<1> HIDE DEF j, k
<1>2. ASSUME k + 1 <= j PROVE FALSE
  <2>1. d * (k + 1) <= d * j
    BY <1>1, <1>2, ProductGrows
  <2>2. d * (k + 1) = d * k + d
    BY <1>1, SMT
  <2>3. d * k \in Nat /\ d * j \in Nat
    BY <1>1, ProductIs
  <2> QED
    BY <1>1, <2>1, <2>2, <2>3
<1>3. j <= k
  BY <1>1, <1>2
<1> QED
  BY <1>1, <1>3 DEF j, k

(* What the envelope is: a window is its usable cycles and the refresh.     *)
LEMMA Envelope ==
  /\ Usable \in Nat \ {0} /\ Refresh \in Nat /\ Window \in Nat \ {0}
  /\ Window = Usable + Refresh
  /\ CMax \in Nat \ {0} /\ BFixed \in Nat /\ Bypass \in Nat
  /\ MaxOutstanding \in Nat \ {0}
BY GmAssumption DEF GmAssumption, Usable
---------------------------------------------------------------------------
(* The usable cycles before cycle s, and the cycle at whose end the v-th    *)
(* usable one is over.                                                      *)
Within(r) == IF r <= Usable THEN r ELSE Usable
Work(s) == Usable * (s \div Window) + Within(s % Window)
EndOf(v) == v + Refresh * ((v - 1) \div Usable)

(* Both in terms of a window and a place in it.                             *)
LEMMA WorkIs ==
  ASSUME NEW q \in Nat, NEW r \in 0 .. Window - 1
  PROVE  /\ Window * q + r \in Nat
         /\ Work(Window * q + r) = Usable * q + Within(r)
         /\ Usable * q + Within(r) \in Nat
<1> DEFINE s == Window * q + r
<1>1. Window * q \in Nat /\ Usable * q \in Nat
  BY Envelope, ProductIs
<1>2. s \in Int /\ r \in 0 .. Window - 1 /\ s = Window * q + r
  BY <1>1, Envelope
<1> HIDE DEF s
<1>3. s \div Window = q /\ s % Window = r
  BY <1>2, Envelope, QuotientUnique
<1>4. Within(r) \in Nat
  BY Envelope DEF Within
<1> QED
  BY <1>1, <1>2, <1>3, <1>4, Envelope DEF s, Work

LEMMA EndIs ==
  ASSUME NEW q \in Nat, NEW r \in 0 .. Usable - 1
  PROVE  /\ EndOf(Usable * q + r + 1) = Window * q + r + 1
         /\ Usable * q + r + 1 \in Nat /\ Window * q + r + 1 \in Nat
<1> DEFINE v == Usable * q + r + 1
           p == v - 1
<1>1. Window * q \in Nat /\ Usable * q \in Nat /\ Refresh * q \in Nat
  BY Envelope, ProductIs
<1>2. Window * q = Usable * q + Refresh * q
  BY Envelope, SMT
<1>3. p \in Int /\ p = Usable * q + r
  BY <1>1, Envelope
<1> HIDE DEF p
<1>4. p \div Usable = q
  BY <1>3, Envelope, QuotientUnique
<1>5. EndOf(v) = v + Refresh * q
  BY <1>4 DEF EndOf, p
<1> QED
  BY <1>1, <1>2, <1>5, Envelope

(* Every cycle has its window and its place in it; every usable cycle too.  *)
LEMMA PlaceOf ==
  ASSUME NEW s \in Nat
  PROVE  \E q \in Nat, r \in 0 .. Window - 1 :
           /\ s = Window * q + r /\ q = s \div Window /\ r = s % Window
BY Envelope, QuotientIs

LEMMA ChunkOf ==
  ASSUME NEW v \in Nat \ {0}
  PROVE  \E q \in Nat, r \in 0 .. Usable - 1 : v = Usable * q + r + 1
<1> DEFINE p == v - 1
<1>1. p \in Nat
  OBVIOUS
<1> HIDE DEF p
<1>2. /\ p \div Usable \in Nat /\ p % Usable \in 0 .. Usable - 1
      /\ p = Usable * (p \div Usable) + (p % Usable)
  BY <1>1, Envelope, QuotientIs
<1>3. Usable * (p \div Usable) \in Nat
  BY <1>2, Envelope, ProductIs
<1>4. v = Usable * (p \div Usable) + (p % Usable) + 1
  <2>1. v = p + 1
    BY DEF p
  <2> QED
    BY <2>1, <1>2, <1>3
<1> QED
  BY <1>2, <1>4

(* The usable cycles before the end of the v-th are v.                      *)
LEMMA WorkOfEnd ==
  ASSUME NEW v \in Nat \ {0}
  PROVE  EndOf(v) \in Nat /\ Work(EndOf(v)) = v
<1>1. PICK q \in Nat, r \in 0 .. Usable - 1 : v = Usable * q + r + 1
  BY ChunkOf
<1>2. EndOf(v) = Window * q + r + 1 /\ Window * q + r + 1 \in Nat
  BY <1>1, EndIs
<1>3. Window * q \in Nat /\ Usable * q \in Nat
  BY Envelope, ProductIs
<1>4. CASE r + 1 < Window
  <2>1. r + 1 \in 0 .. Window - 1
    BY <1>4, Envelope
  <2>2. Work(Window * q + (r + 1)) = Usable * q + Within(r + 1)
    BY <2>1, WorkIs
  <2>3. Within(r + 1) = r + 1
    BY Envelope DEF Within
  <2>4. Window * q + r + 1 = Window * q + (r + 1)
    BY <1>3, Envelope
  <2> QED
    BY <1>1, <1>2, <1>3, <2>2, <2>3, <2>4, Envelope
<1>5. CASE r + 1 = Window
  <2>1. Usable = Window /\ 0 \in 0 .. Window - 1 /\ q + 1 \in Nat
    BY <1>5, Envelope
  <2>2. Work(Window * (q + 1) + 0) = Usable * (q + 1) + Within(0)
    BY <2>1, WorkIs
  <2>3. Within(0) = 0
    BY Envelope DEF Within
  <2>4. Window * (q + 1) = Window * q + Window
    BY Envelope, SMT
  <2> QED
    BY <1>1, <1>2, <1>3, <1>5, <2>1, <2>2, <2>3, <2>4, Envelope
<1> QED
  BY <1>4, <1>5, Envelope

(* Later work ends later, by the difference at least; and a later cycle has *)
(* no fewer usable ones before it.                                          *)
LEMMA EndGrows ==
  ASSUME NEW v \in Nat \ {0}, NEW x \in Nat, v <= x
  PROVE  EndOf(v) + (x - v) <= EndOf(x)
<1> DEFINE p == v - 1
           y == x - 1
<1>1. p \in Nat /\ y \in Nat /\ p <= y
  OBVIOUS
<1>2. p \div Usable \in Nat /\ y \div Usable \in Nat
  BY <1>1, Envelope, QuotientIs
<1>3. p \div Usable <= y \div Usable
  BY <1>1, Envelope, QuotientGrows
<1>4. Refresh * (p \div Usable) <= Refresh * (y \div Usable)
  BY <1>2, <1>3, Envelope, ProductGrows
<1>5. Refresh * (p \div Usable) \in Nat /\ Refresh * (y \div Usable) \in Nat
  BY <1>2, Envelope, ProductIs
<1> QED
  BY <1>4, <1>5 DEF EndOf

LEMMA WorkType ==
  ASSUME NEW s \in Nat
  PROVE  Work(s) \in Nat
<1>1. PICK q \in Nat, r \in 0 .. Window - 1 : s = Window * q + r
  BY PlaceOf
<1> QED
  BY <1>1, WorkIs

LEMMA WorkGrows ==
  ASSUME NEW s \in Nat, NEW x \in Nat, s <= x
  PROVE  Work(s) <= Work(x)
<1>1. PICK q \in Nat, r \in 0 .. Window - 1 : s = Window * q + r
  BY PlaceOf
<1>2. PICK k \in Nat, m \in 0 .. Window - 1 : x = Window * k + m
  BY PlaceOf
<1>3. Work(s) = Usable * q + Within(r) /\ Work(x) = Usable * k + Within(m)
  BY <1>1, <1>2, WorkIs
<1>4. /\ Window * q \in Nat /\ Usable * q \in Nat
      /\ Window * k \in Nat /\ Usable * k \in Nat
  BY Envelope, ProductIs
<1>5. Within(r) \in 0 .. Usable /\ Within(m) \in 0 .. Usable
  BY Envelope DEF Within
<1>6. CASE q = k
  <2>1. r <= m
    BY <1>1, <1>2, <1>4, <1>6, Envelope
  <2>2. Within(r) <= Within(m)
    BY <2>1, Envelope DEF Within
  <2> QED
    BY <1>3, <1>4, <1>5, <1>6, <2>2, Envelope
<1>7. CASE q + 1 <= k
  <2>1. Usable * (q + 1) <= Usable * k
    BY <1>7, Envelope, ProductGrows
  <2>2. Usable * (q + 1) = Usable * q + Usable
    BY Envelope, SMT
  <2> QED
    BY <1>3, <1>4, <1>5, <2>1, <2>2, Envelope
<1>8. CASE k + 1 <= q
  <2>1. Window * (k + 1) <= Window * q
    BY <1>8, Envelope, ProductGrows
  <2>2. Window * (k + 1) = Window * k + Window
    BY Envelope, SMT
  <2> QED
    BY <1>1, <1>2, <1>4, <2>1, <2>2, Envelope
<1> QED
  BY <1>6, <1>7, <1>8
---------------------------------------------------------------------------
(* The loop of advance(): one step of it, and the function it computes.     *)
Times == Nat \X Nat
NextWindow(u) == (u \div Window + 1) * Window
FinStep(fin, at) ==
  LET u == at[1]
      left == at[2]
      off == u % Window
      next == (u \div Window + 1) * Window IN
  IF off >= Usable THEN fin[<<next, left>>]
  ELSE IF left <= Usable - off THEN u + left
  ELSE fin[<<next, left - (Usable - off)>>]
Fin == CHOOSE fin : fin = [at \in Times |-> FinStep(fin, at)]

(* The next window begins with no stall; the rest of this one serves what   *)
(* is usable of it.                                                         *)
LEMMA WindowStep ==
  ASSUME NEW u \in Nat
  PROVE  /\ NextWindow(u) \in Nat /\ NextWindow(u) % Window = 0
         /\ u % Window \in Nat
         /\ u % Window >= Usable => Work(NextWindow(u)) = Work(u)
         /\ u % Window < Usable =>
              /\ Work(NextWindow(u)) = Work(u) + (Usable - (u % Window))
              /\ \A left \in 1 .. Usable - (u % Window) :
                   EndOf(Work(u) + left) = u + left
<1>1. PICK q \in Nat, r \in 0 .. Window - 1 :
        u = Window * q + r /\ q = u \div Window /\ r = u % Window
  BY PlaceOf
<1>2. q + 1 \in Nat /\ 0 \in 0 .. Window - 1 /\ r \in Nat
  BY Envelope
<1>3. Window * q \in Nat /\ Usable * q \in Nat /\ Window * (q + 1) \in Nat
      /\ Usable * (q + 1) \in Nat
  BY <1>2, Envelope, ProductIs
<1>4. NextWindow(u) = Window * (q + 1)
  <2>1. (q + 1) * Window = Window * (q + 1)
    BY Envelope, SMT
  <2> QED
    BY <1>1, <2>1 DEF NextWindow
<1>5. NextWindow(u) % Window = 0
  <2> DEFINE n == NextWindow(u)
  <2>1. n \in Int /\ n = Window * (q + 1) + 0
    BY <1>3, <1>4
  <2> HIDE DEF n
  <2>2. n % Window = 0
    BY <2>1, <1>2, Envelope, QuotientUnique
  <2> QED
    BY <2>2 DEF n
<1>6. Work(NextWindow(u)) = Usable * (q + 1)
  <2>1. Work(Window * (q + 1) + 0) = Usable * (q + 1) + Within(0)
    BY <1>2, WorkIs
  <2>2. Within(0) = 0
    BY Envelope DEF Within
  <2> QED
    BY <1>3, <1>4, <2>1, <2>2
<1>7. Usable * (q + 1) = Usable * q + Usable
  BY Envelope, SMT
<1>8. Work(u) = Usable * q + Within(r)
  BY <1>1, WorkIs
<1>9. r >= Usable => Work(NextWindow(u)) = Work(u)
  BY <1>2, <1>3, <1>6, <1>7, <1>8, Envelope DEF Within
<1>10. r < Usable => Work(u) = Usable * q + r
  BY <1>2, <1>3, <1>8, Envelope DEF Within
<1>11. ASSUME r < Usable, NEW left \in 1 .. Usable - r
       PROVE  EndOf(Work(u) + left) = u + left
  <2>1. r + left - 1 \in 0 .. Usable - 1
    BY <1>2, <1>11, Envelope
  <2>2. EndOf(Usable * q + (r + left - 1) + 1) = Window * q + (r + left - 1) + 1
    BY <2>1, EndIs
  <2>3. Usable * q + (r + left - 1) + 1 = Work(u) + left
    BY <1>2, <1>3, <1>10, <1>11, Envelope
  <2>4. Window * q + (r + left - 1) + 1 = u + left
    BY <1>1, <1>2, <1>3, <1>11, Envelope
  <2> QED
    BY <2>2, <2>3, <2>4
<1> QED
  BY <1>1, <1>2, <1>3, <1>4, <1>5, <1>6, <1>7, <1>9, <1>10, <1>11, Envelope

(* Sets of numbers have a least element.                                    *)
LEMMA LeastOf ==
  ASSUME NEW S, S \subseteq Nat, S # {}
  PROVE  \E x \in S : \A y \in S : x <= y
<1> DEFINE R == OpToRel(<, Nat)
<1>1. IsWellFoundedOn(R, Nat)
  BY NatLessThanWellFounded
<1>2. \E x \in S : \A y \in S : ~(<<y, x>> \in R)
  <2> HIDE DEF R
  <2> QED
    BY <1>1, WFMin
<1>3. PICK x \in S : \A y \in S : ~(<<y, x>> \in R)
  BY <1>2
<1>4. ASSUME NEW y \in S PROVE x <= y
  <2>1. <<y, x>> \in Nat \X Nat
    OBVIOUS
  <2>2. ~(y < x)
    BY <2>1, <1>3 DEF OpToRel
  <2> QED
    BY <2>2
<1> QED
  BY <1>4

(* The loop defines a function: the closed form satisfies its recursion.    *)
LEMMA FinExists == Fin = [at \in Times |-> FinStep(Fin, at)]
<1> DEFINE Closed(u, left) ==
             IF left # 0 THEN EndOf(Work(u) + left)
             ELSE IF u % Window >= Usable THEN NextWindow(u) ELSE u
           G == [at \in Times |-> Closed(at[1], at[2])]
<1>1. ASSUME NEW u \in Nat, NEW left \in Nat
      PROVE  FinStep(G, <<u, left>>) = Closed(u, left)
  <2> DEFINE off == u % Window
             next == NextWindow(u)
  <2>0. /\ next \in Nat /\ next % Window = 0 /\ off \in Nat
        /\ off >= Usable => Work(next) = Work(u)
        /\ off < Usable =>
             /\ Work(next) = Work(u) + (Usable - off)
             /\ \A k \in 1 .. Usable - off : EndOf(Work(u) + k) = u + k
    BY WindowStep
  <2>1. FinStep(G, <<u, left>>) =
          IF off >= Usable THEN G[<<next, left>>]
          ELSE IF left <= Usable - off THEN u + left
          ELSE G[<<next, left - (Usable - off)>>]
    BY DEF FinStep, NextWindow
  <2> HIDE DEF next, off
  <2>2. CASE off >= Usable
    <3>1. G[<<next, left>>] = Closed(next, left)
      BY <2>0 DEF Times
    <3>2. Closed(next, left) = Closed(u, left)
      BY <2>0, <2>2, Envelope DEF off, next
    <3> QED
      BY <2>1, <2>2, <3>1, <3>2
  <2>3. CASE off < Usable /\ left <= Usable - off
    <3>1. FinStep(G, <<u, left>>) = u + left
      BY <2>0, <2>1, <2>3, Envelope
    <3>2. CASE left = 0
      BY <2>0, <2>3, <3>1, <3>2, Envelope DEF off
    <3>3. CASE left # 0
      <4>1. left \in 1 .. Usable - off
        BY <2>0, <2>3, <3>3, Envelope
      <4> QED
        BY <2>0, <2>3, <3>1, <3>3, <4>1
    <3> QED
      BY <3>2, <3>3
  <2>4. CASE off < Usable /\ left > Usable - off
    <3> DEFINE rest == left - (Usable - off)
    <3>1. rest \in Nat \ {0} /\ left # 0
      BY <2>0, <2>4, Envelope
    <3>2. FinStep(G, <<u, left>>) = G[<<next, rest>>]
      BY <2>0, <2>1, <2>4, Envelope
    <3>3. G[<<next, rest>>] = EndOf(Work(next) + rest)
      BY <2>0, <3>1 DEF Times
    <3>4. Work(next) + rest = Work(u) + left
      BY <2>0, <2>4, Envelope, WorkType
    <3> QED
      BY <3>1, <3>2, <3>3, <3>4
  <2> QED
    BY <2>0, <2>2, <2>3, <2>4, Envelope
<1>2. G = [at \in Times |-> FinStep(G, at)]
  <2> HIDE DEF Closed
  <2>1. ASSUME NEW at \in Times PROVE G[at] = FinStep(G, at)
    <3>1. at = <<at[1], at[2]>> /\ at[1] \in Nat /\ at[2] \in Nat
      BY DEF Times
    <3> QED
      BY <3>1, <1>1
  <2> QED
    BY <2>1
<1> HIDE DEF G
<1> QED
  BY <1>2 DEF Fin

(* Work that is begun at u is over when as many usable cycles are.          *)
LEMMA FinIs ==
  ASSUME NEW u \in Nat, NEW left \in Nat \ {0}
  PROVE  Fin[<<u, left>>] = EndOf(Work(u) + left)
<1> DEFINE Wrong ==
             {k \in Nat \ {0} :
                \E x \in Nat : Fin[<<x, k>>] # EndOf(Work(x) + k)}
<1> SUFFICES ASSUME Wrong # {} PROVE FALSE
  OBVIOUS
<1>1. PICK k \in Wrong : \A m \in Wrong : k <= m
  BY LeastOf
<1>2. k \in Nat \ {0}
  OBVIOUS
<1>3. ASSUME NEW x \in Nat, NEW m \in Nat \ {0}, m < k
      PROVE  Fin[<<x, m>>] = EndOf(Work(x) + m)
  BY <1>1, <1>2, <1>3
<1>4. ASSUME NEW x \in Nat
      PROVE  /\ x % Window >= Usable =>
                  Fin[<<x, k>>] = Fin[<<NextWindow(x), k>>]
             /\ x % Window < Usable /\ k <= Usable - (x % Window) =>
                  Fin[<<x, k>>] = x + k
             /\ x % Window < Usable /\ k > Usable - (x % Window) =>
                  Fin[<<x, k>>] =
                    Fin[<<NextWindow(x), k - (Usable - (x % Window))>>]
  <2>1. Fin[<<x, k>>] = FinStep(Fin, <<x, k>>)
    BY <1>2, FinExists DEF Times
  <2>2. x % Window \in Nat
    BY WindowStep
  <2> QED
    BY <1>2, <2>1, <2>2, Envelope DEF FinStep, NextWindow
<1>5. ASSUME NEW x \in Nat, x % Window < Usable
      PROVE  Fin[<<x, k>>] = EndOf(Work(x) + k)
  <2> DEFINE off == x % Window
             next == NextWindow(x)
  <2>0. /\ next \in Nat /\ off \in Nat /\ off < Usable
        /\ Work(next) = Work(x) + (Usable - off)
        /\ \A m \in 1 .. Usable - off : EndOf(Work(x) + m) = x + m
    BY <1>5, WindowStep
  <2> HIDE DEF off, next
  <2>1. CASE k <= Usable - off
    <3>1. Fin[<<x, k>>] = x + k
      BY <1>4, <2>0, <2>1 DEF off, next
    <3>2. k \in 1 .. Usable - off
      BY <1>2, <2>0, <2>1, Envelope
    <3> QED
      BY <2>0, <3>1, <3>2
  <2>2. CASE k > Usable - off
    <3> DEFINE rest == k - (Usable - off)
    <3>1. rest \in Nat \ {0} /\ rest < k
      BY <1>2, <2>0, <2>2, Envelope
    <3>2. Fin[<<x, k>>] = Fin[<<next, rest>>]
      BY <1>4, <2>0, <2>2 DEF off, next
    <3>3. Work(next) + rest = Work(x) + k
      BY <1>2, <2>0, Envelope, WorkType
    <3> HIDE DEF rest
    <3>4. Fin[<<next, rest>>] = EndOf(Work(next) + rest)
      BY <1>3, <2>0, <3>1
    <3> QED
      BY <3>2, <3>3, <3>4
  <2> QED
    BY <1>2, <2>0, <2>1, <2>2, Envelope
<1>6. ASSUME NEW x \in Nat, x % Window >= Usable
      PROVE  Fin[<<x, k>>] = EndOf(Work(x) + k)
  <2>1. /\ NextWindow(x) \in Nat /\ NextWindow(x) % Window = 0
        /\ Work(NextWindow(x)) = Work(x)
    BY <1>6, WindowStep
  <2>2. 0 < Usable
    BY Envelope
  <2>3. Fin[<<NextWindow(x), k>>] = EndOf(Work(NextWindow(x)) + k)
    BY <1>5, <2>1, <2>2
  <2> QED
    BY <1>4, <1>6, <2>1, <2>3
<1>7. ASSUME NEW x \in Nat PROVE Fin[<<x, k>>] = EndOf(Work(x) + k)
  <2>1. x % Window \in Nat /\ Usable \in Nat
    BY WindowStep, Envelope
  <2>2. x % Window < Usable \/ x % Window >= Usable
    BY <2>1
  <2> QED
    BY <1>5, <1>6, <2>2
<1> QED
  BY <1>7

(* advance() in closed form.                                                *)
LEMMA AdvanceIs ==
  ASSUME NEW s \in Nat, NEW w \in Nat \ {0}
  PROVE  Advance(s, w) = EndOf(Work(s) + w)
<1>1. CASE Refresh # 0
  <2>1. Advance(s, w) = Fin[<<s, w>>]
    BY <1>1 DEF Advance, Fin, FinStep, Times
  <2> QED
    BY <2>1, FinIs
<1>2. CASE Refresh = 0
  <2>1. Advance(s, w) = s + w
    BY <1>2 DEF Advance
  <2>2. PICK q \in Nat, r \in 0 .. Window - 1 : s = Window * q + r
    BY PlaceOf
  <2>3. Work(s) = s
    <3>1. Usable = Window /\ r <= Usable
      BY <1>2, Envelope
    <3>2. Within(r) = r
      BY <3>1 DEF Within
    <3> QED
      BY <2>2, <3>1, <3>2, WorkIs
  <2>4. (s + w - 1) \div Usable \in Nat
    <3> DEFINE p == s + w - 1
    <3>1. p \in Nat
      OBVIOUS
    <3> HIDE DEF p
    <3>2. p \div Usable \in Nat
      BY <3>1, Envelope, QuotientIs
    <3> QED
      BY <3>2 DEF p
  <2>5. EndOf(s + w) = s + w
    BY <1>2, <2>4 DEF EndOf
  <2> QED
    BY <2>1, <2>3, <2>5
<1> QED
  BY <1>1, <1>2
---------------------------------------------------------------------------
(* The validator's own reference: one cycle at a time.                      *)
StepOnce(fin, at) ==
  LET u == at[1]
      left == at[2] IN
  IF left = 0 THEN u
  ELSE fin[<<u + 1, IF u % Window < Usable THEN left - 1 ELSE left>>]
Stepped == CHOOSE fin : fin = [at \in Times |-> StepOnce(fin, at)]

(* One cycle is usable or it is not.                                        *)
LEMMA CycleStep ==
  ASSUME NEW u \in Nat
  PROVE  /\ u % Window \in 0 .. Window - 1 /\ u + 1 \in Nat
         /\ (u + 1) % Window =
              IF u % Window = Window - 1 THEN 0 ELSE (u % Window) + 1
         /\ Work(u + 1) = IF u % Window < Usable THEN Work(u) + 1 ELSE Work(u)
         /\ u % Window < Usable => EndOf(Work(u) + 1) = u + 1
<1>1. PICK q \in Nat, r \in 0 .. Window - 1 :
        u = Window * q + r /\ q = u \div Window /\ r = u % Window
  BY PlaceOf
<1>2. u = Window * q + r
  BY <1>1
<1>3. u % Window = r /\ r \in 0 .. Window - 1
  BY <1>1
<1>4. Window * q \in Nat /\ Usable * q \in Nat
  BY Envelope, ProductIs
<1>5. Work(u) = Usable * q + Within(r)
  BY <1>2, WorkIs
<1> DEFINE n == u + 1
<1>6. /\ n % Window = IF r = Window - 1 THEN 0 ELSE r + 1
      /\ Work(n) = IF r < Usable THEN Work(u) + 1 ELSE Work(u)
  <2>1. CASE r # Window - 1
    <3>1. r + 1 \in 0 .. Window - 1
      BY <2>1, Envelope
    <3>2. n \in Int /\ n = Window * q + (r + 1)
      BY <1>2, <1>4, Envelope
    <3>3. Work(Window * q + (r + 1)) = Usable * q + Within(r + 1)
      BY <3>1, WorkIs
    <3> HIDE DEF n
    <3>4. n % Window = r + 1
      BY <3>1, <3>2, Envelope, QuotientUnique
    <3>5. Within(r + 1) = IF r < Usable THEN Within(r) + 1 ELSE Within(r)
      BY Envelope DEF Within
    <3>6. Within(r) \in Nat
      BY Envelope DEF Within
    <3> QED
      BY <1>4, <1>5, <2>1, <3>2, <3>3, <3>4, <3>5, <3>6
  <2>2. CASE r = Window - 1
    <3>1. 0 \in 0 .. Window - 1 /\ q + 1 \in Nat
      BY Envelope
    <3>2. Window * (q + 1) = Window * q + Window
      BY Envelope, SMT
    <3>3. n \in Int /\ n = Window * q + Window
      BY <1>2, <1>4, <2>2, Envelope
    <3>4. Work(Window * (q + 1) + 0) = Usable * (q + 1) + Within(0)
      BY <3>1, WorkIs
    <3> HIDE DEF n
    <3>5. n = Window * (q + 1) + 0 /\ n = Window * (q + 1)
      BY <1>4, <3>2, <3>3, Envelope
    <3>6. n % Window = 0
      BY <3>1, <3>3, <3>5, Envelope, QuotientUnique
    <3>7. Usable * (q + 1) = Usable * q + Usable
      BY Envelope, SMT
    <3>8. /\ Within(0) = 0
          /\ Within(r) = IF r < Usable THEN Usable - 1 ELSE Usable
      BY <2>2, Envelope DEF Within
    <3>9. Work(n) = Usable * q + Usable
      BY <1>4, <3>4, <3>5, <3>7, <3>8, Envelope
    <3> QED
      BY <1>4, <1>5, <2>2, <3>6, <3>8, <3>9, Envelope
  <2> QED
    BY <2>1, <2>2
<1>7. r < Usable => EndOf(Work(u) + 1) = u + 1
  <2> SUFFICES ASSUME r < Usable PROVE EndOf(Work(u) + 1) = u + 1
    OBVIOUS
  <2>1. 1 \in 1 .. Usable - r
    BY <1>3, Envelope
  <2> QED
    BY <1>3, <2>1, WindowStep
<1> QED
  BY <1>3, <1>6, <1>7

(* The closed form satisfies this recursion too.                            *)
LEMMA SteppedExists == Stepped = [at \in Times |-> StepOnce(Stepped, at)]
<1> DEFINE Closed(u, left) == IF left = 0 THEN u ELSE EndOf(Work(u) + left)
           G == [at \in Times |-> Closed(at[1], at[2])]
<1>1. ASSUME NEW u \in Nat, NEW left \in Nat
      PROVE  StepOnce(G, <<u, left>>) = Closed(u, left)
  <2>0. /\ u + 1 \in Nat /\ Work(u) \in Nat
        /\ Work(u + 1) = IF u % Window < Usable THEN Work(u) + 1 ELSE Work(u)
        /\ u % Window < Usable => EndOf(Work(u) + 1) = u + 1
    BY CycleStep, WorkType
  <2>1. CASE left = 0
    BY <2>1 DEF StepOnce
  <2>2. CASE left # 0 /\ u % Window < Usable
    <3>1. StepOnce(G, <<u, left>>) = G[<<u + 1, left - 1>>]
      BY <2>2 DEF StepOnce
    <3>2. left - 1 \in Nat
      BY <2>2
    <3>3. G[<<u + 1, left - 1>>] = Closed(u + 1, left - 1)
      BY <2>0, <3>2 DEF Times
    <3>4. CASE left = 1
      BY <2>0, <2>2, <3>1, <3>3, <3>4
    <3>5. CASE left # 1
      <4>1. Work(u + 1) + (left - 1) = Work(u) + left /\ left - 1 # 0
        BY <2>0, <2>2, <3>5
      <4> QED
        BY <2>2, <3>1, <3>3, <4>1
    <3> QED
      BY <3>4, <3>5
  <2>3. CASE left # 0 /\ ~(u % Window < Usable)
    <3>1. StepOnce(G, <<u, left>>) = G[<<u + 1, left>>]
      BY <2>3 DEF StepOnce
    <3>2. G[<<u + 1, left>>] = Closed(u + 1, left)
      BY <2>0 DEF Times
    <3> QED
      BY <2>0, <2>3, <3>1, <3>2
  <2> QED
    BY <2>1, <2>2, <2>3
<1>2. G = [at \in Times |-> StepOnce(G, at)]
  <2> HIDE DEF Closed
  <2>1. ASSUME NEW at \in Times PROVE G[at] = StepOnce(G, at)
    <3>1. at = <<at[1], at[2]>> /\ at[1] \in Nat /\ at[2] \in Nat
      BY DEF Times
    <3> QED
      BY <3>1, <1>1
  <2> QED
    BY <2>1
<1> HIDE DEF G
<1> QED
  BY <1>2 DEF Stepped

(* And nothing else does: a least amount of work for which it is wrong, and *)
(* of the cycles from which it is the last before a window.                 *)
LEMMA SteppedIs ==
  ASSUME NEW u \in Nat, NEW left \in Nat \ {0}
  PROVE  Stepped[<<u, left>>] = EndOf(Work(u) + left)
<1> DEFINE Right(x, k) == Stepped[<<x, k>>] = EndOf(Work(x) + k)
           Wrong == {k \in Nat \ {0} : \E x \in Nat : ~Right(x, k)}
<1> SUFFICES ASSUME Wrong # {} PROVE FALSE
  OBVIOUS
<1>1. PICK k \in Wrong : \A m \in Wrong : k <= m
  BY LeastOf
<1>2. k \in Nat \ {0} /\ \E x \in Nat : ~Right(x, k)
  OBVIOUS
<1>3. ASSUME NEW x \in Nat, NEW m \in Nat \ {0}, m < k
      PROVE  Right(x, m)
  BY <1>1, <1>2, <1>3
<1> HIDE DEF Right
<1>4. ASSUME NEW x \in Nat, x % Window < Usable PROVE Right(x, k)
  <2>0. /\ x + 1 \in Nat /\ Work(x) \in Nat /\ Work(x + 1) = Work(x) + 1
        /\ EndOf(Work(x) + 1) = x + 1
    BY <1>4, CycleStep, WorkType
  <2>1. Stepped[<<x, k>>] = Stepped[<<x + 1, k - 1>>]
    BY <1>2, <1>4, SteppedExists DEF Times, StepOnce
  <2>2. CASE k = 1
    <3>1. Stepped[<<x + 1, 0>>] = x + 1
      BY <2>0, SteppedExists DEF Times, StepOnce
    <3>2. k - 1 = 0
      BY <2>2
    <3> QED
      BY <2>0, <2>1, <2>2, <3>1, <3>2 DEF Right
  <2>3. CASE k # 1
    <3>1. k - 1 \in Nat \ {0} /\ k - 1 < k
      BY <1>2, <2>3
    <3>2. Right(x + 1, k - 1)
      BY <1>3, <2>0, <3>1
    <3>3. Work(x + 1) + (k - 1) = Work(x) + k
      BY <1>2, <2>0
    <3> QED
      BY <2>1, <3>2, <3>3 DEF Right
  <2> QED
    BY <2>2, <2>3
<1> DEFINE Far == {Window - (x % Window) : x \in {y \in Nat : ~Right(y, k)}}
<1>5. Far \subseteq Nat /\ Far # {}
  <2>1. ASSUME NEW x \in Nat PROVE Window - (x % Window) \in Nat
    <3>1. x % Window \in 0 .. Window - 1
      BY CycleStep
    <3> QED
      BY <3>1, Envelope
  <2> QED
    BY <1>2, <2>1
<1>6. PICK d \in Far : \A e \in Far : d <= e
  <2> HIDE DEF Far
  <2> QED
    BY <1>5, LeastOf
<1>7. PICK x \in Nat : ~Right(x, k) /\ d = Window - (x % Window)
  BY <1>6
<1>8. /\ ~(x % Window < Usable) /\ x % Window \in 0 .. Window - 1
      /\ x + 1 \in Nat /\ Work(x + 1) = Work(x)
      /\ (x + 1) % Window =
           IF x % Window = Window - 1 THEN 0 ELSE (x % Window) + 1
  BY <1>4, <1>7, CycleStep
<1>9. Stepped[<<x, k>>] = Stepped[<<x + 1, k>>]
  BY <1>2, <1>8, SteppedExists DEF Times, StepOnce
<1>10. ~Right(x + 1, k)
  BY <1>7, <1>8, <1>9 DEF Right
<1>11. (x + 1) % Window = (x % Window) + 1
  <2>1. ~((x + 1) % Window < Usable)
    BY <1>4, <1>8, <1>10
  <2> QED
    BY <1>8, <2>1, Envelope
<1>12. d <= Window - ((x + 1) % Window)
  BY <1>6, <1>8, <1>10
<1> QED
  BY <1>7, <1>8, <1>11, <1>12, Envelope

(* The loop of advance() and the cycle-stepping reference agree for every   *)
(* window, refresh, start and amount of work, which the validator tries on  *)
(* samples before it judges anything (model/validate_ldownmax.py:106-126,   *)
(* 159-190).                                                                *)
THEOREM GeometryCorrect ==
  \A start, w \in Nat : Advance(start, w) = AdvanceStepping(start, w)
<1> SUFFICES ASSUME NEW start \in Nat, NEW w \in Nat
             PROVE  Advance(start, w) = AdvanceStepping(start, w)
  OBVIOUS
<1>1. AdvanceStepping(start, w) = Stepped[<<start, w>>]
  BY DEF AdvanceStepping, Stepped, StepOnce, Times
<1>2. CASE w = 0
  <2>1. Stepped[<<start, w>>] = start
    BY <1>2, SteppedExists DEF Times, StepOnce
  <2>2. Advance(start, w) = start
    BY <1>2 DEF Advance
  <2> QED
    BY <1>1, <2>1, <2>2
<1>3. CASE w # 0
  BY <1>1, <1>3, AdvanceIs, SteppedIs
<1> QED
  BY <1>2, <1>3
---------------------------------------------------------------------------
(* Work that is begun with c - 1 usable cycles of window q gone.            *)
LEMMA StallsIn ==
  ASSUME NEW q \in Nat, NEW c \in Nat \ {0}
  PROVE  /\ (c - 1) \div Usable \in Nat
         /\ EndOf(Usable * q + c) =
              Window * q + c + Refresh * ((c - 1) \div Usable)
<1> DEFINE p == c - 1
           k == p \div Usable
           m == p % Usable
<1>1. p \in Nat
  OBVIOUS
<1>2. k \in Nat /\ m \in 0 .. Usable - 1 /\ p = Usable * k + m
  <2> HIDE DEF p
  <2> QED
    BY <1>1, Envelope, QuotientIs
<1> HIDE DEF k, m
<1>3. q + k \in Nat
  BY <1>2
<1>4. EndOf(Usable * (q + k) + m + 1) = Window * (q + k) + m + 1
  BY <1>2, <1>3, EndIs
<1>5. /\ Usable * (q + k) = Usable * q + Usable * k
      /\ Window * (q + k) = Window * q + Usable * k + Refresh * k
  BY <1>2, Envelope, SMT
<1>6. /\ Usable * q \in Nat /\ Usable * k \in Nat /\ Window * q \in Nat
      /\ Refresh * k \in Nat
  BY <1>2, Envelope, ProductIs
<1>7. /\ Usable * (q + k) + m + 1 = Usable * q + c
      /\ Window * (q + k) + m + 1 = Window * q + c + Refresh * k
  BY <1>2, <1>5, <1>6, Envelope
<1> QED
  BY <1>2, <1>4, <1>7 DEF k

(* Work takes its own time and the stalls, and never more stalls than       *)
(* worst_case_stall_inflation charges for.                                  *)
LEMMA StallsOf ==
  ASSUME NEW w \in Nat \ {0}
  PROVE  /\ CeilDiv(w, Usable) = (Usable + w - 1) \div Usable
         /\ CeilDiv(w, Usable) \in Nat \ {0}
         /\ Refresh * CeilDiv(w, Usable) \in Nat
         /\ StallInflation(w) \in Nat
<1> DEFINE p == Usable + w - 1
<1>1. p \in Nat /\ Usable <= p /\ p = w + Usable - 1
  BY Envelope
<1>2. CeilDiv(w, Usable) = p \div Usable
  BY <1>1 DEF CeilDiv
<1> HIDE DEF p
<1>3. Usable \div Usable = 1
  <2>1. Usable = Usable * 1 + 0 /\ 0 \in 0 .. Usable - 1 /\ Usable \in Int
    BY Envelope
  <2> QED
    BY <2>1, Envelope, QuotientUnique
<1>4. p \div Usable \in Nat /\ 1 <= p \div Usable
  BY <1>1, <1>3, Envelope, QuotientGrows
<1>5. Refresh * (p \div Usable) \in Nat
  BY <1>4, Envelope, ProductIs
<1> QED
  BY <1>2, <1>4, <1>5 DEF p, StallInflation

(* No work takes less than its own time, or more than the charged stalls.   *)
LEMMA AdvanceBounds ==
  ASSUME NEW s \in Nat, NEW w \in Nat \ {0}
  PROVE  /\ Advance(s, w) \in Nat
         /\ s + w <= Advance(s, w)
         /\ Advance(s, w) <= s + StallInflation(w)
<1> DEFINE K == CeilDiv(w, Usable)
<1>0. /\ K = (Usable + w - 1) \div Usable /\ K \in Nat \ {0}
      /\ Refresh * K \in Nat /\ StallInflation(w) = w + Refresh * K
  BY StallsOf DEF StallInflation
<1> HIDE DEF K
<1>1. PICK q \in Nat, r \in 0 .. Window - 1 : s = Window * q + r
  BY PlaceOf
<1> DEFINE c == Within(r) + w
<1>2. c \in Nat \ {0} /\ Within(r) \in 0 .. Usable
  BY Envelope DEF Within
<1>3. Window * q \in Nat /\ Usable * q \in Nat
  BY Envelope, ProductIs
<1>4. Work(s) + w = Usable * q + c
  BY <1>1, <1>2, <1>3, WorkIs
<1> DEFINE j == (c - 1) \div Usable
<1>5. j \in Nat /\ EndOf(Usable * q + c) = Window * q + c + Refresh * j
  <2> HIDE DEF c
  <2> QED
    BY <1>2, StallsIn
<1>6. Advance(s, w) = Window * q + c + Refresh * j
  BY <1>4, <1>5, AdvanceIs
<1>7. CASE r <= Usable
  <2>1. Within(r) = r
    BY <1>7 DEF Within
  <2>2. c - 1 \in Nat /\ Usable + w - 1 \in Nat /\ c - 1 <= Usable + w - 1
    BY <1>2, <2>1, Envelope
  <2>3. j <= K
    <3> HIDE DEF c
    <3> DEFINE a == c - 1
               b == Usable + w - 1
    <3>1. a \in Nat /\ b \in Nat /\ a <= b
      BY <2>2
    <3>2. a \div Usable <= b \div Usable
      <4> HIDE DEF a, b
      <4> QED
        BY <3>1, Envelope, QuotientGrows
    <3> QED
      BY <3>2, <1>0
  <2> HIDE DEF j
  <2>4. Refresh * j \in Nat /\ Refresh * j <= Refresh * K
    BY <1>0, <1>5, <2>3, Envelope, ProductIs, ProductGrows
  <2>5. Advance(s, w) = s + w + Refresh * j
    BY <1>1, <1>3, <1>6, <2>1, <2>4, Envelope
  <2> QED
    BY <1>0, <2>4, <2>5
<1>8. CASE r > Usable
  <2>1. Within(r) = Usable
    BY <1>8, Envelope DEF Within
  <2>2. j = K
    BY <1>0, <2>1, Envelope
  <2>3. Advance(s, w) = Window * q + Usable + w + Refresh * K
    BY <1>3, <1>6, <2>1, <2>2, <1>0, Envelope
  <2>4. Refresh * 1 <= Refresh * K
    BY <1>0, Envelope, ProductGrows
  <2>5. r <= Usable + Refresh /\ Refresh * 1 = Refresh
    BY Envelope
  <2> QED
    BY <1>0, <1>1, <1>3, <1>8, <2>3, <2>4, <2>5, Envelope
<1> QED
  BY <1>7, <1>8, Envelope

(* From the first cycle of a stall, or from any if there are none, work     *)
(* takes all that it can take (check_stall_lemma).                          *)
WorstPhase == IF Refresh = 0 THEN 0 ELSE Usable

LEMMA WorstPhaseIs ==
  ASSUME NEW w \in Nat \ {0}
  PROVE  /\ WorstPhase \in 0 .. Window - 1
         /\ Advance(WorstPhase, w) = WorstPhase + StallInflation(w)
<1>1. CASE Refresh = 0
  <2>1. Refresh * CeilDiv(w, Usable) = 0
    BY <1>1, StallsOf
  <2> QED
    BY <1>1, <2>1, Envelope DEF WorstPhase, Advance, StallInflation
<1>2. CASE Refresh # 0
  <2>1. WorstPhase = Usable /\ Usable \in 0 .. Window - 1
    BY <1>2, Envelope DEF WorstPhase
  <2>2. Work(Window * 0 + Usable) = Usable * 0 + Within(Usable)
    BY <2>1, WorkIs
  <2>3. Work(Usable) = Usable
    BY <2>2, Envelope DEF Within
  <2> DEFINE c == Usable + w
  <2>4. c \in Nat \ {0}
    BY Envelope
  <2>5. EndOf(Usable * 0 + c) =
          Window * 0 + c + Refresh * ((c - 1) \div Usable)
    <3> HIDE DEF c
    <3> QED
      BY <2>4, StallsIn
  <2>6. (c - 1) \div Usable = CeilDiv(w, Usable)
    BY StallsOf, Envelope
  <2>7. Advance(Usable, w) = EndOf(c)
    BY <2>3, Envelope, AdvanceIs
  <2> HIDE DEF c
  <2>8. EndOf(c) = c + Refresh * CeilDiv(w, Usable)
    BY <2>4, <2>5, <2>6, Envelope
  <2> QED
    BY <2>1, <2>7, <2>8, StallsOf, Envelope DEF c, StallInflation
<1> QED
  BY <1>1, <1>2

(* What is begun when something is done adds up; what is begun later, or is *)
(* more, is done later.                                                     *)
LEMMA AdvanceAdds ==
  ASSUME NEW s \in Nat, NEW a \in Nat \ {0}, NEW b \in Nat \ {0}
  PROVE  Advance(Advance(s, a), b) = Advance(s, a + b)
<1>1. Work(s) + a \in Nat \ {0} /\ Work(s) \in Nat
  BY WorkType
<1>2. Advance(s, a) = EndOf(Work(s) + a) /\ Advance(s, a) \in Nat
  BY AdvanceIs, AdvanceBounds
<1>3. Work(Advance(s, a)) = Work(s) + a
  BY <1>1, <1>2, WorkOfEnd
<1>4. Advance(Advance(s, a), b) = EndOf(Work(s) + a + b)
  BY <1>2, <1>3, AdvanceIs
<1>5. Advance(s, a + b) = EndOf(Work(s) + (a + b))
  BY AdvanceIs
<1>6. Work(s) + a + b = Work(s) + (a + b)
  BY <1>1
<1> QED
  BY <1>4, <1>5, <1>6

LEMMA AdvanceGrows ==
  ASSUME NEW s \in Nat, NEW x \in Nat, NEW a \in Nat \ {0},
         NEW b \in Nat \ {0}, s <= x, a <= b
  PROVE  Advance(s, a) <= Advance(x, b)
<1>1. Work(s) \in Nat /\ Work(x) \in Nat /\ Work(s) <= Work(x)
  BY WorkType, WorkGrows
<1> DEFINE v == Work(s) + a
           y == Work(x) + b
<1>2. v \in Nat \ {0} /\ y \in Nat \ {0} /\ v <= y
  BY <1>1
<1>3. Advance(s, a) = EndOf(v) /\ Advance(x, b) = EndOf(y)
  BY AdvanceIs
<1> HIDE DEF v, y
<1>4. EndOf(v) \in Nat /\ EndOf(y) \in Nat /\ EndOf(v) + (y - v) <= EndOf(y)
  BY <1>2, WorkOfEnd, EndGrows
<1> QED
  BY <1>2, <1>3, <1>4

LEMMA StallInflationGrows ==
  ASSUME NEW a \in Nat \ {0}, NEW b \in Nat \ {0}, a <= b
  PROVE  StallInflation(a) <= StallInflation(b)
<1> DEFINE p == Usable + a - 1
           y == Usable + b - 1
<1>1. p \in Nat /\ y \in Nat /\ p <= y
  BY Envelope
<1>2. CeilDiv(a, Usable) = p \div Usable /\ CeilDiv(b, Usable) = y \div Usable
  BY StallsOf
<1> HIDE DEF p, y
<1>3. /\ CeilDiv(a, Usable) \in Nat /\ CeilDiv(b, Usable) \in Nat
      /\ CeilDiv(a, Usable) <= CeilDiv(b, Usable)
  BY <1>1, <1>2, Envelope, QuotientGrows
<1>4. Refresh * CeilDiv(a, Usable) <= Refresh * CeilDiv(b, Usable)
  BY <1>3, Envelope, ProductGrows
<1> QED
  BY <1>4, StallsOf DEF StallInflation
---------------------------------------------------------------------------
(* k transactions of a busy period, the last of which takes c: the work in  *)
(* the four readings, and when it is done if it begins at x.                *)
EachCost == IF b_mode = "per_txn" THEN BFixed ELSE 0
Load(k, c) ==
  (IF b_mode = "per_txn" THEN k ELSE 1) * BFixed + (k - 1) * CMax + c
BusyUntil(x, w) ==
  IF r_mode = "periodic" THEN Advance(x, w) ELSE x + w + Refresh

(* One transaction more is its service and its overhead more.               *)
LEMMA LoadIs ==
  ASSUME NEW k \in Nat \ {0}, NEW c \in 1 .. CMax
  PROVE  /\ Load(k, c) \in Nat \ {0}
         /\ Load(1, c) = c + BFixed
         /\ Load(k + 1, c) = Load(k, CMax) + (c + EachCost)
         /\ c + EachCost \in Nat \ {0}
         /\ c \in Nat \ {0}
<1>1. /\ (k - 1) * CMax \in Nat /\ k * BFixed \in Nat
  BY Envelope, ProductIs
<1>2. (k + 1) * BFixed = k * BFixed + BFixed
  BY Envelope, SMT
<1>3. ((k + 1) - 1) * CMax = (k - 1) * CMax + CMax
  BY Envelope, SMT
<1>4. (1 - 1) * CMax = 0 /\ 1 * BFixed = BFixed
  BY Envelope, SMT
<1>5. c \in Nat \ {0}
  BY Envelope
<1>6. CASE b_mode = "per_txn"
  BY <1>1, <1>2, <1>3, <1>4, <1>5, <1>6, Envelope DEF Load, EachCost
<1>7. CASE b_mode # "per_txn"
  BY <1>1, <1>2, <1>3, <1>4, <1>5, <1>7, Envelope DEF Load, EachCost
<1> QED
  BY <1>6, <1>7

LEMMA LoadGrows ==
  ASSUME NEW k \in Nat \ {0}, NEW m \in Nat \ {0}, k <= m,
         NEW c \in 1 .. CMax, NEW d \in 1 .. CMax, c <= d
  PROVE  Load(k, c) <= Load(m, d)
<1>1. CMax * (k - 1) <= CMax * (m - 1) /\ BFixed * k <= BFixed * m
  BY Envelope, ProductGrows
<1>2. /\ CMax * (k - 1) = (k - 1) * CMax /\ CMax * (m - 1) = (m - 1) * CMax
      /\ BFixed * k = k * BFixed /\ BFixed * m = m * BFixed
      /\ 1 * BFixed = BFixed
  BY Envelope, SMT
<1>3. /\ (k - 1) * CMax \in Nat /\ (m - 1) * CMax \in Nat
      /\ k * BFixed \in Nat /\ m * BFixed \in Nat
  BY Envelope, ProductIs
<1>4. CASE b_mode = "per_txn"
  BY <1>1, <1>2, <1>3, <1>4, Envelope DEF Load
<1>5. CASE b_mode # "per_txn"
  BY <1>1, <1>2, <1>3, <1>5, Envelope DEF Load
<1> QED
  BY <1>4, <1>5

(* A busy period takes the time of its work; later or longer ends later.    *)
LEMMA BusyIs ==
  ASSUME NEW x \in Nat, NEW w \in Nat \ {0}
  PROVE  BusyUntil(x, w) \in Nat /\ x + w <= BusyUntil(x, w)
<1>1. Advance(x, w) \in Nat /\ x + w <= Advance(x, w)
  BY AdvanceBounds
<1> QED
  BY <1>1, Envelope DEF BusyUntil

LEMMA BusyGrows ==
  ASSUME NEW x \in Nat, NEW w \in Nat \ {0}, NEW y \in Nat,
         NEW v \in Nat \ {0}, x <= y, w <= v
  PROVE  BusyUntil(x, w) <= BusyUntil(y, v)
<1>1. Advance(x, w) <= Advance(y, v)
  BY AdvanceGrows
<1> QED
  BY <1>1, Envelope DEF BusyUntil
---------------------------------------------------------------------------
LEMMA LaterOf ==
  ASSUME NEW a \in Nat, NEW b \in Nat
  PROVE  Max({a, b}) = IF a >= b THEN a ELSE b
BY DEF Max

(* A transaction into an idle server begins a busy period.                  *)
LEMMA ServedIdle ==
  ASSUME NEW free \in Nat, NEW acc \in Nat, free <= acc, NEW c \in 1 .. CMax
  PROVE  Served(free, acc, c) = BusyUntil(acc, Load(1, c))
<1>1. Max({acc, free}) = acc
  BY LaterOf
<1>2. Load(1, c) = c + BFixed /\ c \in Nat
  BY LoadIs, Envelope
<1> QED
  BY <1>1, <1>2, Envelope DEF Served, BusyUntil

(* A transaction into a busy server adds to what it is busy with.           *)
LEMMA ServedBusy ==
  ASSUME NEW free \in Nat, NEW acc \in Nat, acc < free, NEW c \in 1 .. CMax
  PROVE  /\ Served(free, acc, c) =
              IF r_mode = "periodic" THEN Advance(free, c + EachCost)
              ELSE free + (c + EachCost)
         /\ Served(free, acc, c) \in Nat /\ free < Served(free, acc, c)
<1>1. Max({acc, free}) = free
  BY LaterOf
<1>2. c + EachCost \in Nat \ {0}
  BY LoadIs
<1>3. Served(free, acc, c) =
        IF r_mode = "periodic" THEN Advance(free, c + EachCost)
        ELSE free + (c + EachCost)
  <2>1. ~(free <= acc)
    OBVIOUS
  <2>2. free + (c + EachCost) + 0 = free + (c + EachCost)
    BY <1>2
  <2> QED
    BY <1>1, <2>1, <2>2 DEF Served, EachCost
<1>4. /\ Advance(free, c + EachCost) \in Nat
      /\ free + (c + EachCost) <= Advance(free, c + EachCost)
  BY <1>2, AdvanceBounds
<1> QED
  BY <1>2, <1>3, <1>4

(* What was due within k transactions is due within k + 1.                  *)
LEMMA ServedAdds ==
  ASSUME NEW free \in Nat, NEW acc \in Nat, acc < free, NEW c \in 1 .. CMax,
         NEW x \in Nat, NEW k \in Nat \ {0}
  PROVE  /\ free <= BusyUntil(x, Load(k, CMax)) =>
              Served(free, acc, c) <= BusyUntil(x, Load(k + 1, c))
         /\ free = BusyUntil(x, Load(k, CMax)) =>
              Served(free, acc, c) = BusyUntil(x, Load(k + 1, c))
         /\ free <= x =>
              Served(free, acc, c) <= BusyUntil(x, Load(1, c))
<1> DEFINE w == Load(k, CMax)
           e == c + EachCost
<1>1. CMax \in 1 .. CMax
  BY Envelope
<1>2. w \in Nat \ {0} /\ e \in Nat \ {0} /\ Load(k + 1, c) = w + e
  BY <1>1, LoadIs
<1>3. Load(1, c) \in Nat \ {0} /\ e <= Load(1, c)
  BY LoadIs, Envelope DEF EachCost
<1>4. /\ Served(free, acc, c) =
           IF r_mode = "periodic" THEN Advance(free, e) ELSE free + e
      /\ Served(free, acc, c) \in Nat
  BY ServedBusy
<1> HIDE DEF w, e
<1>5. CASE r_mode = "periodic"
  <2>1. Advance(Advance(x, w), e) = Advance(x, w + e) /\ Advance(x, w) \in Nat
    BY <1>2, AdvanceAdds, AdvanceBounds
  <2>2. free <= Advance(x, w) => Advance(free, e) <= Advance(Advance(x, w), e)
    BY <1>2, <2>1, AdvanceGrows
  <2>3. free <= x => Advance(free, e) <= Advance(x, Load(1, c))
    BY <1>2, <1>3, AdvanceGrows
  <2> QED
    BY <1>2, <1>4, <1>5, <2>1, <2>2, <2>3 DEF BusyUntil, w
<1>6. CASE r_mode # "periodic"
  BY <1>2, <1>3, <1>4, <1>6, Envelope DEF BusyUntil, w
<1> QED
  BY <1>5, <1>6
---------------------------------------------------------------------------
(* The transactions that go ahead: the function of AfterBlockers, one       *)
(* transaction longer each time.                                            *)
Ahead(f, n, free, acc) ==
  f = [i \in 0 .. n |-> IF i = 0 THEN free ELSE Served(f[i - 1], acc, CMax)]

LEMMA AheadGrows ==
  ASSUME NEW f, NEW n \in Nat, NEW free, NEW acc, Ahead(f, n, free, acc)
  PROVE  \E g : Ahead(g, n + 1, free, acc)
<1> DEFINE last1 == Served(f[n], acc, CMax)
           g == [i \in 0 .. n + 1 |-> IF i <= n THEN f[i] ELSE last1]
<1>1. \A i \in 0 .. n :
        f[i] = IF i = 0 THEN free ELSE Served(f[i - 1], acc, CMax)
  BY DEF Ahead
<1>2. ASSUME NEW i \in 0 .. n + 1
      PROVE  g[i] = IF i = 0 THEN free ELSE Served(g[i - 1], acc, CMax)
  <2>1. CASE i <= n
    <3>1. i \in 0 .. n /\ (i # 0 => i - 1 \in 0 .. n + 1 /\ i - 1 <= n)
      BY <2>1
    <3>2. g[i] = f[i] /\ (i # 0 => g[i - 1] = f[i - 1])
      BY <2>1, <3>1
    <3> HIDE DEF g
    <3> QED
      BY <1>1, <3>1, <3>2
  <2>2. CASE i = n + 1
    <3>1. i # 0 /\ i - 1 = n /\ n \in 0 .. n + 1 /\ ~(i <= n)
      BY <2>2
    <3>2. g[i] = last1 /\ g[i - 1] = f[n]
      BY <3>1
    <3> HIDE DEF g
    <3> QED
      BY <3>1, <3>2
  <2> QED
    BY <2>1, <2>2
<1>3. g = [i \in 0 .. n + 1 |->
             IF i = 0 THEN free ELSE Served(g[i - 1], acc, CMax)]
  <2>1. g = [i \in 0 .. n + 1 |-> g[i]]
    OBVIOUS
  <2> HIDE DEF g
  <2> QED
    BY <1>2, <2>1
<1> HIDE DEF g
<1> QED
  BY <1>3 DEF Ahead

LEMMA AheadExists ==
  ASSUME NEW n \in Nat, NEW free, NEW acc
  PROVE  \E f : Ahead(f, n, free, acc)
<1> DEFINE None == {m \in Nat : ~\E f : Ahead(f, m, free, acc)}
<1> SUFFICES ASSUME None # {} PROVE FALSE
  OBVIOUS
<1>1. None \subseteq Nat
  OBVIOUS
<1>2. PICK m \in None : \A k \in None : m <= k
  <2> HIDE DEF None
  <2> QED
    BY <1>1, LeastOf
<1>3. m \in Nat /\ ~\E f : Ahead(f, m, free, acc)
  OBVIOUS
<1>4. CASE m = 0
  <2> DEFINE f == [i \in 0 .. 0 |-> free]
  <2>1. f = [i \in 0 .. 0 |->
               IF i = 0 THEN free ELSE Served(f[i - 1], acc, CMax)]
    OBVIOUS
  <2> HIDE DEF f
  <2> QED
    BY <1>3, <1>4, <2>1 DEF Ahead
<1>5. CASE m # 0
  <2>1. m - 1 \in Nat /\ (m - 1) + 1 = m /\ ~(m <= m - 1)
    BY <1>3, <1>5
  <2>2. PICK f : Ahead(f, m - 1, free, acc)
    BY <1>2, <2>1
  <2>3. \E g : Ahead(g, (m - 1) + 1, free, acc)
    BY <2>1, <2>2, AheadGrows
  <2> QED
    BY <1>3, <2>1, <2>3
<1> QED
  BY <1>4, <1>5

(* The shorter function is the beginning of the longer one.                 *)
LEMMA AheadAgree ==
  ASSUME NEW n \in Nat, NEW m \in Nat, NEW free, NEW acc, NEW f, NEW g,
         Ahead(f, n, free, acc), Ahead(g, m, free, acc),
         NEW i \in Nat, i <= n, i <= m
  PROVE  f[i] = g[i]
<1> DEFINE Differ == {k \in Nat : k <= n /\ k <= m /\ f[k] # g[k]}
<1> SUFFICES ASSUME Differ # {} PROVE FALSE
  OBVIOUS
<1>1. Differ \subseteq Nat
  OBVIOUS
<1>2. PICK k \in Differ : \A j \in Differ : k <= j
  <2> HIDE DEF Differ
  <2> QED
    BY <1>1, LeastOf
<1>3. k \in Nat /\ k <= n /\ k <= m /\ f[k] # g[k]
  OBVIOUS
<1>4. /\ f[k] = IF k = 0 THEN free ELSE Served(f[k - 1], acc, CMax)
      /\ g[k] = IF k = 0 THEN free ELSE Served(g[k - 1], acc, CMax)
  <2>1. k \in 0 .. n /\ k \in 0 .. m
    BY <1>3
  <2> QED
    BY <2>1 DEF Ahead
<1>5. k # 0
  BY <1>3, <1>4
<1>6. k - 1 \in Nat /\ k - 1 <= n /\ k - 1 <= m /\ ~(k <= k - 1)
  BY <1>3, <1>5
<1>7. f[k - 1] = g[k - 1]
  BY <1>2, <1>6
<1> QED
  BY <1>3, <1>4, <1>7

(* AfterBlockers, one transaction at a time.                                *)
LEMMA BlockersAre ==
  ASSUME NEW free, NEW acc, NEW n \in Nat
  PROVE  /\ AfterBlockers(free, acc, 0) = free
         /\ AfterBlockers(free, acc, n + 1) =
              Served(AfterBlockers(free, acc, n), acc, CMax)
<1> DEFINE F(m) == CHOOSE f : Ahead(f, m, free, acc)
<1>1. ASSUME NEW m \in Nat
      PROVE  AfterBlockers(free, acc, m) = F(m)[m] /\ Ahead(F(m), m, free, acc)
  BY <1>1, AheadExists DEF AfterBlockers, Ahead
<1> HIDE DEF F
<1>2. ASSUME NEW m \in Nat, NEW i \in 0 .. m
      PROVE  F(m)[i] = IF i = 0 THEN free ELSE Served(F(m)[i - 1], acc, CMax)
  BY <1>1 DEF Ahead
<1>3. AfterBlockers(free, acc, 0) = free
  BY <1>1, <1>2
<1>4. n + 1 \in Nat /\ n + 1 \in 0 .. n + 1 /\ (n + 1) - 1 = n /\ n + 1 # 0
      /\ n <= n + 1
  OBVIOUS
<1>5. F(n + 1)[n] = F(n)[n]
  BY <1>1, <1>4, AheadAgree
<1>6. F(n + 1)[n + 1] = Served(F(n + 1)[n], acc, CMax)
  BY <1>2, <1>4
<1> QED
  BY <1>1, <1>3, <1>4, <1>5, <1>6

(* m transactions outstanding, if any, and n that go ahead: the transaction *)
(* behind them is done before m + n + 1 of a busy period that begins when   *)
(* it is accepted, and then exactly if nothing was outstanding.             *)
Outstanding(free, acc, m) ==
  /\ m = 0 => free <= acc
  /\ m # 0 => acc < free /\ free <= BusyUntil(acc, Load(m, CMax))

Behind(after, free, acc, m, n) ==
  /\ after \in Nat
  /\ m + n = 0 => after = free
  /\ m + n # 0 => /\ acc < after /\ free <= after
                  /\ after <= BusyUntil(acc, Load(m + n, CMax))
                  /\ m = 0 => after = BusyUntil(acc, Load(n, CMax))

LEMMA BehindBlockers ==
  ASSUME NEW free \in Nat, NEW acc \in Nat, NEW m \in Nat, NEW n \in Nat,
         Outstanding(free, acc, m)
  PROVE  Behind(AfterBlockers(free, acc, n), free, acc, m, n)
<1> DEFINE after(k) == AfterBlockers(free, acc, k)
           Good(k) == Behind(after(k), free, acc, m, k)
           Bad == {k \in Nat : ~Good(k)}
<1> SUFFICES ASSUME Bad # {} PROVE FALSE
  OBVIOUS
<1>1. Bad \subseteq Nat
  OBVIOUS
<1>2. PICK k \in Bad : \A j \in Bad : k <= j
  <2> HIDE DEF Bad
  <2> QED
    BY <1>1, LeastOf
<1>3. k \in Nat /\ ~Good(k)
  OBVIOUS
<1>4. k # 0
  <2>1. after(0) = free
    BY BlockersAre
  <2>2. Good(0)
    <3> HIDE DEF after
    <3> QED
      BY <2>1 DEF Behind, Outstanding
  <2> QED
    BY <1>3, <2>2
<1> DEFINE j == k - 1
<1>5. j \in Nat /\ k = j + 1 /\ ~(k <= j)
  BY <1>3, <1>4
<1>6. Good(j)
  <2> HIDE DEF Good, j
  <2> QED
    BY <1>2, <1>5
<1>7. after(k) = Served(after(j), acc, CMax)
  <2> HIDE DEF j
  <2> QED
    BY <1>5, BlockersAre
<1> HIDE DEF j, after
<1>8. CMax \in 1 .. CMax
  BY Envelope
<1>9. CASE m + j = 0
  <2>1. m = 0 /\ k = 1 /\ after(j) = free /\ free <= acc
    BY <1>5, <1>6, <1>9 DEF Behind, Outstanding
  <2>2. after(k) = BusyUntil(acc, Load(1, CMax))
    BY <1>7, <1>8, <2>1, ServedIdle
  <2>3. Load(1, CMax) \in Nat \ {0}
    BY <1>8, LoadIs
  <2>4. after(k) \in Nat /\ acc < after(k)
    <3> DEFINE w == Load(1, CMax)
    <3> HIDE DEF w
    <3>1. BusyUntil(acc, w) \in Nat /\ acc + w <= BusyUntil(acc, w)
      BY <2>3, BusyIs DEF w
    <3> QED
      BY <2>2, <2>3, <3>1 DEF w
  <2>5. m + k = 1
    BY <2>1
  <2> QED
    BY <1>3, <2>1, <2>2, <2>4, <2>5 DEF Behind
<1>10. CASE m + j # 0
  <2>1. /\ acc < after(j) /\ free <= after(j) /\ after(j) \in Nat
        /\ after(j) <= BusyUntil(acc, Load(m + j, CMax))
        /\ m = 0 => after(j) = BusyUntil(acc, Load(j, CMax))
    BY <1>6, <1>10 DEF Behind
  <2>2. m + j \in Nat \ {0} /\ m + k = (m + j) + 1 /\ (m = 0 => m + j = j)
    BY <1>5, <1>10
  <2>3. after(k) \in Nat /\ after(j) < after(k)
    BY <1>7, <1>8, <2>1, ServedBusy
  <2>4. after(k) <= BusyUntil(acc, Load(m + k, CMax))
    BY <1>7, <1>8, <2>1, <2>2, ServedAdds
  <2>5. m = 0 => after(k) = BusyUntil(acc, Load(k, CMax))
    BY <1>5, <1>7, <1>8, <2>1, <2>2, ServedAdds
  <2>6. m + k # 0 /\ free <= after(k) /\ acc < after(k)
    BY <1>5, <2>1, <2>3
  <2> QED
    BY <1>3, <2>3, <2>4, <2>5, <2>6 DEF Behind
<1> QED
  BY <1>9, <1>10

(* And the transaction itself behind them.                                  *)
LEMMA ServedBehind ==
  ASSUME NEW free \in Nat, NEW acc \in Nat, NEW m \in Nat, NEW n \in Nat,
         Outstanding(free, acc, m), NEW c \in 1 .. CMax, NEW fin,
         fin = Served(AfterBlockers(free, acc, n), acc, c)
  PROVE  /\ fin \in Nat /\ acc < fin /\ free < fin
         /\ fin <= BusyUntil(acc, Load(m + n + 1, c))
         /\ m = 0 => fin = BusyUntil(acc, Load(n + 1, c))
<1> DEFINE after == AfterBlockers(free, acc, n)
<1>1. Behind(after, free, acc, m, n) /\ fin = Served(after, acc, c)
  BY BehindBlockers
<1> HIDE DEF after
<1>2. CASE m + n = 0
  <2>1. m = 0 /\ n = 0 /\ free <= acc /\ m + n + 1 = 1 /\ n + 1 = 1
        /\ after = free
    BY <1>1, <1>2 DEF Outstanding, Behind
  <2>2. fin = BusyUntil(acc, Load(1, c))
    BY <1>1, <2>1, ServedIdle
  <2> DEFINE w == Load(1, c)
  <2>3. w \in Nat \ {0}
    BY LoadIs
  <2> HIDE DEF w
  <2>4. BusyUntil(acc, w) \in Nat /\ acc + w <= BusyUntil(acc, w)
    BY <2>3, BusyIs
  <2>5. fin = BusyUntil(acc, w)
    BY <2>2 DEF w
  <2>6. fin <= BusyUntil(acc, Load(m + n + 1, c))
        /\ fin = BusyUntil(acc, Load(n + 1, c))
    BY <2>1, <2>4, <2>5 DEF w
  <2> QED
    BY <2>1, <2>3, <2>4, <2>5, <2>6
<1>3. CASE m + n # 0
  <2>1. m + n \in Nat \ {0} /\ (m = 0 => m + n = n)
    BY <1>3
  <2>2. /\ acc < after /\ free <= after /\ after \in Nat
        /\ after <= BusyUntil(acc, Load(m + n, CMax))
        /\ m = 0 => after = BusyUntil(acc, Load(n, CMax))
    BY <1>1, <1>3 DEF Behind
  <2>3. fin \in Nat /\ after < fin
    BY <1>1, <2>2, ServedBusy
  <2>4. fin <= BusyUntil(acc, Load((m + n) + 1, c))
    BY <1>1, <2>1, <2>2, ServedAdds
  <2>5. m = 0 => fin = BusyUntil(acc, Load(n + 1, c))
    BY <1>1, <2>1, <2>2, ServedAdds
  <2> QED
    BY <2>2, <2>3, <2>4, <2>5
<1> QED
  BY <1>2, <1>3
---------------------------------------------------------------------------
(* The corrected bound is for the work of a full window and what goes ahead.*)
LEMMA CorrectedIs ==
  ASSUME NEW c \in 1 .. CMax, NEW n \in Nat
  PROVE  /\ MaxOutstanding + n \in Nat \ {0}
         /\ CorrectedBound(c, n) =
              IF r_mode = "periodic"
              THEN StallInflation(Load(MaxOutstanding + n, c))
              ELSE Load(MaxOutstanding + n, c) + Refresh
<1>1. (MaxOutstanding + n) - 1 = MaxOutstanding - 1 + n
  BY Envelope
<1>2. Overheads(n) * BFixed + (MaxOutstanding - 1 + n) * CMax + c =
        Load(MaxOutstanding + n, c)
  BY <1>1 DEF Overheads, Load
<1> QED
  BY <1>2, Envelope DEF CorrectedBound

(* Whenever the busy period begins it is over within the bound, and from    *)
(* the worst phase it takes all of it.                                      *)
LEMMA BusyWithinBound ==
  ASSUME NEW c \in 1 .. CMax, NEW n \in Nat, NEW x \in Nat
  PROVE  LET busy == BusyUntil(x, Load(MaxOutstanding + n, c)) IN
         /\ busy \in Nat /\ CorrectedBound(c, n) \in Nat
         /\ busy <= x + CorrectedBound(c, n)
         /\ x = WorstPhase => busy = x + CorrectedBound(c, n)
<1> DEFINE w == Load(MaxOutstanding + n, c)
<1>1. /\ w \in Nat \ {0}
      /\ CorrectedBound(c, n) =
           IF r_mode = "periodic" THEN StallInflation(w) ELSE w + Refresh
  BY CorrectedIs, LoadIs
<1> HIDE DEF w
<1>2. /\ Advance(x, w) \in Nat /\ Advance(x, w) <= x + StallInflation(w)
      /\ StallInflation(w) \in Nat
      /\ x = WorstPhase => Advance(x, w) = x + StallInflation(w)
  BY <1>1, AdvanceBounds, StallsOf, WorstPhaseIs
<1>3. /\ BusyUntil(x, w) \in Nat /\ CorrectedBound(c, n) \in Nat
      /\ BusyUntil(x, w) <= x + CorrectedBound(c, n)
      /\ x = WorstPhase => BusyUntil(x, w) = x + CorrectedBound(c, n)
  BY <1>1, <1>2, Envelope DEF BusyUntil
<1> QED
  BY <1>3 DEF w

(* The adversarial construction attains the bound, and nothing more.        *)
LEMMA BoundIsAttained ==
  ASSUME NEW c \in 1 .. CMax, NEW n \in Nat
  PROVE  CorrectedBound(c, n) =
           Max({Adversarial(t0, c, n) : t0 \in 0 .. Window - 1})
<1> DEFINE b == CorrectedBound(c, n)
           S == {Adversarial(t0, c, n) : t0 \in 0 .. Window - 1}
           k == MaxOutstanding - 1 + n
<1>1. k \in Nat /\ k + 1 = MaxOutstanding + n
  BY Envelope
<1>2. ASSUME NEW t0 \in 0 .. Window - 1
      PROVE  /\ Adversarial(t0, c, n) \in Int /\ b \in Int
             /\ Adversarial(t0, c, n) <= b
             /\ t0 = WorstPhase => Adversarial(t0, c, n) = b
  <2> DEFINE fin == Served(AfterBlockers(t0, t0, k), t0, c)
  <2>1. t0 \in Nat /\ 0 \in Nat /\ Outstanding(t0, t0, 0)
    BY Envelope DEF Outstanding
  <2>2. fin \in Nat /\ fin = BusyUntil(t0, Load(k + 1, c))
    <3>1. fin = Served(AfterBlockers(t0, t0, k), t0, c)
      OBVIOUS
    <3> HIDE DEF k, fin
    <3> QED
      BY <1>1, <2>1, <3>1, ServedBehind
  <2>3. /\ fin <= t0 + b /\ b \in Nat
        /\ t0 = WorstPhase => fin = t0 + b
    BY <1>1, <2>1, <2>2, BusyWithinBound
  <2>4. Adversarial(t0, c, n) = fin - t0
    BY DEF Adversarial
  <2> HIDE DEF fin, b
  <2> QED
    BY <2>1, <2>2, <2>3, <2>4
<1>3. WorstPhase \in 0 .. Window - 1
  BY Envelope DEF WorstPhase
<1>4. b \in S /\ b \in Int /\ \A x \in S : x <= b /\ x \in Int
  <2> HIDE DEF b
  <2>1. Adversarial(WorstPhase, c, n) = b /\ b \in Int
    BY <1>2, <1>3
  <2>2. b \in S
    BY <1>3, <2>1
  <2>3. ASSUME NEW x \in S PROVE x <= b /\ x \in Int
    <3>1. PICK t0 \in 0 .. Window - 1 : x = Adversarial(t0, c, n)
      OBVIOUS
    <3> QED
      BY <1>2, <3>1
  <2> QED
    BY <2>1, <2>2, <2>3
<1> HIDE DEF b, S
<1>5. b = Max(S)
  <2> DEFINE m == Max(S)
  <2>1. m \in S /\ \A x \in S : m >= x
    BY <1>4 DEF Max
  <2> HIDE DEF m
  <2>2. m \in Int /\ m <= b /\ m >= b
    BY <1>4, <2>1
  <2>3. m = b
    BY <1>4, <2>2
  <2> QED
    BY <2>3 DEF m
<1> QED
  BY <1>5 DEF b, S
---------------------------------------------------------------------------
(* What is outstanding is in order of completion, the server is free with   *)
(* the last of it, and it is due after the last acceptance.                 *)
Ascending(s) == \A i, j \in 1 .. Len(s) : i < j => s[i] < s[j]

Orderly ==
  /\ t \in Nat /\ server_free \in Nat /\ pending \in Seq(Nat)
  /\ last \in [accept : Nat, svc : Nat, finish : Nat, jumped : Nat]
  /\ Ascending(pending) /\ Len(pending) <= MaxOutstanding
  /\ IF pending = <<>> THEN server_free <= t
     ELSE server_free = pending[Len(pending)]
  /\ \A i \in 1 .. Len(pending) : last.accept < pending[i]
  /\ last.accept <= t \/ Len(pending) = MaxOutstanding

(* From any cycle at which the first i - 1 are over, the rest is a busy     *)
(* period of so many of the longest transactions, or less.                  *)
Backlog ==
  \A i \in 1 .. Len(pending), x \in Nat :
    last.accept <= x /\ (i > 1 => pending[i - 1] <= x) =>
      server_free <= BusyUntil(x, Load(Len(pending) - i + 1, CMax))

(* The last transaction kept the bound.                                     *)
Bounded ==
  last # NoTxn =>
    /\ last.svc \in 1 .. CMax
    /\ last.finish - last.accept <= CorrectedBound(last.svc, last.jumped)

QueueInv == Orderly /\ (last.jumped = 0 => Backlog) /\ Bounded

(* What leaves by cycle "at" is the first k of them.                        *)
Leaves(k, at) ==
  /\ k \in 0 .. Len(pending)
  /\ StillPending(at) = SubSeq(pending, k + 1, Len(pending))
  /\ \A i \in 1 .. k : pending[i] <= at
  /\ \A i \in k + 1 .. Len(pending) : at < pending[i]

(* What is over is a beginning of what is outstanding.                      *)
LEMMA SomeLeave ==
  ASSUME Orderly, NEW at \in Nat
  PROVE  \E k : Leaves(k, at)
<1> DEFINE n == Len(pending)
           Later == {i \in 1 .. n + 1 : i = n + 1 \/ at < pending[i]}
<1>1. n \in Nat /\ \A i \in 1 .. n : pending[i] \in Nat
  BY DEF Orderly
<1>2. \A i, j \in 1 .. n : i < j => pending[i] < pending[j]
  BY DEF Orderly, Ascending
<1>3. DOMAIN pending = 1 .. n
  BY DEF Orderly
<1> HIDE DEF n
<1>4. Later \subseteq Nat /\ n + 1 \in Later
  BY <1>1
<1>5. PICK f \in Later : \A j \in Later : f <= j
  <2> HIDE DEF Later
  <2> QED
    BY <1>4, LeastOf
<1> DEFINE k == f - 1
<1>6. k \in 0 .. n /\ f = k + 1
  BY <1>1
<1>7. \A i \in 1 .. k : pending[i] <= at
  <2> SUFFICES ASSUME NEW i \in 1 .. k, ~(pending[i] <= at) PROVE FALSE
    OBVIOUS
  <2>1. i \in 1 .. n + 1 /\ i \in 1 .. n /\ i < f
    BY <1>1, <1>6
  <2>2. at < pending[i]
    BY <1>1, <2>1
  <2> QED
    BY <1>1, <1>5, <2>1, <2>2
<1>8. \A i \in k + 1 .. n : at < pending[i]
  <2> SUFFICES ASSUME NEW i \in k + 1 .. n PROVE at < pending[i]
    OBVIOUS
  <2>1. i \in 1 .. n /\ f <= i /\ f \in 1 .. n /\ at < pending[f]
    BY <1>1, <1>6
  <2> QED
    BY <1>1, <1>2, <2>1
<1> HIDE DEF k
<1>9. {i \in DOMAIN pending : \A j \in 1 .. i : pending[j] <= at} = 1 .. k
  <2>1. ASSUME NEW i \in 1 .. k
        PROVE  i \in 1 .. n /\ \A j \in 1 .. i : pending[j] <= at
    BY <1>1, <1>6, <1>7
  <2>2. ASSUME NEW i \in 1 .. n, \A j \in 1 .. i : pending[j] <= at
        PROVE  i \in 1 .. k
    <3> SUFFICES ASSUME i > k PROVE FALSE
      BY <1>1, <1>6
    <3>1. i \in k + 1 .. n /\ i \in 1 .. i /\ pending[i] \in Nat
      BY <1>1, <1>6
    <3> QED
      BY <1>8, <2>2, <3>1
  <2> QED
    BY <1>3, <2>1, <2>2
<1>10. Cardinality(1 .. k) = k
  <2>1. k \in Nat /\ 1 \in Int /\ k \in Int /\ k - 1 + 1 = k
    BY <1>1, <1>6
  <2>2. Cardinality(1 .. k) = IF 1 > k THEN 0 ELSE k - 1 + 1
    BY <2>1, FS_Interval
  <2> QED
    BY <2>1, <2>2
<1>11. StillPending(at) = SubSeq(pending, k + 1, n)
  BY <1>9, <1>10 DEF StillPending, n
<1> QED
  BY <1>6, <1>7, <1>8, <1>11 DEF Leaves, n

(* An arrival is accepted when there is room for it, never before the last  *)
(* one was; and at once, or when the window is full again with it.          *)
LEMMA AcceptIs ==
  ASSUME Orderly, NEW a \in Nat, t <= a, NEW acc, acc = AcceptAt(a)
  PROVE  /\ acc \in Nat /\ a <= acc /\ last.accept <= acc
         /\ \E k : /\ Leaves(k, acc)
                   /\ Len(pending) - k <= MaxOutstanding - 1
                   /\ acc = a \/ Len(pending) - k = MaxOutstanding - 1
<1> DEFINE n == Len(pending)
<1>1. /\ n \in Nat /\ n <= MaxOutstanding /\ t \in Nat /\ last.accept \in Nat
      /\ \A i \in 1 .. n : pending[i] \in Nat /\ last.accept < pending[i]
      /\ last.accept <= t \/ n = MaxOutstanding
  BY DEF Orderly
<1>2. \A i, j \in 1 .. n : i < j => pending[i] < pending[j]
  BY DEF Orderly, Ascending
<1>3. PICK k : Leaves(k, a)
  BY SomeLeave
<1>4. /\ k \in 0 .. n /\ StillPending(a) = SubSeq(pending, k + 1, n)
      /\ \A i \in 1 .. k : pending[i] <= a
      /\ \A i \in k + 1 .. n : a < pending[i]
  BY <1>3 DEF Leaves
<1>5. /\ Len(StillPending(a)) = n - k
      /\ k < n => StillPending(a)[1] = pending[k + 1]
  <2> DEFINE kept == SubSeq(pending, k + 1, n)
             m == n - k
  <2>1. k + 1 \in Int /\ n \in Int /\ pending \in Seq(Nat) /\ k + 1 >= 1
    BY <1>1, <1>4 DEF Orderly
  <2>2. m \in Nat /\ n - (k + 1) + 1 = m /\ n = Len(pending)
    BY <1>1, <1>4
  <2> HIDE DEF n, m
  <2>3. kept = [i \in 1 .. m |-> pending[i + (k + 1) - 1]]
    BY <1>4, <2>1, <2>2
  <2>4. ASSUME NEW i \in 1 .. m
        PROVE  kept[i] = pending[k + i] /\ pending[k + i] \in Nat
    <3>1. i + (k + 1) - 1 = k + i /\ k + i \in 1 .. n
      BY <1>1, <1>4, <2>2 DEF m
    <3> QED
      BY <1>1, <2>3, <3>1
  <2>5. kept \in [1 .. m -> Nat] /\ DOMAIN kept = 1 .. m
    <3> HIDE DEF kept
    <3> QED
      BY <2>3, <2>4
  <2> HIDE DEF kept
  <2>6. Len(kept) = m
    BY <2>2, <2>5
  <2>7. k < n => kept[1] = pending[k + 1]
    <3>1. k < n => 1 \in 1 .. m
      BY <1>1, <1>4, <2>2 DEF m
    <3> QED
      BY <2>4, <3>1
  <2> QED
    BY <1>4, <2>6, <2>7 DEF kept, m
<1>6. CASE n - k < MaxOutstanding
  <2>1. acc = a
    BY <1>1, <1>4, <1>5, <1>6, Envelope DEF AcceptAt
  <2>2. last.accept <= a
    <3> SUFFICES ASSUME a < last.accept PROVE FALSE
      BY <1>1
    <3>1. n = MaxOutstanding /\ k # 0
      BY <1>1, <1>4, <1>6
    <3>2. 1 \in 1 .. k /\ 1 \in 1 .. n
      BY <1>1, <1>4, <3>1
    <3>3. pending[1] <= a /\ last.accept < pending[1] /\ pending[1] \in Nat
      BY <1>1, <1>4, <3>2
    <3> QED
      BY <1>1, <3>3
  <2>3. n - k <= MaxOutstanding - 1
    BY <1>1, <1>4, <1>6, Envelope
  <2> QED
    BY <1>3, <2>1, <2>2, <2>3
<1>7. CASE n - k >= MaxOutstanding
  <2>1. k = 0 /\ n = MaxOutstanding /\ n >= 1 /\ k < n
    BY <1>1, <1>4, <1>7, Envelope
  <2>2. acc = pending[1]
    BY <1>5, <1>7, <2>1 DEF AcceptAt
  <2>3. 1 \in 1 .. n /\ 1 \in k + 1 .. n
    BY <1>1, <2>1
  <2>4. acc \in Nat /\ last.accept < acc /\ a < acc
    BY <1>1, <1>4, <2>2, <2>3
  <2>5. PICK m : Leaves(m, acc)
    BY <2>4, SomeLeave
  <2>6. /\ m \in 0 .. n
        /\ \A i \in 1 .. m : pending[i] <= acc
        /\ \A i \in m + 1 .. n : acc < pending[i]
    BY <2>5 DEF Leaves
  <2>7. m # 0
    <3> SUFFICES ASSUME m = 0 PROVE FALSE
      OBVIOUS
    <3>1. 1 \in m + 1 .. n
      BY <2>3
    <3> QED
      BY <2>2, <2>4, <2>6, <3>1
  <2>8. ~(m >= 2)
    <3> SUFFICES ASSUME m >= 2 PROVE FALSE
      OBVIOUS
    <3>1. 2 \in 1 .. m /\ 2 \in 1 .. n
      BY <1>1, <2>6
    <3>2. pending[2] <= acc /\ pending[1] < pending[2] /\ pending[2] \in Nat
      BY <1>1, <1>2, <2>3, <2>6, <3>1
    <3> QED
      BY <2>2, <2>4, <3>2
  <2>9. m = 1
    BY <2>6, <2>7, <2>8
  <2> QED
    BY <1>1, <2>1, <2>4, <2>5, <2>9, Envelope
<1> QED
  BY <1>1, <1>4, <1>6, <1>7, Envelope

(* A transaction keeps the queue's invariant: the backlog grows by one      *)
(* longest transaction for everybody, and what it waits behind fits into    *)
(* the bound.                                                               *)
LEMMA TransactStep ==
  ASSUME QueueInv, last.jumped = 0, NEW gap \in Nat, NEW svc \in 1 .. CMax,
         NEW ahead \in Nat, Transact(gap, svc, ahead)
  PROVE  QueueInv'
<1> DEFINE a == t + gap
           acc == AcceptAt(a)
           n == Len(pending)
           fin == Served(AfterBlockers(server_free, acc, ahead), acc, svc)
<1>1. /\ t' = a /\ server_free' = fin
      /\ pending' = Append(StillPending(acc), fin)
      /\ last' = [accept |-> acc, svc |-> svc, finish |-> fin,
                  jumped |-> ahead]
      /\ b_mode' = b_mode /\ r_mode' = r_mode
  BY DEF Transact
<1>2. /\ t \in Nat /\ server_free \in Nat /\ pending \in Seq(Nat)
      /\ n \in Nat /\ n <= MaxOutstanding /\ last.accept \in Nat
      /\ \A i \in 1 .. n : pending[i] \in Nat /\ last.accept < pending[i]
      /\ IF n = 0 THEN server_free <= t ELSE server_free = pending[n]
  <2>1. pending = <<>> <=> Len(pending) = 0
    BY DEF QueueInv, Orderly
  <2> QED
    BY <2>1 DEF QueueInv, Orderly
<1>3. \A i, j \in 1 .. n : i < j => pending[i] < pending[j]
  BY DEF QueueInv, Orderly, Ascending
<1>4. \A i \in 1 .. n, x \in Nat :
        last.accept <= x /\ (i > 1 => pending[i - 1] <= x) =>
          server_free <= BusyUntil(x, Load(n - i + 1, CMax))
  BY DEF QueueInv, Backlog
<1>5. a \in Nat /\ t <= a
  BY <1>2
<1>6. /\ acc \in Nat /\ a <= acc /\ last.accept <= acc
      /\ \E k : /\ Leaves(k, acc) /\ n - k <= MaxOutstanding - 1
                /\ acc = a \/ n - k = MaxOutstanding - 1
  <2> HIDE DEF a
  <2> QED
    BY <1>5, AcceptIs DEF QueueInv
<1>7. PICK k : /\ Leaves(k, acc) /\ n - k <= MaxOutstanding - 1
               /\ acc = a \/ n - k = MaxOutstanding - 1
  BY <1>6
<1>8. /\ k \in 0 .. n /\ StillPending(acc) = SubSeq(pending, k + 1, n)
      /\ \A i \in 1 .. k : pending[i] <= acc
      /\ \A i \in k + 1 .. n : acc < pending[i]
  BY <1>7 DEF Leaves
<1> DEFINE m == n - k
<1>9. m \in Nat /\ n = k + m /\ m <= MaxOutstanding - 1
  BY <1>2, <1>7, <1>8
<1>0. fin = Served(AfterBlockers(server_free, acc, ahead), acc, svc)
  OBVIOUS
<1> HIDE DEF a, acc, n, m, fin
<1>10. Outstanding(server_free, acc, m)
  <2>1. CASE m = 0
    <3>1. n = k
      BY <1>2, <1>8, <1>9, <2>1
    <3>2. CASE n = 0
      BY <1>2, <1>5, <1>6, <2>1, <3>2 DEF Outstanding
    <3>3. CASE n # 0
      <4>1. n \in 1 .. k
        BY <1>2, <3>1, <3>3
      <4> QED
        BY <1>2, <1>8, <2>1, <3>3, <4>1 DEF Outstanding
    <3> QED
      BY <3>2, <3>3
  <2>2. CASE m # 0
    <3> DEFINE i == k + 1
    <3>1. /\ n \in k + 1 .. n /\ n # 0 /\ i \in 1 .. n
          /\ n - i + 1 = m /\ i - 1 = k
      BY <1>2, <1>8, <1>9, <2>2
    <3>2. acc < server_free
      BY <1>2, <1>8, <3>1
    <3>3. i > 1 => pending[i - 1] <= acc
      <4>1. i > 1 => k \in 1 .. k
        BY <1>8
      <4> QED
        BY <1>8, <3>1, <4>1
    <3>4. server_free <= BusyUntil(acc, Load(n - i + 1, CMax))
      <4> HIDE DEF i
      <4> QED
        BY <1>4, <1>6, <3>1, <3>3
    <3> QED
      BY <2>2, <3>1, <3>2, <3>4 DEF Outstanding
  <2> QED
    BY <2>1, <2>2
<1>11. /\ fin \in Nat /\ acc < fin /\ server_free < fin
       /\ fin <= BusyUntil(acc, Load(m + ahead + 1, svc))
  BY <1>0, <1>2, <1>6, <1>9, <1>10, ServedBehind
<1>12. pending' \in Seq(Nat) /\ Len(pending') = m + 1
       /\ pending'[m + 1] = fin
       /\ \A i \in 1 .. m : pending'[i] = pending[k + i]
  <2>1. n = Len(pending)
    BY DEF n
  <2> DEFINE kept == SubSeq(pending, k + 1, n)
  <2>2. kept \in Seq(Nat) /\ Len(kept) = m
        /\ \A i \in 1 .. m : kept[i] = pending[k + i]
    <3>1. \A i \in k + 1 .. n : pending[i] \in Nat
      BY <1>2, <1>8
    <3>2. k + 1 \in Int /\ n \in Int /\ n - (k + 1) + 1 = m
      BY <1>2, <1>8, <1>9
    <3>3. kept = [i \in 1 .. m |-> pending[i + (k + 1) - 1]]
      BY <1>2, <1>8, <3>2
    <3>4. ASSUME NEW i \in 1 .. m
          PROVE  kept[i] = pending[k + i] /\ pending[k + i] \in Nat
      <4>1. i + (k + 1) - 1 = k + i /\ k + i \in k + 1 .. n
        BY <1>2, <1>8, <1>9
      <4> QED
        BY <3>1, <3>3, <4>1
    <3>5. kept \in [1 .. m -> Nat] /\ DOMAIN kept = 1 .. m
      <4> HIDE DEF kept
      <4> QED
        BY <3>3, <3>4
    <3> HIDE DEF kept
    <3> QED
      BY <1>9, <3>4, <3>5
  <2> HIDE DEF kept
  <2>3. pending' = Append(kept, fin)
    BY <1>1, <1>8 DEF kept
  <2> QED
    BY <1>9, <1>11, <2>2, <2>3
<1>13. \A i \in 1 .. m : /\ k + i \in 1 .. n /\ pending[k + i] \in Nat
                         /\ acc < pending[k + i]
                         /\ pending[k + i] <= server_free
  <2> SUFFICES ASSUME NEW i \in 1 .. m
               PROVE  /\ k + i \in 1 .. n /\ pending[k + i] \in Nat
                      /\ acc < pending[k + i]
                      /\ pending[k + i] <= server_free
    OBVIOUS
  <2>1. k + i \in 1 .. n /\ k + i \in k + 1 .. n /\ n \in 1 .. n /\ n # 0
    BY <1>2, <1>8, <1>9
  <2>2. k + i < n => pending[k + i] < pending[n]
    BY <1>3, <2>1
  <2>3. k + i = n => pending[k + i] = pending[n]
    OBVIOUS
  <2>4. pending[n] = server_free /\ (k + i < n \/ k + i = n)
    BY <1>2, <1>8, <2>1
  <2>5. pending[k + i] \in Nat /\ acc < pending[k + i]
    BY <1>2, <1>8, <2>1
  <2> QED
    BY <1>2, <2>1, <2>2, <2>3, <2>4, <2>5
<1>14. Orderly'
  <2>1. Ascending(pending')
    <3> SUFFICES ASSUME NEW i \in 1 .. m + 1, NEW j \in 1 .. m + 1, i < j
                 PROVE  pending'[i] < pending'[j]
      BY <1>12 DEF Ascending
    <3>1. i \in 1 .. m /\ pending'[i] = pending[k + i]
      BY <1>9, <1>12
    <3>2. CASE j = m + 1
      BY <1>2, <1>11, <1>12, <1>13, <3>1, <3>2
    <3>3. CASE j # m + 1
      <4>1. j \in 1 .. m /\ pending'[j] = pending[k + j]
        BY <1>9, <1>12, <3>3
      <4>2. k + i \in 1 .. n /\ k + j \in 1 .. n /\ k + i < k + j
        BY <1>8, <1>13, <3>1, <4>1
      <4> QED
        BY <1>3, <3>1, <4>1, <4>2
    <3> QED
      BY <3>2, <3>3
  <2>2. \A i \in 1 .. m + 1 : acc < pending'[i]
    <3> SUFFICES ASSUME NEW i \in 1 .. m + 1 PROVE acc < pending'[i]
      OBVIOUS
    <3>1. i \in 1 .. m \/ i = m + 1
      BY <1>9
    <3> QED
      BY <1>11, <1>12, <1>13, <3>1
  <2>3. /\ last'.accept = acc
        /\ last' \in [accept : Nat, svc : Nat, finish : Nat, jumped : Nat]
    <3>1. svc \in Nat
      BY Envelope
    <3> QED
      BY <1>1, <1>6, <1>11, <3>1
  <2>4. /\ pending' # <<>> /\ Len(pending') <= MaxOutstanding
        /\ server_free' = pending'[Len(pending')]
    <3>1. Len(pending') # 0
      BY <1>9, <1>12
    <3> QED
      BY <1>1, <1>9, <1>12, <3>1, Envelope
  <2>5. acc <= t' \/ Len(pending') = MaxOutstanding
    <3>1. CASE acc = a
      BY <1>1, <1>5, <3>1
    <3>2. CASE m = MaxOutstanding - 1
      BY <1>12, <3>2, Envelope
    <3> QED
      BY <1>7, <3>1, <3>2 DEF m
  <2>6. t' \in Nat /\ server_free' \in Nat
    BY <1>1, <1>5, <1>11
  <2> QED
    BY <1>12, <2>1, <2>2, <2>3, <2>4, <2>5, <2>6 DEF Orderly, Ascending
<1>17. CorrectedBound(svc, ahead)' = CorrectedBound(svc, ahead)
  BY <1>1 DEF CorrectedBound, Overheads
<1>18. CMax \in 1 .. CMax /\ svc <= CMax
  BY Envelope
<1>19. ASSUME ahead = 0, NEW i \in 1 .. m + 1, NEW x \in Nat, acc <= x,
              i > 1 => pending'[i - 1] <= x
       PROVE  fin <= BusyUntil(x, Load(m + 1 - i + 1, CMax))
  <2>1. fin = Served(server_free, acc, svc)
    BY <1>0, <1>19, BlockersAre
  <2>2. ASSUME NEW j \in Nat \ {0}, fin <= BusyUntil(x, Load(j, svc))
        PROVE  fin <= BusyUntil(x, Load(j, CMax))
    <3> DEFINE w == Load(j, svc)
               v == Load(j, CMax)
    <3>1. w \in Nat \ {0} /\ v \in Nat \ {0} /\ w <= v
      BY <1>18, LoadIs, LoadGrows
    <3> HIDE DEF w, v
    <3>2. /\ BusyUntil(x, w) \in Nat /\ BusyUntil(x, v) \in Nat
          /\ BusyUntil(x, w) <= BusyUntil(x, v)
      <4>1. x <= x
        OBVIOUS
      <4>2. BusyUntil(x, w) \in Nat /\ BusyUntil(x, v) \in Nat
        BY <3>1, BusyIs
      <4>3. BusyUntil(x, w) <= BusyUntil(x, v)
        BY <3>1, <4>1, BusyGrows
      <4> QED
        BY <4>2, <4>3
    <3>3. fin <= BusyUntil(x, w)
      BY <2>2 DEF w
    <3>4. fin <= BusyUntil(x, v)
      BY <1>11, <3>2, <3>3
    <3> QED
      BY <3>4 DEF v
  <2>3. CASE m = 0
    <3>1. i = 1 /\ m + 1 - i + 1 = 1 /\ server_free <= acc
      BY <1>10, <2>3 DEF Outstanding
    <3> DEFINE w == Load(1, svc)
    <3>2. fin = BusyUntil(acc, w)
      BY <1>2, <1>6, <2>1, <3>1, ServedIdle
    <3>3. w \in Nat \ {0}
      BY LoadIs
    <3> HIDE DEF w
    <3>4. BusyUntil(acc, w) <= BusyUntil(x, w)
      BY <1>6, <1>19, <3>3, BusyGrows
    <3>5. fin <= BusyUntil(x, Load(1, svc))
      BY <3>2, <3>4 DEF w
    <3> QED
      BY <2>2, <3>1, <3>5
  <2>4. CASE m # 0 /\ i = m + 1
    <3>1. i > 1 /\ i - 1 = m /\ m \in 1 .. m /\ m + 1 - i + 1 = 1
      BY <1>9, <2>4
    <3>2. pending'[m] = pending[n] /\ pending[n] = server_free
      BY <1>2, <1>8, <1>9, <1>12, <3>1
    <3>3. server_free <= x /\ acc < server_free
      BY <1>10, <1>19, <2>4, <3>1, <3>2 DEF Outstanding
    <3>4. fin <= BusyUntil(x, Load(1, svc))
      BY <1>2, <1>6, <2>1, <3>3, ServedAdds
    <3> QED
      BY <2>2, <3>1, <3>4
  <2>5. CASE i # m + 1
    <3> DEFINE j == m - i + 1
               old == k + i
    <3>1. /\ i \in 1 .. m /\ m # 0 /\ j \in Nat \ {0}
          /\ j + 1 = m + 1 - i + 1 /\ n - old + 1 = j
          /\ old \in 1 .. n
      BY <1>2, <1>8, <1>9, <2>5
    <3>2. last.accept <= x
      BY <1>2, <1>6, <1>19
    <3>3. old > 1 => pending[old - 1] <= x
      <4>1. CASE i > 1
        <5>1. i - 1 \in 1 .. m /\ k + (i - 1) = old - 1
          BY <1>8, <1>9, <3>1, <4>1
        <5>2. pending'[i - 1] = pending[k + (i - 1)]
          BY <1>12, <5>1
        <5> HIDE DEF old
        <5> QED
          BY <1>19, <4>1, <5>1, <5>2
      <4>2. CASE i = 1 /\ old > 1
        <5>1. old - 1 = k /\ k \in 1 .. k /\ k \in 1 .. n
          BY <1>8, <4>2
        <5>2. pending[k] <= acc /\ pending[k] \in Nat
          BY <1>2, <1>8, <5>1
        <5> HIDE DEF old
        <5> QED
          BY <1>6, <1>19, <5>1, <5>2
      <4> QED
        BY <3>1, <4>1, <4>2
    <3> HIDE DEF old
    <3>4. server_free <= BusyUntil(x, Load(n - old + 1, CMax))
      BY <1>4, <3>1, <3>2, <3>3
    <3>5. server_free <= BusyUntil(x, Load(j, CMax)) /\ acc < server_free
      BY <1>10, <3>1, <3>4 DEF Outstanding
    <3> HIDE DEF j
    <3>6. fin <= BusyUntil(x, Load(j + 1, svc))
      BY <1>2, <1>6, <2>1, <3>1, <3>5, ServedAdds
    <3>7. fin <= BusyUntil(x, Load(j + 1, CMax))
      BY <2>2, <3>1, <3>6
    <3> QED
      BY <3>1, <3>7
  <2> QED
    BY <1>9, <2>3, <2>4, <2>5
<1>20. (last.jumped = 0 => Backlog)'
  <2>1. last'.accept = acc /\ last'.jumped = ahead
    BY <1>1
  <2> SUFFICES ASSUME ahead = 0, NEW i \in 1 .. m + 1, NEW x \in Nat,
                      acc <= x, i > 1 => pending'[i - 1] <= x
               PROVE  server_free' <=
                        BusyUntil(x, Load(Len(pending) - i + 1, CMax))'
    BY <1>12, <2>1 DEF Backlog
  <2> DEFINE j == m + 1 - i + 1
             w == Load(j, CMax)
  <2>2. fin <= BusyUntil(x, w)
    BY <1>19
  <2>3. Load(Len(pending) - i + 1, CMax)' = w
    <3>1. (Len(pending) - i + 1)' = j
      BY <1>9, <1>12
    <3> HIDE DEF j
    <3> QED
      BY <1>1, <3>1 DEF Load
  <2>4. BusyUntil(x, Load(Len(pending) - i + 1, CMax))' = BusyUntil(x, w)
    <3> HIDE DEF w
    <3> QED
      BY <1>1, <2>3 DEF BusyUntil
  <2> QED
    BY <1>1, <2>2, <2>4
<1>21. Bounded'
  <2> DEFINE W == Load(m + ahead + 1, svc)
             V == Load(MaxOutstanding + ahead, svc)
             bound == CorrectedBound(svc, ahead)
  <2>1. /\ m + ahead + 1 \in Nat \ {0} /\ MaxOutstanding + ahead \in Nat \ {0}
        /\ m + ahead + 1 <= MaxOutstanding + ahead
    BY <1>9, Envelope
  <2>2. W \in Nat \ {0} /\ V \in Nat \ {0} /\ W <= V
    <3>1. svc <= svc
      BY Envelope
    <3>2. W \in Nat \ {0} /\ V \in Nat \ {0}
      BY <2>1, LoadIs
    <3>3. W <= V
      BY <2>1, <3>1, LoadGrows
    <3> QED
      BY <3>2, <3>3
  <2>3. /\ BusyUntil(acc, V) \in Nat /\ bound \in Nat
        /\ BusyUntil(acc, V) <= acc + bound
    BY <1>6, BusyWithinBound
  <2>4. fin <= BusyUntil(acc, W)
    BY <1>11
  <2> HIDE DEF W, V, bound
  <2>5. BusyUntil(acc, W) \in Nat /\ BusyUntil(acc, W) <= BusyUntil(acc, V)
    <3>1. acc <= acc
      BY <1>6
    <3>2. BusyUntil(acc, W) \in Nat
      BY <1>6, <2>2, BusyIs
    <3>3. BusyUntil(acc, W) <= BusyUntil(acc, V)
      BY <1>6, <2>2, <3>1, BusyGrows
    <3> QED
      BY <3>2, <3>3
  <2>6. fin - acc <= bound
    BY <1>6, <1>11, <2>3, <2>4, <2>5
  <2>7. /\ last'.svc = svc /\ last'.finish = fin /\ last'.accept = acc
        /\ last'.jumped = ahead
    BY <1>1
  <2> QED
    BY <1>17, <2>6, <2>7 DEF Bounded, bound
<1> QED
  BY <1>14, <1>20, <1>21 DEF QueueInv
---------------------------------------------------------------------------
(* The invariant of the queue holds at first, and each arrival keeps it.    *)
LEMMA QueueStarts == QueueInit => QueueInv
<1> SUFFICES ASSUME QueueInit PROVE QueueInv
  OBVIOUS
<1>1. /\ t \in Nat /\ server_free = t /\ pending = <<>> /\ last = NoTxn
      /\ Len(pending) = 0
  BY Envelope DEF QueueInit
<1>2. /\ last \in [accept : Nat, svc : Nat, finish : Nat, jumped : Nat]
      /\ last.accept = 0
  BY <1>1 DEF NoTxn
<1>3. Orderly
  BY <1>1, <1>2, Envelope DEF Orderly, Ascending
<1>4. Backlog
  BY <1>1 DEF Backlog
<1>5. Bounded
  BY <1>1 DEF Bounded
<1> QED
  BY <1>3, <1>4, <1>5 DEF QueueInv

LEMMA QueueSteps == QueueInv /\ [ServerNext]_qvars => QueueInv'
<1> SUFFICES ASSUME QueueInv, [ServerNext]_qvars PROVE QueueInv'
  OBVIOUS
<1>1. CASE UNCHANGED qvars
  <2>1. Orderly'
    BY <1>1 DEF QueueInv, Orderly, qvars
  <2>2. (last.jumped = 0 => Backlog)'
    BY <1>1 DEF QueueInv, Backlog, BusyUntil, Load, qvars
  <2>3. Bounded'
    BY <1>1 DEF QueueInv, Bounded, CorrectedBound, Overheads, qvars
  <2> QED
    BY <2>1, <2>2, <2>3 DEF QueueInv
<1>2. ASSUME NEW gap \in Gaps, NEW svc \in Services, NEW n \in Nat,
             ~Observed, Transact(gap, svc, n)
      PROVE  QueueInv'
  <2>1. last.jumped = 0
    BY <1>2 DEF Observed, QueueInv, Orderly
  <2>2. gap \in Nat /\ svc \in 1 .. CMax
    BY ServerAssumption DEF ServerAssumption
  <2> QED
    BY <1>2, <2>1, <2>2, TransactStep
<1>3. CASE Arrive
  BY <1>2, <1>3 DEF Arrive
<1>4. CASE Probe
  <2>1. \A n \in 1 .. Jumpers : n \in Nat
    BY ServerAssumption DEF ServerAssumption
  <2> QED
    BY <1>2, <1>4, <2>1 DEF Probe
<1> QED
  BY <1>1, <1>3, <1>4 DEF ServerNext

LEMMA QueueInvHolds == ServerSpec => []QueueInv
BY QueueStarts, QueueSteps, PTL DEF ServerSpec

(* What it says of the last transaction.                                    *)
LEMMA LastType ==
  ASSUME QueueInv, last # NoTxn
  PROVE  /\ last.svc \in 1 .. CMax /\ last.jumped \in Nat
         /\ last.accept \in Nat /\ last.finish \in Nat
         /\ last.finish - last.accept <= CorrectedBound(last.svc, last.jumped)
BY DEF QueueInv, Orderly, Bounded

(* What l_down_max declares is no less than the corrected bound in the      *)
(* literal reading, and the bound first asserted is it in the lumped one.   *)
LEMMA DeclaredCovers ==
  ASSUME NEW c \in 1 .. CMax, b_mode = "per_txn", r_mode = "periodic"
  PROVE  CorrectedBound(c, 0) <= LDownMax(MaxOutstanding, c)
         /\ LDownMax(MaxOutstanding, c) \in Nat
<1> DEFINE w == Load(MaxOutstanding, c)
           v == LDownWork(MaxOutstanding, c)
<1>1. CorrectedBound(c, 0) = StallInflation(w) /\ w \in Nat \ {0}
  <2>1. 0 \in Nat /\ MaxOutstanding + 0 = MaxOutstanding
    BY Envelope
  <2> QED
    BY <2>1, CorrectedIs, LoadIs, Envelope
<1>2. Bypass * CMax \in Nat
  BY Envelope, ProductIs
<1>3. v = w + Bypass * CMax
  BY <1>2, Envelope DEF LDownWork, Load
<1>4. v \in Nat \ {0} /\ w <= v
  <2> HIDE DEF w, v
  <2> QED
    BY <1>1, <1>2, <1>3
<1>5. LDownMax(MaxOutstanding, c) = StallInflation(v)
  BY DEF LDownMax, StallInflation, Usable
<1> HIDE DEF w, v
<1>6. StallInflation(w) <= StallInflation(v) /\ StallInflation(v) \in Nat
  BY <1>1, <1>4, StallInflationGrows, StallsOf
<1> QED
  BY <1>1, <1>5, <1>6

(* The bound first asserted is the corrected one of the lumped reading.     *)
LEMMA LumpedIsAnalytic ==
  ASSUME NEW c \in 1 .. CMax, NEW n \in Nat, b_mode = "bp", r_mode = "bp"
  PROVE  CorrectedBound(c, n) = AnalyticBound(c, n)
<1>1. (MaxOutstanding - 1) * CMax \in Nat /\ n * CMax \in Nat
  BY Envelope, ProductIs
<1>2. (MaxOutstanding - 1 + n) * CMax = (MaxOutstanding - 1) * CMax + n * CMax
  BY Envelope, SMT
<1>3. Overheads(n) = 1
  BY DEF Overheads
<1>4. CorrectedBound(c, n) =
        1 * BFixed + (MaxOutstanding - 1 + n) * CMax + c + Refresh
  BY <1>3 DEF CorrectedBound
<1> QED
  BY <1>1, <1>2, <1>4, Envelope DEF AnalyticBound

(* No transaction is outstanding for longer than the corrected bound, for   *)
(* every envelope, any arrivals from any phase of the refresh, and in every *)
(* reading of the service model; and l_down_max, which admission subtracts  *)
(* from every deadline, is no less (model/validate_ldownmax.py:25-41,       *)
(* 288-356, 426-435, model/gm/types.py:89-132).                             *)
THEOREM LatencyCorrect == ServerSpec => []LatencyWithinBound
<1>1. QueueInv => LatencyWithinBound
  <2> SUFFICES ASSUME QueueInv, last # NoTxn PROVE LatencyWithinBound
    BY DEF LatencyWithinBound
  <2> DEFINE latency == last.finish - last.accept
  <2>1. /\ last.svc \in 1 .. CMax /\ last.jumped \in Nat
        /\ latency \in Int
        /\ latency <= CorrectedBound(last.svc, last.jumped)
    BY LastType
  <2>2. CorrectedBound(last.svc, last.jumped) \in Nat
    BY <2>1, BusyWithinBound
  <2> HIDE DEF latency
  <2>3. ASSUME b_mode = "per_txn", r_mode = "periodic", last.jumped = 0
        PROVE  latency <= LDownMax(MaxOutstanding, last.svc)
    <3> DEFINE bound == CorrectedBound(last.svc, 0)
               declared == LDownMax(MaxOutstanding, last.svc)
    <3>1. bound <= declared /\ declared \in Nat
      BY <2>1, <2>3, DeclaredCovers
    <3>2. latency <= bound /\ bound \in Nat
      BY <2>1, <2>2, <2>3
    <3> HIDE DEF bound, declared
    <3>3. latency <= declared
      BY <2>1, <3>1, <3>2
    <3> QED
      BY <3>3 DEF declared
  <2>4. ASSUME b_mode = "bp", r_mode = "bp"
        PROVE  latency <= AnalyticBound(last.svc, last.jumped)
    BY <2>1, <2>4, LumpedIsAnalytic
  <2> QED
    BY <2>1, <2>3, <2>4 DEF LatencyWithinBound, latency
<1> QED
  BY <1>1, QueueInvHolds, PTL

(* The bound gives nothing away, for every envelope: the adversarial        *)
(* construction attains it from the first cycle of a stall, for the same    *)
(* transaction behind the same bypasses (model/validate_ldownmax.py:361-423,*)
(* 966-1008).                                                               *)
THEOREM AttainedCorrect == ServerSpec => []WorstCaseIsAttained
<1>1. QueueInv => WorstCaseIsAttained
  <2> SUFFICES ASSUME QueueInv, last # NoTxn
               PROVE  CorrectedBound(last.svc, last.jumped) =
                        Max({Adversarial(t0, last.svc, last.jumped) :
                               t0 \in 0 .. Window - 1})
    BY DEF WorstCaseIsAttained
  <2>1. last.svc \in 1 .. CMax /\ last.jumped \in Nat
    BY LastType
  <2> QED
    BY <2>1, BoundIsAttained
<1> QED
  BY <1>1, QueueInvHolds, PTL
=============================================================================
