----------------------------- MODULE LinePotProofs -----------------------------
(***************************************************************************)
(* Proofs about LinePot, for every set of connections, of lines and for    *)
(* any number of lines: type correctness, and that the pots report only    *)
(* credentials that their own client wrote, the ends of cut lines included *)
(* where lines can be cut.                                                 *)
(***************************************************************************)
EXTENDS LinePot, SequenceTheorems, WellFoundedInduction, TLAPS

-----------------------------------------------------------------------------
(***************************************************************************)
(* The inductive invariant of a connection, as a predicate of what it      *)
(* wrote (t), the wire (w), the reader (b), its other variables and its    *)
(* kind: careful or not ("rash"), with a client that waits ("patient")     *)
(***************************************************************************)

\* The place of a piece in everything that the client wrote.
Place(p) == 2 * p[1] + p[2]

PiecesOf(t) == (1 .. Len(t)) \X {1, 2}

Sorted(s) == \A i, j \in 1 .. Len(s) : i < j => Place(s[i]) < Place(s[j])
Precedes(s, r) ==
  \A i \in 1 .. Len(s), j \in 1 .. Len(r) : Place(s[i]) < Place(r[j])

\* The pieces that the pot has still to carry out.
Left(w, b) == {w[i] : i \in 1 .. Len(w)} \cup {b[i] : i \in 1 .. Len(b)}

Credentials == [user : Args, pass : Args]

\* What TypeOK says of a connection.
ConnType(t, w, b, e, a, p, u, s) ==
  /\ t \in Seq(Lines)
  /\ w \in Seq(PiecesOf(t)) /\ b \in Seq(PiecesOf(t))
  /\ Precedes(b, w)
  /\ e \in {"no", "closed", "reset"}
  /\ a \in 0 .. Len(t) + 1
  /\ p \in {"greet", "read", "gone"}
  /\ u \in Args
  /\ s \in Seq(Credentials)

\* The pieces are in order.  What is left of a line comes after as many lines
\* as there were answers, apart from the greeting.
Flow(w, b, a, p) ==
  /\ Sorted(w) /\ Sorted(b)
  /\ p = "greet" => a = 0
  /\ \A q \in Left(w, b) : a <= q[1]

\* Only a connection that is not careful loses the beginning of a line, and
\* never that of its first.  A client that waits has one line on its way.
Kept(w, b, kind) ==
  /\ \A q \in Left(w, b) : q[2] = 2 /\ (kind # "rash" \/ q[1] = 1) => <<q[1], 1>> \in Left(w, b)
  /\ kind = "patient" => \A q, r \in Left(w, b) : q[1] = r[1]

\* What Gives says of a line of t.
GivesOf(t, n, kind, command, arg) ==
  \E words \in {t[n]} \cup IF kind # "rash" \/ n = 1 THEN {} ELSE Tails(t[n]) :
    Cmd(words) = command /\ Arg(words) = arg

\* The k-th report is of a PASS, in the k-th line or a later one.
OwnReport(t, s, k, kind) ==
  \E n \in k .. Len(t) :
    /\ GivesOf(t, n, kind, "PASS", s[k].pass)
    /\ \/ s[k].user = ""
       \/ \E m \in 1 .. n - 1 : GivesOf(t, m, kind, "USER", s[k].user)

\* The user is that of a line before all that are left.
OwnUser(t, w, b, u, kind) ==
  \/ u = ""
  \/ \E m \in 1 .. Len(t) :
       /\ GivesOf(t, m, kind, "USER", u)
       /\ \A q \in Left(w, b) : m < q[1]

\* There are fewer reports than the number of a line of which something is left.
Own(t, w, b, u, s, kind) ==
  /\ \A k \in 1 .. Len(s) : OwnReport(t, s, k, kind)
  /\ \A q \in Left(w, b) : Len(s) < q[1]
  /\ OwnUser(t, w, b, u, kind)

ConnInv(t, w, b, e, a, p, u, s, kind) ==
  /\ ConnType(t, w, b, e, a, p, u, s)
  /\ Flow(w, b, a, p)
  /\ Kept(w, b, kind)
  /\ Own(t, w, b, u, s, kind)

\* Each variable is a table of the connections.
Tables ==
  /\ DOMAIN typed = Conns /\ DOMAIN wire = Conns /\ DOMAIN buf = Conns
  /\ DOMAIN ended = Conns /\ DOMAIN answers = Conns /\ DOMAIN pc = Conns
  /\ DOMAIN user = Conns /\ DOMAIN started = Conns

Kind(c) == IF c \in patient THEN "patient" ELSE IF c \in Pop THEN "pop" ELSE "rash"

Inv(c) == ConnInv(typed[c], wire[c], buf[c], ended[c], answers[c], pc[c], user[c],
                  started[c], Kind(c))

OwnInv ==
  /\ up \in BOOLEAN
  /\ patient \subseteq Ftp
  /\ Tables
  /\ \A c \in Conns : Inv(c)

-----------------------------------------------------------------------------
(***************************************************************************)
(* Steps that add to what is left, or take from it                         *)
(***************************************************************************)

\* A set of numbers that is not empty has a least element.
LEMMA Least ==
  ASSUME NEW T, T \subseteq Nat, T # {}
  PROVE  \E m \in T : \A k \in T : m <= k
<1>1. PICK m \in T : \A k \in T : <<k, m>> \notin OpToRel(<, Nat)
  BY NatLessThanWellFounded, WFMin
<1>2. \A k \in T : ~ (k < m)
  BY <1>1 DEF OpToRel
<1> QED BY <1>2

\* A piece has a line of the client and a half.
LEMMA PieceParts ==
  ASSUME NEW t, Len(t) \in Nat, NEW s \in Seq(PiecesOf(t)), NEW i \in 1 .. Len(s)
  PROVE  /\ s[i] \in PiecesOf(t)
         /\ s[i][1] \in 1 .. Len(t) /\ s[i][2] \in {1, 2}
         /\ Place(s[i]) \in Nat /\ Place(s[i]) <= 2 * Len(t) + 2
<1>1. s[i] \in PiecesOf(t)
  OBVIOUS
<1>2. s[i][1] \in 1 .. Len(t) /\ s[i][2] \in {1, 2}
  BY <1>1 DEF PiecesOf
<1>3. \A x \in 1 .. Len(t), y \in {1, 2} : 2 * x + y \in Nat /\ 2 * x + y <= 2 * Len(t) + 2
  OBVIOUS
<1> QED BY <1>1, <1>2, <1>3 DEF Place

\* What is left are pieces.
LEMMA LeftParts ==
  ASSUME NEW t, Len(t) \in Nat, NEW w \in Seq(PiecesOf(t)), NEW b \in Seq(PiecesOf(t)),
         NEW q \in Left(w, b)
  PROVE  q[1] \in 1 .. Len(t) /\ q[2] \in {1, 2}
BY PieceParts DEF Left

\* When the wire is lost, the reader still has the beginnings of its lines: what
\* is on the wire comes later.
LEMMA WireLater ==
  ASSUME NEW t, NEW w, NEW b, NEW e, NEW a, NEW p, NEW u, NEW s,
         NEW kind,
         ConnInv(t, w, b, e, a, p, u, s, kind),
         NEW q \in Left(<<>>, b), q[2] = 2, kind # "rash" \/ q[1] = 1
  PROVE  <<q[1], 1>> \in Left(<<>>, b)
<1> DEFINE r == <<q[1], 1>>
<1>1. /\ t \in Seq(Lines) /\ Len(t) \in Nat /\ b \in Seq(PiecesOf(t))
      /\ Precedes(b, w) /\ Kept(w, b, kind)
  BY DEF ConnInv, ConnType
<1>2. PICK i \in 1 .. Len(b) : q = b[i]
  BY DEF Left
<1>3. q \in Left(w, b) /\ q[1] \in 1 .. Len(t)
  BY <1>1, <1>2, PieceParts DEF Left
<1>4. r \in Left(w, b) /\ r[1] = q[1] /\ r[2] = 1
  BY <1>1, <1>3 DEF Kept
<1> HIDE DEF r
<1>5. ~ (Place(q) < Place(r))
  BY <1>1, <1>3, <1>4 DEF Place
<1>6. \A j \in 1 .. Len(w) : r # w[j]
  BY <1>1, <1>2, <1>5 DEF Precedes
<1> QED BY <1>4, <1>6 DEF Left, r

\* Own stays true as long as nothing is added to what is left.
LEMMA OwnFewer ==
  ASSUME NEW t, NEW w, NEW b, NEW u, NEW s,
         NEW kind, Own(t, w, b, u, s, kind),
         NEW x, NEW y, Left(x, y) \subseteq Left(w, b)
  PROVE  Own(t, x, y, u, s, kind)
BY DEF Own, OwnUser

\* A client writes a line.
LEMMA WriteKeeps ==
  ASSUME NEW t, NEW w, NEW b, NEW e, NEW a, NEW p, NEW u, NEW s,
         NEW kind,
         ConnInv(t, w, b, e, a, p, u, s, kind),
         NEW line \in Lines, kind = "patient" => a > Len(t)
  PROVE  ConnInv(Append(t, line),
                 w \o <<<<Len(t) + 1, 1>>, <<Len(t) + 1, 2>>>>, b, e, a, p, u, s, kind)
<1> DEFINE n == Len(t) + 1
           T == Append(t, line)
           new == <<<<n, 1>>, <<n, 2>>>>
           W == w \o new
<1>1. /\ t \in Seq(Lines) /\ w \in Seq(PiecesOf(t)) /\ b \in Seq(PiecesOf(t))
      /\ s \in Seq(Credentials) /\ Len(t) \in Nat /\ n \in Nat /\ Len(w) \in Nat
  BY DEF ConnInv, ConnType
<1>2. T \in Seq(Lines) /\ Len(T) = n /\ \A i \in 1 .. Len(t) : T[i] = t[i]
  BY <1>1
<1>3. PiecesOf(t) \subseteq PiecesOf(T) /\ <<n, 1>> \in PiecesOf(T) /\ <<n, 2>> \in PiecesOf(T)
  BY <1>1, <1>2 DEF PiecesOf
<1>4. b \in Seq(PiecesOf(T)) /\ w \in Seq(PiecesOf(T)) /\ new \in Seq(PiecesOf(T))
  BY <1>1, <1>3
<1>5. /\ W \in Seq(PiecesOf(T)) /\ Len(W) = Len(w) + 2
      /\ \A i \in 1 .. Len(w) : W[i] = w[i]
      /\ W[Len(w) + 1] = <<n, 1>> /\ W[Len(w) + 2] = <<n, 2>>
  BY <1>1, <1>4
<1> HIDE DEF W
<1>6. \A i \in 1 .. Len(W) : i \in 1 .. Len(w) \/ i = Len(w) + 1 \/ i = Len(w) + 2
  <2>1. Len(w) \in Nat /\ Len(W) = Len(w) + 2
    BY <1>1, <1>5
  <2>2. \A m \in Nat : \A i \in 1 .. m + 2 : i \in 1 .. m \/ i = m + 1 \/ i = m + 2
    OBVIOUS
  <2> QED BY <2>1, <2>2
<1>7. /\ \A i \in 1 .. Len(w) : Place(w[i]) \in Nat /\ Place(w[i]) <= 2 * Len(t) + 2
      /\ \A i \in 1 .. Len(b) : Place(b[i]) \in Nat /\ Place(b[i]) <= 2 * Len(t) + 2
      /\ Place(<<n, 1>>) = 2 * Len(t) + 3 /\ Place(<<n, 2>>) = 2 * Len(t) + 4
  <2>1. ASSUME NEW r \in Seq(PiecesOf(t)), NEW i \in 1 .. Len(r)
        PROVE  Place(r[i]) \in Nat /\ Place(r[i]) <= 2 * Len(t) + 2
    BY <1>1, <2>1, PieceParts
  <2>2. <<n, 1>>[1] = n /\ <<n, 1>>[2] = 1 /\ <<n, 2>>[1] = n /\ <<n, 2>>[2] = 2
    OBVIOUS
  <2> QED BY <1>1, <2>1, <2>2 DEF Place
<1>a. \A j \in 1 .. Len(W) :
        \/ j \in 1 .. Len(w) /\ W[j] = w[j]
        \/ j > Len(w) /\ Place(W[j]) = 2 * Len(t) + 2 + (j - Len(w))
  <2> SUFFICES ASSUME NEW j \in 1 .. Len(W), j \notin 1 .. Len(w)
               PROVE  j > Len(w) /\ Place(W[j]) = 2 * Len(t) + 2 + (j - Len(w))
    BY <1>5
  <2>1. CASE j = Len(w) + 1
    <3>1. W[j] = <<n, 1>>
      BY <2>1, <1>5
    <3> QED BY <2>1, <3>1, <1>1, <1>7
  <2>2. CASE j = Len(w) + 2
    <3>1. W[j] = <<n, 2>>
      BY <2>2, <1>5
    <3> QED BY <2>2, <3>1, <1>1, <1>7
  <2> QED BY <2>1, <2>2, <1>6
<1>8. Precedes(b, W)
  <2> SUFFICES ASSUME NEW i \in 1 .. Len(b), NEW j \in 1 .. Len(W)
               PROVE  Place(b[i]) < Place(W[j])
    BY DEF Precedes
  <2>1. CASE j \in 1 .. Len(w)
    BY <2>1, <1>5 DEF ConnInv, ConnType, Precedes
  <2>2. CASE j \notin 1 .. Len(w)
    <3>1. j > Len(w) /\ Place(W[j]) = 2 * Len(t) + 2 + (j - Len(w)) /\ j \in Nat
      BY <2>2, <1>a
    <3>2. Place(b[i]) \in Nat /\ Place(b[i]) <= 2 * Len(t) + 2
      BY <1>7
    <3> QED BY <3>1, <3>2, <1>1
  <2> QED BY <2>1, <2>2
<1>9. Sorted(W)
  <2> SUFFICES ASSUME NEW i \in 1 .. Len(W), NEW j \in 1 .. Len(W), i < j
               PROVE  Place(W[i]) < Place(W[j])
    BY DEF Sorted
  <2>1. CASE j \in 1 .. Len(w)
    <3>1. i \in 1 .. Len(w) /\ Sorted(w)
      BY <2>1, <1>1, <1>5 DEF ConnInv, Flow
    <3> QED BY <2>1, <3>1, <1>5 DEF Sorted
  <2>2. CASE j \notin 1 .. Len(w)
    <3>1. j > Len(w) /\ Place(W[j]) = 2 * Len(t) + 2 + (j - Len(w)) /\ j \in Nat
      BY <2>2, <1>a
    <3>2. CASE i \in 1 .. Len(w)
      <4>1. Place(W[i]) \in Nat /\ Place(W[i]) <= 2 * Len(t) + 2
        BY <3>2, <1>5, <1>7
      <4> QED BY <3>1, <4>1, <1>1
    <3>3. CASE i \notin 1 .. Len(w)
      <4>1. i > Len(w) /\ Place(W[i]) = 2 * Len(t) + 2 + (i - Len(w)) /\ i \in Nat
        BY <3>3, <1>a
      <4> QED BY <3>1, <4>1, <1>1
    <3> QED BY <3>2, <3>3
  <2> QED BY <2>1, <2>2
<1>10. \A q \in Left(W, b) : q \in Left(w, b) \/ q = <<n, 1>> \/ q = <<n, 2>>
  BY <1>5, <1>6 DEF Left
<1>11. a \in 0 .. n /\ p = "greet" => a = 0
  BY <1>1 DEF ConnInv, ConnType, Flow
<1>12. \A q \in Left(W, b) : a <= q[1]
  BY <1>1, <1>10, <1>11 DEF ConnInv, ConnType, Flow
<1>b. Kept(W, b, kind)
  <2>1. Left(w, b) \subseteq Left(W, b) /\ <<n, 1>> \in Left(W, b)
    <3>1. Len(w) + 1 \in 1 .. Len(W) /\ \A i \in 1 .. Len(w) : i \in 1 .. Len(W)
      BY <1>1, <1>5
    <3> QED BY <3>1, <1>5 DEF Left
  <2>2. ASSUME NEW q \in Left(W, b), q[2] = 2, kind # "rash" \/ q[1] = 1
        PROVE  <<q[1], 1>> \in Left(W, b)
    <3>1. CASE q \in Left(w, b)
      BY <2>1, <2>2, <3>1 DEF ConnInv, Kept
    <3>2. CASE q = <<n, 1>> \/ q = <<n, 2>>
      <4>1. q[1] = n
        BY <3>2
      <4> QED BY <2>1, <4>1
    <3> QED BY <3>1, <3>2, <1>10
  <2>3. ASSUME kind = "patient", NEW q \in Left(W, b), NEW r \in Left(W, b)
        PROVE  q[1] = r[1]
    <3>1. \A y \in Left(w, b) : a <= y[1] /\ y[1] \in 1 .. Len(t) /\ a > Len(t) /\ a \in Nat
      BY <2>3, <1>1, LeftParts DEF ConnInv, ConnType, Flow
    <3>2. Left(w, b) = {}
      BY <3>1, <1>1
    <3>3. q[1] = n /\ r[1] = n
      BY <3>2, <1>10
    <3> QED BY <3>3
  <2> QED BY <2>2, <2>3 DEF Kept
<1>13. ASSUME NEW k \in 1 .. Len(s) PROVE OwnReport(T, s, k, kind) /\ k <= Len(t)
  <2>1. PICK i \in k .. Len(t) :
          /\ GivesOf(t, i, kind, "PASS", s[k].pass)
          /\ \/ s[k].user = ""
             \/ \E m \in 1 .. i - 1 : GivesOf(t, m, kind, "USER", s[k].user)
    BY DEF ConnInv, Own, OwnReport
  <2>2. Len(s) \in Nat /\ i \in 1 .. Len(t) /\ i \in k .. Len(T) /\ k <= Len(t)
    BY <1>1, <1>2
  <2>3. T[i] = t[i] /\ \A m \in 1 .. i - 1 : T[m] = t[m]
    BY <2>2, <1>1, <1>2
  <2>4. /\ GivesOf(T, i, kind, "PASS", s[k].pass)
        /\ \A m \in 1 .. i - 1 : GivesOf(t, m, kind, "USER", s[k].user) =>
                                  GivesOf(T, m, kind, "USER", s[k].user)
    <3> HIDE DEF T
    <3> QED BY <2>1, <2>3 DEF GivesOf
  <2> HIDE DEF T
  <2> QED BY <2>1, <2>2, <2>4 DEF OwnReport
<1>14. \A q \in Left(W, b) : Len(s) < q[1]
  <2>1. Len(s) \in Nat /\ (Len(s) # 0 => Len(s) \in 1 .. Len(s))
    BY <1>1
  <2>2. Len(s) < n
    BY <1>1, <2>1, <1>13
  <2> QED BY <1>10, <2>2 DEF ConnInv, Own
<1>15. OwnUser(T, W, b, u, kind)
  <2>1. CASE u = ""
    BY <2>1 DEF OwnUser
  <2>2. CASE u # ""
    <3>1. PICK m \in 1 .. Len(t) :
            /\ GivesOf(t, m, kind, "USER", u)
            /\ \A q \in Left(w, b) : m < q[1]
      BY <2>2 DEF ConnInv, Own, OwnUser
    <3>2. m \in 1 .. Len(T) /\ T[m] = t[m] /\ m < n
      BY <1>1, <1>2
    <3>3. \A q \in Left(W, b) : m < q[1]
      BY <3>1, <3>2, <1>10
    <3> HIDE DEF T
    <3>4. GivesOf(T, m, kind, "USER", u)
      BY <3>1, <3>2 DEF GivesOf
    <3> QED BY <3>2, <3>3, <3>4 DEF OwnUser
  <2> QED BY <2>1, <2>2
<1>16. ConnType(T, W, b, e, a, p, u, s)
  BY <1>2, <1>4, <1>5, <1>8, <1>11 DEF ConnInv, ConnType
<1>17. Flow(W, b, a, p)
  BY <1>9, <1>12 DEF ConnInv, Flow
<1>18. Own(T, W, b, u, s, kind)
  BY <1>13, <1>14, <1>15 DEF Own
<1> QED BY <1>16, <1>17, <1>18, <1>b DEF ConnInv, W

\* A Read moves pieces from the wire to the reader.
LEMMA FillKeeps ==
  ASSUME NEW t, NEW w, NEW b, NEW e, NEW a, NEW p, NEW u, NEW s,
         NEW kind,
         ConnInv(t, w, b, e, a, p, u, s, kind),
         NEW k \in 1 .. Len(w)
  PROVE  ConnInv(t, SubSeq(w, k + 1, Len(w)), b \o SubSeq(w, 1, k), e, a, p, u, s, kind)
<1> DEFINE x == SubSeq(w, 1, k)
           W == SubSeq(w, k + 1, Len(w))
           B == b \o x
<1>1. /\ t \in Seq(Lines) /\ w \in Seq(PiecesOf(t)) /\ b \in Seq(PiecesOf(t))
      /\ Len(t) \in Nat /\ Len(w) \in Nat /\ Len(b) \in Nat
  BY DEF ConnInv, ConnType
<1>2. /\ x \in Seq(PiecesOf(t)) /\ Len(x) = k
      /\ \A i \in 1 .. k : x[i] = w[i] /\ i \in 1 .. Len(w)
  BY <1>1
<1>3. /\ W \in Seq(PiecesOf(t)) /\ Len(W) = Len(w) - k
      /\ \A i \in 1 .. Len(W) : W[i] = w[k + i] /\ k + i \in 1 .. Len(w)
  BY <1>1
<1> HIDE DEF x, W
<1>4. /\ B \in Seq(PiecesOf(t)) /\ Len(B) = Len(b) + k
      /\ \A i \in 1 .. Len(b) : B[i] = b[i]
      /\ \A i \in 1 .. k : B[Len(b) + i] = w[i]
  <2>1. /\ B \in Seq(PiecesOf(t)) /\ Len(B) = Len(b) + Len(x)
        /\ \A i \in 1 .. Len(B) : B[i] = IF i <= Len(b) THEN b[i] ELSE x[i - Len(b)]
    <3>1. b \in Seq(PiecesOf(t)) /\ x \in Seq(PiecesOf(t))
      BY <1>1, <1>2
    <3> HIDE DEF B
    <3>2. B = b \o x
      BY DEF B
    <3>3. /\ b \o x \in Seq(PiecesOf(t)) /\ Len(b \o x) = Len(b) + Len(x)
          /\ \A i \in 1 .. Len(b) + Len(x) :
               (b \o x)[i] = IF i <= Len(b) THEN b[i] ELSE x[i - Len(b)]
      BY <3>1, ConcatProperties
    <3> QED BY <3>2, <3>3
  <2> HIDE DEF B
  <2>2. ASSUME NEW i \in 1 .. k PROVE B[Len(b) + i] = w[i]
    <3>1. Len(b) + i \in 1 .. Len(B) /\ ~ (Len(b) + i <= Len(b)) /\ (Len(b) + i) - Len(b) = i
      BY <1>1, <1>2, <2>1
    <3>2. B[Len(b) + i] = x[(Len(b) + i) - Len(b)]
      BY <2>1, <3>1
    <3> QED BY <1>2, <3>1, <3>2
  <2>3. ASSUME NEW i \in 1 .. Len(b) PROVE B[i] = b[i]
    BY <1>1, <1>2, <2>1
  <2> QED BY <1>2, <2>1, <2>2, <2>3
<1>5. \A i \in 1 .. Len(B) :
        \/ i \in 1 .. Len(b) /\ B[i] = b[i]
        \/ i - Len(b) \in 1 .. k /\ B[i] = w[i - Len(b)] /\ i - Len(b) \in 1 .. Len(w)
  <2> SUFFICES ASSUME NEW i \in 1 .. Len(B), i \notin 1 .. Len(b)
               PROVE  /\ i - Len(b) \in 1 .. k /\ B[i] = w[i - Len(b)]
                      /\ i - Len(b) \in 1 .. Len(w)
    BY <1>4
  <2>1. i - Len(b) \in 1 .. k /\ i - Len(b) \in 1 .. Len(w) /\ i = Len(b) + (i - Len(b))
    BY <1>1, <1>4
  <2> QED BY <2>1, <1>4
<1> HIDE DEF B
<1>6. Precedes(B, W)
  <2> SUFFICES ASSUME NEW i \in 1 .. Len(B), NEW j \in 1 .. Len(W)
               PROVE  Place(B[i]) < Place(W[j])
    BY DEF Precedes
  <2>1. W[j] = w[k + j] /\ k + j \in 1 .. Len(w)
    BY <1>3
  <2>2. CASE i \in 1 .. Len(b) /\ B[i] = b[i]
    BY <2>1, <2>2 DEF ConnInv, ConnType, Precedes
  <2>3. CASE i - Len(b) \in 1 .. k /\ B[i] = w[i - Len(b)] /\ i - Len(b) \in 1 .. Len(w)
    <3>1. i - Len(b) < k + j /\ Sorted(w)
      BY <2>3, <1>1, <1>3 DEF ConnInv, Flow
    <3> QED BY <2>1, <2>3, <3>1 DEF Sorted
  <2> QED BY <2>2, <2>3, <1>5
<1>7. Sorted(W)
  <2> SUFFICES ASSUME NEW i \in 1 .. Len(W), NEW j \in 1 .. Len(W), i < j
               PROVE  Place(W[i]) < Place(W[j])
    BY DEF Sorted
  <2>1. k + i < k + j /\ Sorted(w)
    BY <1>1 DEF ConnInv, Flow
  <2> QED BY <2>1, <1>3 DEF Sorted
<1>8. Sorted(B)
  <2> SUFFICES ASSUME NEW i \in 1 .. Len(B), NEW j \in 1 .. Len(B), i < j
               PROVE  Place(B[i]) < Place(B[j])
    BY DEF Sorted
  <2>1. Sorted(w) /\ Sorted(b) /\ Precedes(b, w)
    BY DEF ConnInv, ConnType, Flow
  <2>2. CASE j \in 1 .. Len(b)
    <3>1. i \in 1 .. Len(b)
      BY <2>2, <1>1, <1>4
    <3> QED BY <2>1, <2>2, <3>1, <1>4 DEF Sorted
  <2>3. CASE j \notin 1 .. Len(b)
    <3>1. j - Len(b) \in 1 .. Len(w) /\ B[j] = w[j - Len(b)]
      BY <2>3, <1>5
    <3>2. CASE i \in 1 .. Len(b)
      BY <2>1, <3>1, <3>2, <1>4 DEF Precedes
    <3>3. CASE i \notin 1 .. Len(b)
      <4>1. i - Len(b) \in 1 .. Len(w) /\ B[i] = w[i - Len(b)]
        BY <3>3, <1>5
      <4>2. i - Len(b) < j - Len(b)
        BY <1>1, <1>4
      <4> QED BY <2>1, <3>1, <4>1, <4>2 DEF Sorted
    <3> QED BY <3>2, <3>3
  <2> QED BY <2>2, <2>3
<1>9. Left(W, B) = Left(w, b)
  <2>1. ASSUME NEW i \in 1 .. Len(W) PROVE W[i] \in Left(w, b)
    BY <1>3 DEF Left
  <2>2. ASSUME NEW i \in 1 .. Len(B) PROVE B[i] \in Left(w, b)
    BY <1>5 DEF Left
  <2>3. ASSUME NEW i \in 1 .. Len(b) PROVE b[i] \in Left(W, B)
    <3>1. i \in 1 .. Len(B)
      BY <1>1, <1>4
    <3> QED BY <3>1, <1>4 DEF Left
  <2>4. ASSUME NEW i \in 1 .. Len(w) PROVE w[i] \in Left(W, B)
    <3>1. CASE i <= k
      <4>1. i \in 1 .. k /\ Len(b) + i \in 1 .. Len(B)
        BY <3>1, <1>1, <1>4
      <4> QED BY <4>1, <1>4 DEF Left
    <3>2. CASE ~ (i <= k)
      <4>1. i - k \in 1 .. Len(W) /\ k + (i - k) = i
        BY <3>2, <1>1, <1>3
      <4> QED BY <4>1, <1>3 DEF Left
    <3> QED BY <3>1, <3>2
  <2> QED BY <2>1, <2>2, <2>3, <2>4 DEF Left
<1>10. ConnType(t, W, B, e, a, p, u, s)
  BY <1>3, <1>4, <1>6 DEF ConnInv, ConnType
<1>11. Flow(W, B, a, p)
  BY <1>7, <1>8, <1>9 DEF ConnInv, Flow
<1>12. Own(t, W, B, u, s, kind)
  BY <1>9, OwnFewer DEF ConnInv
<1>13. Kept(W, B, kind)
  BY <1>9 DEF ConnInv, Kept
<1> QED BY <1>10, <1>11, <1>12, <1>13 DEF ConnInv, W, B, x

\* What is left after a command whose line ends at place h: nothing, or what
\* follows.  All of it belongs to later lines.
LEMMA CommandLeaves ==
  ASSUME NEW t, NEW w, NEW b, NEW e, NEW a, NEW p, NEW u, NEW s,
         NEW kind,
         ConnInv(t, w, b, e, a, p, u, s, kind),
         NEW h \in 1 .. Len(b), b[h][2] = 2,
         NEW x \in {<<>>, SubSeq(b, h + 1, Len(b))}
  PROVE  /\ x \in Seq(PiecesOf(t)) /\ Precedes(x, w) /\ Sorted(x)
         /\ Left(w, x) \subseteq Left(w, b)
         /\ \A q \in Left(w, x) : q[1] > b[h][1]
         /\ a <= b[h][1]
         /\ b[1][1] \in 1 .. b[h][1] /\ b[h][1] \in 1 .. Len(t)
         /\ Len(s) < b[1][1]
         /\ b[1] \in Left(w, b) /\ b[h] \in Left(w, b)
<1>1. /\ t \in Seq(Lines) /\ w \in Seq(PiecesOf(t)) /\ b \in Seq(PiecesOf(t))
      /\ Len(t) \in Nat /\ Len(w) \in Nat /\ Len(b) \in Nat
      /\ Precedes(b, w) /\ Sorted(b)
  BY DEF ConnInv, ConnType, Flow
<1>2. /\ x \in Seq(PiecesOf(t))
      /\ \A i \in 1 .. Len(x) : x[i] = b[h + i] /\ h + i \in 1 .. Len(b)
  <2>1. CASE x = <<>>
    BY <2>1
  <2>2. CASE x = SubSeq(b, h + 1, Len(b))
    BY <2>2, <1>1
  <2> QED BY <2>1, <2>2
<1>3. Precedes(x, w)
  BY <1>1, <1>2 DEF Precedes
<1>4. Sorted(x)
  <2> SUFFICES ASSUME NEW i \in 1 .. Len(x), NEW j \in 1 .. Len(x), i < j
               PROVE  Place(x[i]) < Place(x[j])
    BY DEF Sorted
  <2>1. h + i < h + j
    OBVIOUS
  <2> QED BY <2>1, <1>1, <1>2 DEF Sorted
<1>5. Left(w, x) \subseteq Left(w, b)
  BY <1>2 DEF Left
<1>6. b[h][1] \in 1 .. Len(t) /\ Place(b[h]) = 2 * b[h][1] + 2
  BY <1>1, PieceParts DEF Place
<1>7. ASSUME NEW q \in Left(w, x) PROVE q[1] > b[h][1]
  <2>1. Place(b[h]) < Place(q)
    <3>1. CASE \E i \in 1 .. Len(w) : q = w[i]
      BY <3>1, <1>1 DEF Precedes
    <3>2. CASE \E i \in 1 .. Len(x) : q = x[i]
      <4>1. PICK i \in 1 .. Len(x) : q = b[h + i] /\ h + i \in 1 .. Len(b)
        BY <3>2, <1>2
      <4>2. h < h + i
        OBVIOUS
      <4> QED BY <4>1, <4>2, <1>1 DEF Sorted
    <3> QED BY <3>1, <3>2 DEF Left
  <2>2. q[1] \in 1 .. Len(t) /\ q[2] \in {1, 2}
    BY <1>1, <1>2, LeftParts
  <2>3. \A y, z \in Nat, r \in {1, 2} : 2 * y + 2 < 2 * z + r => z > y
    OBVIOUS
  <2>4. b[h][1] \in Nat /\ q[1] \in Nat
    BY <1>1, <1>6, <2>2
  <2> QED BY <1>6, <2>1, <2>2, <2>3, <2>4 DEF Place
<1>8. 1 \in 1 .. Len(b) /\ b[1] \in Left(w, b) /\ b[h] \in Left(w, b)
  BY <1>1 DEF Left
<1>9. a <= b[h][1]
  BY <1>8 DEF ConnInv, Flow
<1>10. b[1][1] \in 1 .. b[h][1]
  <2>1. b[1][1] \in 1 .. Len(t) /\ b[1][2] \in {1, 2}
    BY <1>1, <1>8, PieceParts
  <2>2. CASE h = 1
    BY <2>1, <2>2, <1>1
  <2>3. CASE h # 1
    <3>1. Place(b[1]) < Place(b[h])
      BY <2>3, <1>1, <1>8 DEF Sorted
    <3>2. \A y, z \in Nat, r \in {1, 2} : 2 * y + r < 2 * z + 2 => y <= z
      OBVIOUS
    <3>3. b[h][1] \in Nat /\ b[1][1] \in Nat
      BY <1>1, <1>6, <2>1
    <3>4. b[1][1] <= b[h][1]
      BY <1>6, <2>1, <3>1, <3>2, <3>3 DEF Place
    <3> QED BY <2>1, <3>3, <3>4
  <2> QED BY <2>2, <2>3
<1>11. Len(s) < b[1][1]
  BY <1>8 DEF ConnInv, Own
<1> QED BY <1>2, <1>3, <1>4, <1>5, <1>6, <1>7, <1>8, <1>9, <1>10, <1>11

\* What is left after a command is Kept: a reader that is kept loses nothing,
\* and a client that waits has nothing else on its way.
LEMMA CommandKept ==
  ASSUME NEW t, NEW w, NEW b, NEW e, NEW a, NEW p, NEW u, NEW s,
         NEW kind,
         ConnInv(t, w, b, e, a, p, u, s, kind),
         NEW h \in 1 .. Len(b), b[h][2] = 2,
         NEW x \in {<<>>, SubSeq(b, h + 1, Len(b))},
         kind # "rash" => kind = "patient" \/ x = SubSeq(b, h + 1, Len(b))
  PROVE  Kept(w, x, kind)
<1>1. /\ t \in Seq(Lines) /\ Len(t) \in Nat /\ b \in Seq(PiecesOf(t)) /\ Len(b) \in Nat
      /\ w \in Seq(PiecesOf(t)) /\ Sorted(b) /\ Kept(w, b, kind)
  BY DEF ConnInv, ConnType, Flow
<1>2. /\ x \in Seq(PiecesOf(t)) /\ Left(w, x) \subseteq Left(w, b)
      /\ \A q \in Left(w, x) : q[1] > b[h][1]
      /\ b[h][1] \in 1 .. Len(t) /\ b[h] \in Left(w, b)
  BY CommandLeaves
<1>3. \A q \in Left(w, x) : q[1] \in 1 .. Len(t) /\ q[1] # b[h][1] /\ q[1] # 1
  BY <1>1, <1>2, LeftParts
<1>4. kind = "patient" => Left(w, x) = {}
  BY <1>1, <1>2, <1>3 DEF Kept
<1>5. ASSUME NEW q \in Left(w, x), q[2] = 2, kind # "rash" \/ q[1] = 1
      PROVE  <<q[1], 1>> \in Left(w, x)
  <2> DEFINE r == <<q[1], 1>>
  <2>1. r[1] = q[1] /\ r[2] = 1
    OBVIOUS
  <2>2. x = SubSeq(b, h + 1, Len(b)) /\ r \in Left(w, b)
    BY <1>1, <1>2, <1>3, <1>4, <1>5 DEF Kept
  <2> HIDE DEF r
  <2>3. CASE \E i \in 1 .. Len(w) : r = w[i]
    BY <2>3 DEF Left, r
  <2>4. CASE \E i \in 1 .. Len(b) : r = b[i]
    <3>1. PICK i \in 1 .. Len(b) : r = b[i]
      BY <2>4
    <3>2. i # h
      BY <2>1, <3>1
    <3>3. ~ (i < h)
      <4> SUFFICES ASSUME i < h PROVE FALSE
        OBVIOUS
      <4>1. Place(r) < Place(b[h])
        BY <1>1, <3>1 DEF Sorted
      <4>2. \A y, z \in Nat : 2 * y + 1 < 2 * z + 2 => ~ (y > z)
        OBVIOUS
      <4>3. q[1] > b[h][1] /\ q[1] \in Nat /\ b[h][1] \in Nat
        BY <1>1, <1>2, <1>3
      <4> QED BY <2>1, <4>1, <4>2, <4>3 DEF Place
    <3>4. i - h \in 1 .. Len(x) /\ x[i - h] = b[i]
      BY <1>1, <2>2, <3>2, <3>3
    <3> QED BY <3>1, <3>4 DEF Left, r
  <2> QED BY <2>2, <2>3, <2>4 DEF Left
<1> QED BY <1>4, <1>5 DEF Kept

\* What the reader begins with is the beginning of a line, unless the connection
\* is not careful and the line not its first.
LEMMA BeginningKept ==
  ASSUME NEW t, NEW w, NEW b, NEW e, NEW a, NEW p, NEW u, NEW s,
         NEW kind,
         ConnInv(t, w, b, e, a, p, u, s, kind),
         b # <<>>, kind # "rash" \/ b[1][1] = 1
  PROVE  b[1][2] = 1
<1> SUFFICES ASSUME b[1][2] # 1 PROVE FALSE
  OBVIOUS
<1>1. /\ t \in Seq(Lines) /\ Len(t) \in Nat /\ b \in Seq(PiecesOf(t)) /\ Len(b) \in Nat
      /\ Precedes(b, w) /\ Sorted(b) /\ Kept(w, b, kind)
  BY DEF ConnInv, ConnType, Flow
<1>2. 1 \in 1 .. Len(b) /\ b[1] \in Left(w, b)
  BY <1>1 DEF Left
<1>3. b[1][1] \in 1 .. Len(t) /\ b[1][2] = 2
  BY <1>1, <1>2, PieceParts
<1> DEFINE r == <<b[1][1], 1>>
<1>4. r[1] = b[1][1] /\ r[2] = 1 /\ r \in Left(w, b)
  BY <1>1, <1>2, <1>3 DEF Kept
<1> HIDE DEF r
<1>5. ~ (Place(b[1]) < Place(r)) /\ b[1] # r
  BY <1>1, <1>3, <1>4 DEF Place
<1>6. CASE \E i \in 1 .. Len(w) : r = w[i]
  BY <1>1, <1>2, <1>5, <1>6 DEF Precedes
<1>7. CASE \E i \in 1 .. Len(b) : r = b[i]
  <2>1. PICK i \in 1 .. Len(b) : r = b[i]
    BY <1>7
  <2>2. 1 < i
    BY <1>1, <1>5, <2>1
  <2> QED BY <1>1, <1>2, <1>5, <2>1, <2>2 DEF Sorted
<1> QED BY <1>4, <1>6, <1>7 DEF Left

\* A command that only takes its line, with or without an answer.
LEMMA CommandKeeps ==
  ASSUME NEW t, NEW w, NEW b, NEW e, NEW a, NEW p, NEW u, NEW s,
         NEW kind,
         ConnInv(t, w, b, e, a, p, u, s, kind),
         NEW h \in 1 .. Len(b), b[h][2] = 2,
         NEW x \in {<<>>, SubSeq(b, h + 1, Len(b))},
         kind # "rash" => kind = "patient" \/ x = SubSeq(b, h + 1, Len(b)),
         NEW aa \in {a, a + 1}, NEW pp \in {"read", "gone"}
  PROVE  ConnInv(t, w, x, e, aa, pp, u, s, kind)
<1>1. Len(t) \in Nat /\ a \in 0 .. Len(t) + 1
  BY DEF ConnInv, ConnType
<1>2. /\ x \in Seq(PiecesOf(t)) /\ Precedes(x, w) /\ Sorted(x)
      /\ Left(w, x) \subseteq Left(w, b)
      /\ \A q \in Left(w, x) : q[1] > b[h][1]
      /\ a <= b[h][1] /\ b[h][1] \in 1 .. Len(t)
  BY CommandLeaves
<1>3. aa \in 0 .. Len(t) + 1 /\ aa <= b[h][1] + 1
  BY <1>1, <1>2
<1>4. \A q \in Left(w, x) : aa <= q[1]
  <2>1. \A q \in Left(w, x) : q[1] \in 1 .. Len(t)
    BY <1>1, <1>2, LeftParts DEF ConnInv, ConnType
  <2> QED BY <1>1, <1>2, <1>3, <2>1
<1>5. ConnType(t, w, x, e, aa, pp, u, s)
  BY <1>2, <1>3 DEF ConnInv, ConnType
<1>6. Flow(w, x, aa, pp)
  BY <1>2, <1>4 DEF ConnInv, Flow
<1>7. Own(t, w, x, u, s, kind)
  BY <1>2, OwnFewer DEF ConnInv
<1>8. Kept(w, x, kind)
  BY CommandKept
<1> QED BY <1>5, <1>6, <1>7, <1>8 DEF ConnInv

\* A command USER sets the user to its argument.
LEMMA UserKeeps ==
  ASSUME NEW t, NEW w, NEW b, NEW e, NEW a, NEW p, NEW u, NEW s,
         NEW kind,
         ConnInv(t, w, b, e, a, p, u, s, kind),
         NEW h \in 1 .. Len(b), b[h][2] = 2,
         NEW x \in {<<>>, SubSeq(b, h + 1, Len(b))},
         kind # "rash" => kind = "patient" \/ x = SubSeq(b, h + 1, Len(b)),
         NEW aa \in {a, a + 1},
         NEW v \in Args, GivesOf(t, b[1][1], kind, "USER", v)
  PROVE  ConnInv(t, w, x, e, aa, "read", v, s, kind)
<1> DEFINE n == b[1][1]
<1>1. ConnInv(t, w, x, e, aa, "read", u, s, kind)
  BY CommandKeeps
<1>2. /\ t \in Seq(Lines) /\ Len(t) \in Nat /\ w \in Seq(PiecesOf(t))
      /\ x \in Seq(PiecesOf(t))
  BY <1>1 DEF ConnInv, ConnType
<1>3. n \in 1 .. b[h][1] /\ b[h][1] \in 1 .. Len(t)
  BY CommandLeaves
<1>4. n \in 1 .. Len(t)
  BY <1>2, <1>3
<1>5. \A q \in Left(w, x) : n < q[1]
  <2>1. \A q \in Left(w, x) : q[1] > b[h][1]
    BY CommandLeaves
  <2>2. \A q \in Left(w, x) : q[1] \in 1 .. Len(t)
    BY <1>2, LeftParts
  <2> QED BY <1>2, <1>3, <2>1, <2>2
<1>6. OwnUser(t, w, x, v, kind)
  BY <1>4, <1>5 DEF OwnUser
<1>7. ConnType(t, w, x, e, aa, "read", v, s) /\ Own(t, w, x, v, s, kind)
  BY <1>1, <1>6 DEF ConnInv, ConnType, Own
<1> QED BY <1>1, <1>7 DEF ConnInv

\* A command PASS reports the user and its argument.
LEMMA PassKeeps ==
  ASSUME NEW t, NEW w, NEW b, NEW e, NEW a, NEW p, NEW u, NEW s,
         NEW kind,
         ConnInv(t, w, b, e, a, p, u, s, kind),
         NEW h \in 1 .. Len(b), b[h][2] = 2,
         NEW x \in {<<>>, SubSeq(b, h + 1, Len(b))},
         kind # "rash" => kind = "patient" \/ x = SubSeq(b, h + 1, Len(b)),
         NEW aa \in {a, a + 1},
         NEW v \in Args, GivesOf(t, b[1][1], kind, "PASS", v)
  PROVE  ConnInv(t, w, x, e, aa, "read", u, Append(s, [user |-> u, pass |-> v]), kind)
<1> DEFINE n == b[1][1]
           r == [user |-> u, pass |-> v]
           S == Append(s, r)
<1>1. ConnInv(t, w, x, e, aa, "read", u, s, kind)
  BY CommandKeeps
<1>2. /\ t \in Seq(Lines) /\ Len(t) \in Nat /\ w \in Seq(PiecesOf(t))
      /\ x \in Seq(PiecesOf(t)) /\ u \in Args /\ s \in Seq(Credentials)
  BY <1>1 DEF ConnInv, ConnType
<1>3. /\ n \in 1 .. b[h][1] /\ b[h][1] \in 1 .. Len(t) /\ Len(s) < n
      /\ b[1] \in Left(w, b)
  BY CommandLeaves
<1>4. n \in 1 .. Len(t)
  BY <1>2, <1>3
<1>5. r \in Credentials
  BY <1>2 DEF Credentials
<1>6. /\ S \in Seq(Credentials) /\ Len(S) = Len(s) + 1
      /\ S[Len(s) + 1] = r /\ \A k \in 1 .. Len(s) : S[k] = s[k]
  BY <1>2, <1>5
<1> HIDE DEF S
<1>7. OwnReport(t, S, Len(s) + 1, kind)
  <2>1. n \in Len(s) + 1 .. Len(t)
    BY <1>2, <1>3, <1>4
  <2>2. \/ u = ""
        \/ \E m \in 1 .. n - 1 : GivesOf(t, m, kind, "USER", u)
    <3>1. SUFFICES ASSUME u # ""
                   PROVE \E m \in 1 .. n - 1 : GivesOf(t, m, kind, "USER", u)
      OBVIOUS
    <3>2. PICK m \in 1 .. Len(t) :
            /\ GivesOf(t, m, kind, "USER", u)
            /\ \A q \in Left(w, b) : m < q[1]
      BY <3>1 DEF ConnInv, Own, OwnUser
    <3>3. m < n
      BY <1>3, <3>2
    <3>4. m \in 1 .. n - 1
      BY <1>2, <1>4, <3>3
    <3> QED BY <3>2, <3>4
  <2>3. S[Len(s) + 1].user = u /\ S[Len(s) + 1].pass = v
    BY <1>6
  <2> QED BY <2>1, <2>2, <2>3 DEF OwnReport
<1>8. \A k \in 1 .. Len(S) : OwnReport(t, S, k, kind)
  <2> SUFFICES ASSUME NEW k \in 1 .. Len(S) PROVE OwnReport(t, S, k, kind)
    OBVIOUS
  <2>1. k \in 1 .. Len(s) \/ k = Len(s) + 1
    BY <1>2, <1>6
  <2>2. CASE k \in 1 .. Len(s)
    <3>1. OwnReport(t, s, k, kind) /\ S[k] = s[k]
      BY <2>2, <1>1, <1>6 DEF ConnInv, Own
    <3> QED BY <3>1 DEF OwnReport
  <2> QED BY <2>1, <2>2, <1>7
<1>9. \A q \in Left(w, x) : Len(S) < q[1]
  <2>1. \A q \in Left(w, x) : q[1] > b[h][1]
    BY CommandLeaves
  <2>2. \A q \in Left(w, x) : q[1] \in 1 .. Len(t)
    BY <1>2, LeftParts
  <2>3. Len(s) \in Nat /\ Len(S) = Len(s) + 1 /\ b[h][1] \in Nat /\ Len(s) < b[h][1]
    <3> DEFINE m == b[h][1]
    <3>1. n \in 1 .. m /\ m \in 1 .. Len(t) /\ Len(s) < n
      BY <1>3
    <3>2. Len(s) \in Nat /\ Len(t) \in Nat
      BY <1>2
    <3> HIDE DEF m, n
    <3>3. m \in Nat /\ Len(s) < m
      BY <3>1, <3>2
    <3> QED BY <1>6, <3>2, <3>3 DEF m
  <2> TAKE q \in Left(w, x)
  <2>4. q[1] > b[h][1] /\ q[1] \in Nat
    BY <2>1, <2>2
  <2> QED BY <2>3, <2>4
<1>10. Own(t, w, x, u, S, kind)
  BY <1>1, <1>8, <1>9 DEF ConnInv, Own
<1> QED BY <1>1, <1>6, <1>10 DEF ConnInv, ConnType, S

-----------------------------------------------------------------------------
(***************************************************************************)
(* The steps of LinePot                                                    *)
(***************************************************************************)

\* What another connection has does not change with a step of c.
Alone(c) ==
  /\ up' \in BOOLEAN /\ patient' = patient
  /\ Tables'
  /\ \A d \in Conns \ {c} :
       /\ typed'[d] = typed[d] /\ wire'[d] = wire[d] /\ buf'[d] = buf[d]
       /\ ended'[d] = ended[d] /\ answers'[d] = answers[d] /\ pc'[d] = pc[d]
       /\ user'[d] = user[d] /\ started'[d] = started[d]

Step(c) == WriteLine(c) \/ CloseConn(c) \/ Reset(c) \/ Session(c)

\* Each step is that of one connection.
LEMMA StepAlone ==
  ASSUME OwnInv, NEW c \in Conns, Step(c)
  PROVE  Alone(c)
<1>0. up \in BOOLEAN /\ Tables
  BY DEF OwnInv
<1>1. CASE WriteLine(c)
  BY <1>0, <1>1 DEF WriteLine, Alone, Tables
<1>2. CASE CloseConn(c)
  BY <1>0, <1>2 DEF CloseConn, Alone, Tables
<1>3. CASE Reset(c)
  BY <1>0, <1>3 DEF Reset, Alone, Tables
<1>4. CASE Greet(c)
  BY <1>0, <1>4 DEF Greet, Answer, Return, Alone, Tables
<1>5. CASE Fill(c)
  BY <1>0, <1>5 DEF Fill, Alone, Tables
<1>6. CASE EndOfInput(c)
  BY <1>0, <1>6 DEF EndOfInput, Return, Alone, Tables
<1>7. CASE CarryOut(c)
  <2>1. PICK words \in Commands(c) :
          NoArgument(c, words) \/ User(c, words) \/ Pass(c, words) \/ Quit(c, words)
            \/ Unknown(c, words)
    BY <1>7 DEF CarryOut
  <2>2. CASE NoArgument(c, words)
    BY <1>0, <2>2 DEF NoArgument, Alone, Tables
  <2>3. CASE User(c, words)
    BY <1>0, <2>3 DEF User, NextCommand, SetUser, Answer, Return, Alone, Tables
  <2>4. CASE Pass(c, words)
    BY <1>0, <2>4 DEF Pass, NextCommand, Answer, Alone, Tables
  <2>5. CASE Quit(c, words)
    BY <1>0, <2>5 DEF Quit, Return, Alone, Tables
  <2>6. CASE Unknown(c, words)
    BY <1>0, <2>6 DEF Unknown, NextCommand, Answer, Alone, Tables
  <2> QED BY <2>1, <2>2, <2>3, <2>4, <2>5, <2>6
<1> QED BY <1>1, <1>2, <1>3, <1>4, <1>5, <1>6, <1>7 DEF Step, Session

\* The line that HasLine finds, the reader after it, and its words.
LEMMA CommandParts ==
  ASSUME OwnInv, NEW c \in Conns, HasLine(c), NEW words \in Commands(c)
  PROVE  /\ pc[c] = "read" /\ EndOfLine(c) \in 1 .. Len(buf[c])
         /\ buf[c][EndOfLine(c)][2] = 2
         /\ LeftOver(c) \in {<<>>, SubSeq(buf[c], EndOfLine(c) + 1, Len(buf[c]))}
         /\ Kind(c) # "rash" =>
              \/ Kind(c) = "patient"
              \/ LeftOver(c) = SubSeq(buf[c], EndOfLine(c) + 1, Len(buf[c]))
         /\ GivesOf(typed[c], buf[c][1][1], Kind(c), Cmd(words), Arg(words))
         /\ Arg(words) \in Args
<1>1. Newlines(c) \subseteq 1 .. Len(buf[c]) /\ Newlines(c) # {} /\ pc[c] = "read"
  BY DEF HasLine, Newlines
<1>2. /\ Inv(c) /\ typed[c] \in Seq(Lines) /\ buf[c] \in Seq(PiecesOf(typed[c]))
      /\ Len(buf[c]) \in Nat /\ Len(typed[c]) \in Nat
  BY DEF OwnInv, Inv, ConnInv, ConnType
<1>3. Newlines(c) \subseteq Nat
  BY <1>1, <1>2
<1>4. PICK h \in Newlines(c) : \A k \in Newlines(c) : h <= k
  BY <1>1, <1>3, Least
<1>5. EndOfLine(c) \in Newlines(c)
  BY <1>4 DEF EndOfLine, Min
<1>6. /\ EndOfLine(c) \in 1 .. Len(buf[c])
      /\ buf[c][EndOfLine(c)][2] = 2
  BY <1>5 DEF Newlines
<1>7. /\ LeftOver(c) \in {<<>>, SubSeq(buf[c], EndOfLine(c) + 1, Len(buf[c]))}
      /\ Kind(c) # "rash" => \/ Kind(c) = "patient"
                             \/ LeftOver(c) = SubSeq(buf[c], EndOfLine(c) + 1, Len(buf[c]))
  BY DEF LeftOver, Kind
<1> DEFINE n == buf[c][1][1]
<1>8. buf[c] # <<>> /\ 1 \in 1 .. Len(buf[c])
  BY <1>2, <1>6
<1>9. n \in 1 .. Len(typed[c])
  BY <1>2, <1>8, PieceParts
<1>10. typed[c][n] \in Lines
  BY <1>2, <1>9
<1>11. Kind(c) # "rash" \/ n = 1 => buf[c][1][2] = 1
  BY <1>2, <1>8, BeginningKept DEF Inv
<1>12. \/ words = typed[c][n]
       \/ ~ (Kind(c) # "rash" \/ n = 1) /\ words \in Tails(typed[c][n])
  BY <1>11 DEF Commands
<1> HIDE DEF n
<1>13. GivesOf(typed[c], n, Kind(c), Cmd(words), Arg(words))
  BY <1>12 DEF GivesOf
<1>14. Arg(words) \in Args
  BY <1>10, <1>12 DEF Args
<1> QED BY <1>1, <1>6, <1>7, <1>13, <1>14 DEF n

\* Every step preserves the invariant of its connection.
LEMMA StepKeeps ==
  ASSUME OwnInv, NEW c \in Conns, Step(c)
  PROVE  Inv(c)'
<1> DEFINE t == typed[c]  w == wire[c]  b == buf[c]  e == ended[c]
           a == answers[c]  p == pc[c]  u == user[c]  s == started[c]
           kind == Kind(c)
<1>0. Kind(c)' = kind
  BY StepAlone DEF Alone, Kind
<1>1. ConnInv(t, w, b, e, a, p, u, s, kind) /\ Tables
  BY DEF OwnInv, Inv
<1>2. a \in Nat /\ p \in {"greet", "read", "gone"}
  <2>1. Len(t) \in Nat
    BY <1>1 DEF ConnInv, ConnType
  <2> QED BY <1>1, <2>1 DEF ConnInv, ConnType
<1>3. CASE WriteLine(c)
  <2>1. PICK line \in Lines : typed' = [typed EXCEPT ![c] = Append(@, line)]
    BY <1>3 DEF WriteLine
  <2>2. /\ typed'[c] = Append(t, line)
        /\ wire'[c] = w \o <<<<Len(t) + 1, 1>>, <<Len(t) + 1, 2>>>>
    BY <1>1, <1>3, <2>1 DEF WriteLine, Tables
  <2>3. ConnInv(Append(t, line), w \o <<<<Len(t) + 1, 1>>, <<Len(t) + 1, 2>>>>,
                b, e, a, p, u, s, kind)
    <3>1. kind = "patient" => a > Len(t)
      BY <1>3 DEF WriteLine, Kind
    <3> HIDE DEF t, w, b, e, a, p, u, s, kind
    <3> QED BY <1>1, <3>1, WriteKeeps
  <2> QED BY <1>0, <1>3, <2>2, <2>3 DEF WriteLine, Inv
<1>4. CASE CloseConn(c)
  <2>1. /\ typed' = typed /\ wire' = wire /\ buf' = buf /\ ended'[c] = "closed"
        /\ answers' = answers /\ pc' = pc /\ user' = user /\ started' = started
    BY <1>1, <1>4 DEF CloseConn, Tables
  <2>2. ConnInv(t, w, b, "closed", a, p, u, s, kind)
    BY <1>1 DEF ConnInv, ConnType
  <2> QED BY <1>0, <2>1, <2>2 DEF Inv
<1>5. CASE Reset(c)
  <2>1. /\ typed' = typed /\ wire'[c] = <<>> /\ buf' = buf /\ ended'[c] = "reset"
        /\ answers' = answers /\ pc' = pc /\ user' = user /\ started' = started
    BY <1>1, <1>5 DEF Reset, Tables
  <2>2. Left(<<>>, b) \subseteq Left(w, b)
    BY DEF Left
  <2>3. ConnType(t, <<>>, b, "reset", a, p, u, s)
    BY <1>1 DEF ConnInv, ConnType, Precedes
  <2>4. Flow(<<>>, b, a, p)
    BY <1>1, <2>2 DEF ConnInv, Flow, Sorted
  <2>5. Own(t, <<>>, b, u, s, kind)
    BY <1>1, <2>2, OwnFewer DEF ConnInv
  <2>6. Kept(<<>>, b, kind)
    <3>1. ASSUME NEW q \in Left(<<>>, b), q[2] = 2, kind # "rash" \/ q[1] = 1
          PROVE  <<q[1], 1>> \in Left(<<>>, b)
      BY <1>1, <2>2, <3>1, WireLater
    <3>2. kind = "patient" => \A q, r \in Left(<<>>, b) : q[1] = r[1]
      BY <1>1, <2>2 DEF ConnInv, Kept
    <3> HIDE DEF kind, b
    <3> QED BY <3>1, <3>2 DEF Kept
  <2> QED BY <1>0, <2>1, <2>3, <2>4, <2>5, <2>6 DEF Inv, ConnInv
<1>6. CASE Greet(c)
  <2>1. /\ typed' = typed /\ wire' = wire /\ buf' = buf /\ ended' = ended
        /\ user' = user /\ started' = started
        /\ p = "greet"
        /\ pc'[c] \in {"read", "gone"} /\ answers'[c] \in {a, a + 1}
    BY <1>1, <1>6 DEF Greet, Answer, Return, Tables
  <2>2. a = 0 /\ Len(t) \in Nat /\ w \in Seq(PiecesOf(t)) /\ b \in Seq(PiecesOf(t))
    BY <1>1, <2>1 DEF ConnInv, ConnType, Flow
  <2>3. answers'[c] \in 0 .. Len(t) + 1 /\ answers'[c] <= 1
    BY <2>1, <2>2
  <2>4. \A q \in Left(w, b) : answers'[c] <= q[1]
    <3>1. \A q \in Left(w, b) : q[1] \in 1 .. Len(t)
      BY <2>2, LeftParts
    <3> QED BY <2>2, <2>3, <3>1
  <2>5. ConnInv(t, w, b, e, answers'[c], pc'[c], u, s, kind)
    BY <1>1, <2>1, <2>3, <2>4 DEF ConnInv, ConnType, Flow
  <2> QED BY <1>0, <2>1, <2>5 DEF Inv
<1>7. CASE Fill(c)
  <2>1. PICK k \in 1 .. Len(w) :
          /\ buf' = [buf EXCEPT ![c] = @ \o SubSeq(w, 1, k)]
          /\ wire' = [wire EXCEPT ![c] = Rest(c, k)]
    BY <1>7 DEF Fill
  <2>2. buf'[c] = b \o SubSeq(w, 1, k) /\ wire'[c] = SubSeq(w, k + 1, Len(w))
    BY <1>1, <2>1 DEF Rest, Tables
  <2>3. ConnInv(t, SubSeq(w, k + 1, Len(w)), b \o SubSeq(w, 1, k), e, a, p, u, s, kind)
    BY <1>1, FillKeeps
  <2> QED BY <1>0, <1>7, <2>2, <2>3 DEF Fill, Inv
<1>8. CASE EndOfInput(c)
  <2>1. /\ typed' = typed /\ wire' = wire /\ buf' = buf /\ ended' = ended
        /\ answers' = answers /\ pc'[c] = "gone" /\ user' = user /\ started' = started
    BY <1>1, <1>8 DEF EndOfInput, Return, Tables
  <2>2. ConnInv(t, w, b, e, a, "gone", u, s, kind)
    BY <1>1 DEF ConnInv, ConnType, Flow
  <2> QED BY <1>0, <2>1, <2>2 DEF Inv
<1>9. CASE CarryOut(c)
  <2> DEFINE h == EndOfLine(c)
             x == LeftOver(c)
             n == b[1][1]
  <2>1. PICK words \in Commands(c) :
          NoArgument(c, words) \/ User(c, words) \/ Pass(c, words) \/ Quit(c, words)
            \/ Unknown(c, words)
    BY <1>9 DEF CarryOut
  <2> DEFINE v == Arg(words)
  <2>2. /\ p = "read" /\ h \in 1 .. Len(b) /\ b[h][2] = 2
        /\ x \in {<<>>, SubSeq(b, h + 1, Len(b))}
        /\ kind # "rash" => kind = "patient" \/ x = SubSeq(b, h + 1, Len(b))
        /\ GivesOf(t, n, kind, Cmd(words), v)
        /\ v \in Args
    BY <1>9, CommandParts DEF CarryOut
  <2>3. CASE NoArgument(c, words)
    BY <1>0, <1>1, <2>3 DEF NoArgument, Inv
  <2>4. CASE User(c, words)
    <3>1. /\ typed' = typed /\ wire' = wire /\ ended' = ended /\ started' = started
          /\ buf'[c] = x /\ answers'[c] \in {a, a + 1} /\ Cmd(words) = "USER"
          /\ \/ user'[c] = v /\ pc' = pc
             \/ user' = user /\ pc'[c] = "gone"
      BY <1>1, <2>4 DEF User, NextCommand, SetUser, Answer, Return, Tables
    <3> HIDE DEF h, x, n, v, t, w, b, e, a, p, u, s, kind
    <3>2. ConnInv(t, w, x, e, answers'[c], "gone", u, s, kind)
      BY <1>1, <2>2, <3>1, CommandKeeps
    <3>3. GivesOf(t, b[1][1], kind, "USER", v)
      BY <2>2, <3>1 DEF n
    <3>4. ConnInv(t, w, x, e, answers'[c], "read", v, s, kind)
      BY <1>1, <2>2, <3>1, <3>3, UserKeeps
    <3> USE DEF t, w, b, e, a, p, u, s, kind
    <3> QED BY <1>0, <2>2, <3>1, <3>2, <3>4 DEF Inv
  <2>5. CASE Pass(c, words)
    <3>1. /\ typed' = typed /\ wire' = wire /\ ended' = ended /\ pc' = pc /\ user' = user
          /\ buf'[c] = x /\ answers'[c] \in {a, a + 1} /\ Cmd(words) = "PASS"
          /\ started'[c] = Append(s, [user |-> u, pass |-> v])
      BY <1>1, <2>5 DEF Pass, NextCommand, Answer, Tables
    <3> DEFINE aa == answers'[c]
    <3> HIDE DEF h, x, n, v, t, w, b, e, a, p, u, s, kind
    <3>2. GivesOf(t, b[1][1], kind, "PASS", v) /\ aa \in {a, a + 1}
      BY <2>2, <3>1 DEF n
    <3> HIDE DEF aa
    <3>3. /\ h \in 1 .. Len(b) /\ b[h][2] = 2 /\ v \in Args
          /\ x \in {<<>>, SubSeq(b, h + 1, Len(b))}
          /\ kind # "rash" => kind = "patient" \/ x = SubSeq(b, h + 1, Len(b))
      BY <2>2
    <3>4. ConnInv(t, w, x, e, aa, "read", u, Append(s, [user |-> u, pass |-> v]), kind)
      BY <1>1, <3>2, <3>3, PassKeeps
    <3> USE DEF t, w, b, e, a, p, u, s, kind, aa
    <3> QED BY <1>0, <2>2, <3>1, <3>4 DEF Inv
  <2>6. CASE Quit(c, words)
    <3>1. /\ typed' = typed /\ wire' = wire /\ buf' = buf /\ ended' = ended
          /\ answers' = answers /\ pc'[c] = "gone" /\ user' = user /\ started' = started
      BY <1>1, <2>6 DEF Quit, Return, Tables
    <3>2. ConnInv(t, w, b, e, a, "gone", u, s, kind)
      BY <1>1 DEF ConnInv, ConnType, Flow
    <3> QED BY <1>0, <3>1, <3>2 DEF Inv
  <2>7. CASE Unknown(c, words)
    <3>1. /\ typed' = typed /\ wire' = wire /\ ended' = ended /\ pc' = pc /\ user' = user
          /\ started' = started /\ buf'[c] = x /\ answers'[c] \in {a, a + 1}
      BY <1>1, <2>7 DEF Unknown, NextCommand, Answer, Tables
    <3> HIDE DEF h, x, n, v, t, w, b, e, a, p, u, s, kind
    <3>2. ConnInv(t, w, x, e, answers'[c], "read", u, s, kind)
      BY <1>1, <2>2, <3>1, CommandKeeps
    <3> USE DEF t, w, b, e, a, p, u, s, kind
    <3> QED BY <1>0, <2>2, <3>1, <3>2 DEF Inv
  <2> QED BY <2>1, <2>3, <2>4, <2>5, <2>6, <2>7
<1> QED BY <1>3, <1>4, <1>5, <1>6, <1>7, <1>8, <1>9 DEF Step, Session

\* OwnInv holds at the beginning.
LEMMA OwnInit == Init => OwnInv
<1> SUFFICES ASSUME Init PROVE OwnInv
  OBVIOUS
<1>1. up \in BOOLEAN /\ patient \subseteq Ftp /\ Tables
  BY DEF Init, Tables
<1>2. ASSUME NEW c \in Conns PROVE Inv(c)
  <2>1. ConnType(<<>>, <<>>, <<>>, "no", 0, "greet", "", <<>>)
    <3>1. \A S : <<>> \in Seq(S) /\ Len(<<>>) = 0 /\ 0 \in 0 .. 0 + 1
      OBVIOUS
    <3>2. "" \in Args
      BY DEF Args
    <3>3. Precedes(<<>>, <<>>)
      BY DEF Precedes
    <3> HIDE DEF Precedes
    <3> QED BY <3>1, <3>2, <3>3 DEF ConnType
  <2>2. /\ Flow(<<>>, <<>>, 0, "greet") /\ Kept(<<>>, <<>>, Kind(c))
        /\ Own(<<>>, <<>>, <<>>, "", <<>>, Kind(c))
    BY DEF Flow, Kept, Own, OwnUser, Left, Sorted
  <2> QED BY <2>1, <2>2 DEF Init, Inv, ConnInv
<1> QED BY <1>1, <1>2 DEF OwnInv

\* Every step preserves OwnInv.
LEMMA OwnNext == OwnInv /\ [Next]_vars => OwnInv'
<1> SUFFICES ASSUME OwnInv, [Next]_vars PROVE OwnInv'
  OBVIOUS
<1>1. CASE UNCHANGED vars
  BY <1>1 DEF vars, OwnInv, Inv, Tables, Kind
<1>2. ASSUME NEW c \in Conns, Step(c) PROVE OwnInv'
  <2>1. Alone(c) /\ Inv(c)'
    BY <1>2, StepAlone, StepKeeps
  <2>2. ASSUME NEW d \in Conns \ {c} PROVE Inv(d)'
    BY <2>1 DEF OwnInv, Inv, Alone, Kind
  <2> QED BY <2>1, <2>2 DEF OwnInv, Alone
<1> QED BY <1>1, <1>2 DEF Next, Step

\* The pieces that are read and the lines reported stay in the order in which
\* the clients wrote them.
THEOREM OwnInvariant == Spec => []OwnInv
BY OwnInit, OwnNext, PTL DEF Spec

\* Every variable has its type; no client receives more answers than it wrote
\* lines, apart from the greeting.
THEOREM TypeCorrect == Spec => []TypeOK
<1>1. OwnInv => TypeOK
  BY DEF OwnInv, Inv, ConnInv, ConnType, TypeOK, Pieces, PiecesOf, Precedes, Place,
         Credentials
<1> QED BY <1>1, OwnInvariant, PTL

\* Whatever lines the readers lose and however connections break: the k-th
\* credentials that the FTP or the POP pot reports of a connection have the
\* password of a PASS that its client wrote, as its k-th line or a later one, and
\* the user of a USER that it wrote as an earlier line, or none.  The command is
\* the line itself, unless an FTP client went on without the answers: then it may
\* also be the end of any line but the first.
THEOREM CredentialsOwn == Spec => []OwnCredentials
<1>1. ASSUME OwnInv PROVE OwnCredentials
  <2>1. ASSUME NEW c \in Conns, NEW k \in 1 .. Len(started[c])
        PROVE  OwnReport(typed[c], started[c], k, Kind(c))
    BY <1>1, <2>1 DEF OwnInv, Inv, ConnInv, Own
  <2>2. ASSUME NEW c \in Conns, NEW n, NEW command, NEW arg,
               GivesOf(typed[c], n, Kind(c), command, arg)
        PROVE  Gives(c, n, command, arg)
    <3>1. Kind(c) # "rash" => c \in Careful
      BY DEF Kind, Careful
    <3>2. c \in Careful => Kind(c) # "rash"
      BY DEF Kind, Careful
    <3> QED BY <2>2, <3>1, <3>2 DEF GivesOf, Gives, Whole
  <2> QED BY <2>1, <2>2 DEF OwnReport, OwnCredentials
<1> QED BY <1>1, OwnInvariant, PTL
=============================================================================
