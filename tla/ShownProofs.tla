---------------------------- MODULE ShownProofs ----------------------------
(***************************************************************************)
(* The way of an answer, for any bounds on its text, its items and its     *)
(* turns: what the upstream sent, what is kept and what the user has seen  *)
(* are the same.                                                           *)
(*                                                                         *)
(* The argument: of each accumulator there is what is due (the blocks it   *)
(* keeps, and the text of an open block that it will keep on closing),     *)
(* what is read (the log since the turn began and the live text), and what *)
(* the parser holds back. Opening and closing a block add nothing to what  *)
(* is due or read; a chunk adds its pieces to both, last, because it goes  *)
(* to the last block of text that is kept and to the line that is being    *)
(* drawn; and a fragment makes the parser pass on what it held, then what  *)
(* has come, but for what it holds now. So at every step of a call what    *)
(* was sent is what is due followed by what is held, and is also what is   *)
(* read followed by it; and the end of a call leaves nothing held.         *)
(***************************************************************************)
EXTENDS AnswersProofs

-----------------------------------------------------------------------------
(* Sequences of pieces with the side of the fence they are on.             *)

Marks == Seq(Answers!Streamed \X Answers!Pieces)

\* Joining is associative.
LEMMA Associates ==
    ASSUME NEW a \in Marks, NEW b \in Marks, NEW c \in Marks
    PROVE  (a \o b) \o c = a \o (b \o c) /\ a \o b \in Marks
  BY DEF Marks

\* The empty sequence is neutral.
LEMMA EmptyJoins ==
    ASSUME NEW a \in Marks
    PROVE  << >> \in Marks /\ a \o << >> = a /\ << >> \o a = a
  BY DEF Marks

\* Tagged content is marks.
LEMMA TaggedType ==
    ASSUME NEW kind \in Answers!Streamed, NEW pieces \in Content
    PROVE  Answers!Tagged(kind, pieces) \in Marks /\ Answers!Tagged(kind, << >>) = << >>
<1>1. PICK n \in Nat : n = Len(pieces) /\ pieces \in [1 .. n -> Answers!Pieces]
  BY DEF Content
<1>2. Answers!Tagged(kind, pieces) \in [1 .. n -> Answers!Streamed \X Answers!Pieces]
  BY <1>1 DEF Answers!Tagged
<1>3. Answers!Tagged(kind, << >>) = << >>
  BY DEF Answers!Tagged
<1> QED
  BY <1>2, <1>3 DEF Marks

\* What joins two sequences.
LEMMA JoinIs ==
    ASSUME NEW S, NEW a \in Seq(S), NEW b \in Seq(S)
    PROVE  /\ a \o b \in Seq(S) /\ Len(a) \in Nat /\ Len(b) \in Nat
           /\ Len(a \o b) = Len(a) + Len(b)
           /\ \A i \in 1 .. Len(a) : (a \o b)[i] = a[i]
           /\ \A i \in 1 .. Len(b) : (a \o b)[Len(a) + i] = b[i]
  OBVIOUS

\* What tags content, member by member.
LEMMA TaggedIs ==
    ASSUME NEW kind \in Answers!Streamed, NEW pieces \in Content
    PROVE  /\ Answers!Tagged(kind, pieces) \in Marks
           /\ Len(Answers!Tagged(kind, pieces)) = Len(pieces)
           /\ \A i \in 1 .. Len(pieces) : Answers!Tagged(kind, pieces)[i] = <<kind, pieces[i]>>
<1>1. PICK n \in Nat : n = Len(pieces) /\ DOMAIN pieces = 1 .. n
  BY DEF Content
<1>2. PICK t : t = Answers!Tagged(kind, pieces)
  OBVIOUS
<1>3. t = [i \in 1 .. n |-> <<kind, pieces[i]>>]
  BY <1>1, <1>2 DEF Answers!Tagged
<1>4. t \in Marks
  BY <1>2, TaggedType
<1>5. Len(t) = n
  BY <1>1, <1>3, <1>4 DEF Marks
<1> QED
  BY <1>1, <1>2, <1>3, <1>4, <1>5

\* Joined content is tagged as its parts are.
LEMMA TaggedJoins ==
    ASSUME NEW kind \in Answers!Streamed, NEW a \in Content, NEW b \in Content
    PROVE  Answers!Tagged(kind, a \o b) = Answers!Tagged(kind, a) \o Answers!Tagged(kind, b)
<1>1. PICK m \in Nat, n \in Nat : m = Len(a) /\ n = Len(b)
  BY DEF Content
<1>2. PICK ab \in Content : ab = a \o b
  <2>1. a \o b \in Content
    BY JoinIs, Zenon DEF Content
  <2> QED
    BY <2>1, Zenon
<1>3. /\ Len(ab) = m + n /\ \A i \in 1 .. m : ab[i] = a[i]
      /\ \A i \in 1 .. n : ab[m + i] = b[i]
  BY <1>1, <1>2, JoinIs DEF Content
<1>4. PICK s \in Marks : /\ s = Answers!Tagged(kind, a) /\ Len(s) = m
                         /\ \A i \in 1 .. m : s[i] = <<kind, a[i]>>
  BY <1>1, TaggedIs, Zenon
<1>5. PICK t \in Marks : /\ t = Answers!Tagged(kind, b) /\ Len(t) = n
                         /\ \A i \in 1 .. n : t[i] = <<kind, b[i]>>
  BY <1>1, TaggedIs, Zenon
<1>6. PICK u \in Marks : /\ u = Answers!Tagged(kind, ab) /\ Len(u) = m + n
                         /\ \A i \in 1 .. m + n : u[i] = <<kind, ab[i]>>
  BY <1>3, TaggedIs, Zenon
<1>7. PICK v \in Marks : /\ v = s \o t /\ Len(v) = m + n
                         /\ \A i \in 1 .. m : v[i] = s[i]
                         /\ \A i \in 1 .. n : v[m + i] = t[i]
  <2>1. /\ s \o t \in Marks /\ Len(s \o t) = Len(s) + Len(t)
        /\ \A i \in 1 .. Len(s) : (s \o t)[i] = s[i]
        /\ \A i \in 1 .. Len(t) : (s \o t)[Len(s) + i] = t[i]
    <3>1. PICK S : Marks = Seq(S)
      BY DEF Marks
    <3>2. s \in Seq(S) /\ t \in Seq(S)
      BY <3>1
    <3>3. s \o t \in Seq(S)
      BY <3>2, JoinIs
    <3>4. /\ Len(s \o t) = Len(s) + Len(t)
          /\ \A i \in 1 .. Len(s) : (s \o t)[i] = s[i]
          /\ \A i \in 1 .. Len(t) : (s \o t)[Len(s) + i] = t[i]
      BY <3>2, JoinIs
    <3> QED
      BY <3>1, <3>3, <3>4, Zenon
  <2> QED
    BY <1>4, <1>5, <2>1, Zenon
<1>8. ASSUME NEW i \in 1 .. m + n PROVE u[i] = v[i]
  <2>1. CASE i \in 1 .. m
    BY <1>3, <1>4, <1>6, <1>7, <2>1, ZenonT(30)
  <2>2. CASE i \notin 1 .. m
    <3>1. PICK j \in 1 .. n : i = m + j
      <4>1. i - m \in 1 .. n /\ i = m + (i - m)
        BY <2>2
      <4> QED
        BY <4>1
    <3>2. ab[i] = b[j] /\ v[i] = t[j] /\ t[j] = <<kind, b[j]>>
      BY <1>3, <1>5, <1>7, <3>1
    <3> QED
      BY <1>6, <3>2
  <2> QED
    BY <2>1, <2>2
<1>9. u = v
  BY <1>6, <1>7, <1>8 DEF Marks
<1> QED
  BY <1>2, <1>4, <1>5, <1>6, <1>7, <1>9

-----------------------------------------------------------------------------
(* What is joined: a part more, a part that grows, two lists of parts.     *)

\* A joining function of some parts.
Joining(c, parts) ==
    /\ c \in [0 .. Len(parts) -> Marks] /\ c[0] = << >>
    /\ \A i \in 1 .. Len(parts) : c[i] = c[i - 1] \o parts[i]
    /\ Answers!Concat(parts) = c[Len(parts)]

\* Every list of parts has one: Concat's.
LEMMA JoiningIs == ASSUME NEW parts \in Seq(Marks) PROVE \E c : Joining(c, parts)
<1>1. PICK c \in [0 .. Len(parts) -> Marks] :
              /\ c[0] = << >> /\ \A i \in 1 .. Len(parts) : c[i] = c[i - 1] \o parts[i]
              /\ Answers!Concat(parts) = c[Len(parts)]
  BY ConcatIs, Zenon DEF Marks
<1> QED
  BY <1>1, Zenon DEF Joining

\* Parts that are alike up to a place are joined alike up to there.
LEMMA JoinedAlike ==
    ASSUME NEW p \in Seq(Marks), NEW q \in Seq(Marks), NEW c, NEW d,
           Joining(c, p), Joining(d, q),
           NEW n \in Nat, n <= Len(p), n <= Len(q), \A i \in 1 .. n : p[i] = q[i]
    PROVE  \A i \in 0 .. n : c[i] = d[i]
<1> DEFINE T == {i \in 0 .. n : c[i] = d[i]}
<1>1. 0 \in T
  BY DEF Joining
<1>2. ASSUME NEW i \in 0 .. n - 1, i \in T PROVE i + 1 \in T
  <2>1. /\ i + 1 \in 1 .. n /\ i + 1 \in 0 .. n /\ (i + 1) - 1 = i
        /\ i + 1 \in 1 .. Len(p) /\ i + 1 \in 1 .. Len(q)
    OBVIOUS
  <2>2. c[i + 1] = c[i] \o p[i + 1] /\ d[i + 1] = d[i] \o q[i + 1]
    BY <2>1, Zenon DEF Joining
  <2>3. p[i + 1] = q[i + 1] /\ c[i] = d[i]
    BY <1>2, <2>1
  <2> QED
    BY <2>1, <2>2, <2>3, Zenon
<1> HIDE DEF T
<1>3. 0 .. n \subseteq T
  BY <1>1, <1>2, UpTo, Zenon
<1> QED
  BY <1>3 DEF T

\* One part more is joined last.
LEMMA ConcatAppends ==
    ASSUME NEW p \in Seq(Marks), NEW x \in Marks
    PROVE  Answers!Concat(Append(p, x)) = Answers!Concat(p) \o x
<1>1. PICK q \in Seq(Marks) : q = Append(p, x)
  <2>1. Append(p, x) \in Seq(Marks)
    OBVIOUS
  <2> QED
    BY <2>1, Zenon
<1>2. PICK n \in Nat : n = Len(p)
  OBVIOUS
<1>3. Len(q) = n + 1 /\ q[n + 1] = x /\ \A i \in 1 .. n : p[i] = q[i]
  BY <1>1, <1>2
<1>4. PICK c : Joining(c, p)
  BY JoiningIs
<1>5. PICK d : Joining(d, q)
  BY JoiningIs
<1>6. c[n] = d[n]
  <2>1. n \in 0 .. n /\ n <= Len(p) /\ n <= Len(q)
    BY <1>2, <1>3
  <2>2. \A i \in 0 .. n : c[i] = d[i]
    BY <1>3, <1>4, <1>5, <2>1, JoinedAlike
  <2> QED
    BY <2>1, <2>2
<1>7. d[n + 1] = d[n] \o x
  <2>1. n + 1 \in 1 .. Len(q) /\ (n + 1) - 1 = n
    BY <1>3
  <2> QED
    BY <1>3, <1>5, <2>1, Zenon DEF Joining
<1> QED
  BY <1>1, <1>2, <1>3, <1>4, <1>5, <1>6, <1>7 DEF Joining

\* A part grows that nothing comes after.
LEMMA ConcatGrows ==
    ASSUME NEW p \in Seq(Marks), NEW q \in Seq(Marks), Len(q) = Len(p),
           NEW n \in 1 .. Len(p), NEW x \in Marks, q[n] = p[n] \o x,
           \A i \in 1 .. n - 1 : p[i] = q[i],
           \A i \in n + 1 .. Len(p) : p[i] = << >> /\ q[i] = << >>
    PROVE  Answers!Concat(q) = Answers!Concat(p) \o x
<1>1. PICK c : Joining(c, p)
  BY JoiningIs
<1>2. PICK d : Joining(d, q)
  BY JoiningIs
<1>3. PICK m \in Nat : m = n - 1
  OBVIOUS
<1>4. c[m] = d[m]
  <2>1. m \in 0 .. m /\ m <= Len(p) /\ m <= Len(q) /\ \A i \in 1 .. m : p[i] = q[i]
    BY <1>3
  <2>2. \A i \in 0 .. m : c[i] = d[i]
    BY <1>1, <1>2, <2>1, JoinedAlike
  <2> QED
    BY <2>1, <2>2
<1>5. d[n] = c[n] \o x
  <2>1. c[n] = c[m] \o p[n] /\ d[n] = d[m] \o q[n]
    BY <1>1, <1>2, <1>3, Zenon DEF Joining
  <2>2. c[m] \in Marks /\ p[n] \in Marks
    <3>1. m \in 0 .. Len(p) /\ n \in 1 .. Len(p)
      BY <1>3
    <3> QED
      BY <1>1, <3>1 DEF Joining
  <2>3. (c[m] \o p[n]) \o x = c[m] \o (p[n] \o x)
    BY <2>2, Associates, Zenon
  <2> QED
    BY <1>4, <2>1, <2>3
<1> DEFINE T == {i \in 0 .. Len(p) - n : d[n + i] = c[n + i] \o x}
<1>6. 0 \in T
  <2>1. n + 0 = n /\ 0 \in 0 .. Len(p) - n
    OBVIOUS
  <2> QED
    BY <1>5, <2>1
<1>7. ASSUME NEW i \in 0 .. Len(p) - n - 1, i \in T PROVE i + 1 \in T
  <2>1. PICK k \in n + 1 .. Len(p) : k = n + (i + 1) /\ k - 1 = n + i /\ k \in 1 .. Len(p)
                                     /\ k - 1 \in 0 .. Len(p)
    <3>1. /\ n + (i + 1) \in n + 1 .. Len(p) /\ (n + (i + 1)) - 1 = n + i
          /\ n + (i + 1) \in 1 .. Len(p) /\ n + i \in 0 .. Len(p)
      OBVIOUS
    <3> QED
      BY <3>1
  <2>2. c[k] = c[k - 1] \o << >> /\ d[k] = d[k - 1] \o << >>
    BY <1>1, <1>2, <2>1, Zenon DEF Joining
  <2>3. c[k - 1] \in Marks /\ d[k - 1] \in Marks
    BY <1>1, <1>2, <2>1, Zenon DEF Joining
  <2>4. c[k] = c[k - 1] /\ d[k] = d[k - 1]
    BY <2>2, <2>3, EmptyJoins
  <2>5. d[k - 1] = c[k - 1] \o x
    BY <1>7, <2>1, Zenon
  <2>6. d[n + (i + 1)] = c[n + (i + 1)] \o x
    BY <2>1, <2>4, <2>5
  <2>7. i + 1 \in 0 .. Len(p) - n
    OBVIOUS
  <2> QED
    BY <2>6, <2>7
<1> HIDE DEF T
<1>8. PICK r \in Nat : r = Len(p) - n
  <2>1. Len(p) - n \in Nat
    OBVIOUS
  <2> QED
    BY <2>1, Zenon
<1>9. 0 .. r \subseteq T
  BY <1>6, <1>7, <1>8, UpTo, Zenon
<1>10. d[n + r] = c[n + r] \o x
  <2>1. r \in T
    BY <1>9
  <2> QED
    BY <2>1 DEF T
<1> QED
  BY <1>1, <1>2, <1>8, <1>10 DEF Joining

\* Two lists of parts are joined one after the other.
LEMMA ConcatJoins ==
    ASSUME NEW p \in Seq(Marks), NEW q \in Seq(Marks)
    PROVE  Answers!Concat(p \o q) = Answers!Concat(p) \o Answers!Concat(q)
<1>1. PICK r \in Seq(Marks) : r = p \o q
  BY JoinIs, Zenon
<1>2. PICK n \in Nat : n = Len(p)
  OBVIOUS
<1>3. PICK m \in Nat : m = Len(q)
  OBVIOUS
<1>4. /\ Len(r) = n + m /\ \A i \in 1 .. n : p[i] = r[i]
      /\ \A i \in 1 .. m : r[n + i] = q[i]
  BY <1>1, <1>2, <1>3
<1>5. PICK c : Joining(c, p)
  BY JoiningIs
<1>6. PICK d : Joining(d, q)
  BY JoiningIs
<1>7. PICK e : Joining(e, r)
  BY JoiningIs
<1>8. c[n] = e[n] /\ c[n] \in Marks
  <2>1. n \in 0 .. n /\ n <= Len(p) /\ n <= Len(r)
    BY <1>2, <1>4
  <2>2. \A i \in 0 .. n : c[i] = e[i]
    BY <1>4, <1>5, <1>7, <2>1, JoinedAlike
  <2> QED
    BY <1>2, <1>5, <2>1, <2>2 DEF Joining
<1> DEFINE T == {i \in 0 .. m : e[n + i] = c[n] \o d[i]}
<1>9. 0 \in T
  <2>1. n + 0 = n /\ 0 \in 0 .. m /\ d[0] = << >> /\ c[n] \o << >> = c[n]
    BY <1>6, <1>8, EmptyJoins DEF Joining
  <2> QED
    BY <1>8, <2>1, Zenon
<1>10. ASSUME NEW i \in 0 .. m - 1, i \in T PROVE i + 1 \in T
  <2>1. PICK k \in 1 .. m : k = i + 1 /\ k - 1 = i /\ (n + k) - 1 = n + i /\ n + k \in 1 .. Len(r)
                            /\ i \in 0 .. m
    BY <1>4
  <2>2. e[n + k] = e[n + i] \o q[k]
    BY <1>4, <1>7, <2>1, Zenon DEF Joining
  <2>3. d[k] = d[i] \o q[k]
    BY <1>3, <1>6, <2>1, Zenon DEF Joining
  <2>4. d[i] \in Marks /\ q[k] \in Marks
    BY <1>3, <1>6, <2>1, SMTT(30) DEF Joining
  <2>5. (c[n] \o d[i]) \o q[k] = c[n] \o (d[i] \o q[k])
    BY <1>8, <2>4, Associates, Zenon
  <2>6. e[n + i] = c[n] \o d[i]
    BY <1>10, Zenon
  <2>7. e[n + k] = c[n] \o d[k]
    BY <2>2, <2>3, <2>5, <2>6, Zenon
  <2>8. e[n + (i + 1)] = c[n] \o d[i + 1] /\ i + 1 \in 0 .. m
    BY <2>1, <2>7
  <2> QED
    BY <2>8, Zenon
<1> HIDE DEF T
<1>11. 0 .. m \subseteq T
  BY <1>9, <1>10, UpTo, Zenon
<1>12. e[n + m] = c[n] \o d[m]
  <2>1. m \in T
    BY <1>11
  <2> QED
    BY <2>1, Zenon DEF T
<1> QED
  BY <1>1, <1>2, <1>3, <1>4, <1>5, <1>6, <1>7, <1>12 DEF Joining

\* What the members of a sequence stand for, one after the other.
Through(g, s) == [i \in DOMAIN s |-> g[s[i]]]
Joined(g, s) == Answers!Concat(Through(g, s))

\* One part for each member.
LEMMA ThroughIs ==
    ASSUME NEW X, NEW g \in [X -> Marks], NEW s \in Seq(X)
    PROVE  /\ Through(g, s) \in Seq(Marks) /\ Len(Through(g, s)) = Len(s)
           /\ \A i \in 1 .. Len(s) : Through(g, s)[i] = g[s[i]]
<1>1. PICK n \in Nat : n = Len(s) /\ DOMAIN s = 1 .. n /\ \A i \in 1 .. n : s[i] \in X
  OBVIOUS
<1>2. PICK t : t = Through(g, s)
  OBVIOUS
<1>3. t = [i \in 1 .. n |-> g[s[i]]]
  BY <1>1, <1>2 DEF Through
<1>4. t \in [1 .. n -> Marks]
  BY <1>1, <1>3
<1>5. t \in Seq(Marks) /\ Len(t) = n
  BY <1>4
<1> QED
  BY <1>1, <1>2, <1>3, <1>5

Maps(p, g, s) ==
    p = Through(g, s) /\ Len(p) = Len(s) /\ \A i \in 1 .. Len(s) : p[i] = g[s[i]]

\* The parts of a sequence, named.
LEMMA MapsTo ==
    ASSUME NEW X, NEW g \in [X -> Marks], NEW s \in Seq(X)
    PROVE  \E p \in Seq(Marks) : Maps(p, g, s)
<1>1. Through(g, s) \in Seq(Marks)
  BY ThroughIs
<1>2. Maps(Through(g, s), g, s)
  BY ThroughIs DEF Maps
<1> QED
  BY <1>1, <1>2

Links(u, s, t) ==
    /\ u = s \o t /\ Len(u) = Len(s) + Len(t)
    /\ \A i \in 1 .. Len(s) : u[i] = s[i]
    /\ \A i \in 1 .. Len(t) : u[Len(s) + i] = t[i]

\* Two sequences joined, named.
LEMMA LinksTo ==
    ASSUME NEW S, NEW s \in Seq(S), NEW t \in Seq(S) PROVE \E u \in Seq(S) : Links(u, s, t)
<1>1. s \o t \in Seq(S)
  BY JoinIs
<1>2. Links(s \o t, s, t)
  BY JoinIs DEF Links
<1> QED
  BY <1>1, <1>2, Zenon

\* Parts of marks are joined to marks.
LEMMA MarksJoined == ASSUME NEW parts \in Seq(Marks) PROVE Answers!Concat(parts) \in Marks
<1>1. PICK c : Joining(c, parts)
  BY JoiningIs
<1>2. Len(parts) \in 0 .. Len(parts)
  OBVIOUS
<1> QED
  BY <1>1, <1>2 DEF Joining

\* So are those of a sequence.
LEMMA JoinedType ==
    ASSUME NEW X, NEW g \in [X -> Marks], NEW s \in Seq(X)
    PROVE  Joined(g, s) \in Marks
  BY ThroughIs, MarksJoined DEF Joined

\* No member stands for nothing.
LEMMA JoinedNone == ASSUME NEW X, NEW g \in [X -> Marks] PROVE Joined(g, << >>) = << >>
<1>1. << >> \in Seq(X) /\ Len(<< >>) = 0
  OBVIOUS
<1>2. PICK t \in Seq(Marks) : t = Through(g, << >>) /\ Len(t) = 0
  BY <1>1, ThroughIs, Zenon
<1>3. PICK c : Joining(c, t)
  BY JoiningIs
<1> QED
  BY <1>2, <1>3 DEF Joining, Joined

\* Sequences are equal if they are as long and have the same members.
LEMMA SameMembers ==
    ASSUME NEW a \in Seq(Marks), NEW b \in Seq(Marks), Len(a) = Len(b),
           \A i \in 1 .. Len(a) : a[i] = b[i]
    PROVE  a = b
  OBVIOUS

\* A member more adds its own part.
LEMMA JoinedAppends ==
    ASSUME NEW X, NEW g \in [X -> Marks], NEW s \in Seq(X), NEW x \in X
    PROVE  Joined(g, Append(s, x)) = Joined(g, s) \o g[x]
<1>1. PICK n \in Nat : n = Len(s)
  OBVIOUS
<1>2. PICK t \in Seq(X) : /\ t = Append(s, x) /\ Len(t) = n + 1 /\ t[n + 1] = x
                          /\ \A i \in 1 .. n : t[i] = s[i]
  <2>1. /\ Append(s, x) \in Seq(X) /\ Len(Append(s, x)) = n + 1 /\ Append(s, x)[n + 1] = x
        /\ \A i \in 1 .. n : Append(s, x)[i] = s[i]
    BY <1>1
  <2> QED
    BY <2>1, Zenon
<1>3. PICK p \in Seq(Marks) : Maps(p, g, s)
  BY <1>1, MapsTo
<1>9. p = Through(g, s) /\ Len(p) = n /\ \A i \in 1 .. n : p[i] = g[s[i]]
  BY <1>1, <1>3 DEF Maps
<1>4. PICK q \in Seq(Marks) : Maps(q, g, t)
  BY <1>2, MapsTo, Zenon
<1>10. q = Through(g, t) /\ Len(q) = n + 1 /\ \A i \in 1 .. n + 1 : q[i] = g[t[i]]
  BY <1>2, <1>4 DEF Maps
<1>5. g[x] \in Marks
  OBVIOUS
<1>6. PICK r \in Seq(Marks) : /\ r = Append(p, g[x]) /\ Len(r) = n + 1 /\ r[n + 1] = g[x]
                              /\ \A i \in 1 .. n : r[i] = p[i]
  <2>1. /\ Append(p, g[x]) \in Seq(Marks) /\ Len(Append(p, g[x])) = n + 1
        /\ Append(p, g[x])[n + 1] = g[x]
        /\ \A i \in 1 .. n : Append(p, g[x])[i] = p[i]
    BY <1>9, <1>5
  <2> QED
    BY <2>1, Zenon
<1>7. q = r
  <2>1. ASSUME NEW i \in 1 .. n + 1 PROVE q[i] = r[i]
    <3>1. CASE i = n + 1
      BY <1>2, <1>10, <1>6, <3>1
    <3>2. CASE i \in 1 .. n
      BY <1>2, <1>9, <1>10, <1>6, <3>2
    <3> QED
      BY <3>1, <3>2
  <2> QED
    BY <1>10, <1>6, <2>1, SameMembers
<1>8. Answers!Concat(Append(p, g[x])) = Answers!Concat(p) \o g[x]
  BY <1>5, ConcatAppends
<1> QED
  BY <1>2, <1>9, <1>10, <1>6, <1>7, <1>8, Zenon DEF Joined

\* The parts of two sequences are joined one after the other.
LEMMA JoinedJoins ==
    ASSUME NEW X, NEW g \in [X -> Marks], NEW s \in Seq(X), NEW t \in Seq(X)
    PROVE  Joined(g, s \o t) = Joined(g, s) \o Joined(g, t)
<1>1. PICK m \in Nat, n \in Nat : m = Len(s) /\ n = Len(t)
  OBVIOUS
<1>2. PICK u \in Seq(X) : Links(u, s, t)
  BY LinksTo
<1>11. /\ u = s \o t /\ Len(u) = m + n /\ \A i \in 1 .. m : u[i] = s[i]
       /\ \A i \in 1 .. n : u[m + i] = t[i]
  BY <1>1, <1>2 DEF Links
<1>3. PICK p \in Seq(Marks) : Maps(p, g, s)
  BY <1>1, MapsTo
<1>9. p = Through(g, s) /\ Len(p) = m /\ \A i \in 1 .. m : p[i] = g[s[i]]
  BY <1>1, <1>3 DEF Maps
<1>4. PICK q \in Seq(Marks) : Maps(q, g, t)
  BY <1>1, MapsTo
<1>10. q = Through(g, t) /\ Len(q) = n /\ \A i \in 1 .. n : q[i] = g[t[i]]
  BY <1>1, <1>4 DEF Maps
<1>5. PICK r \in Seq(Marks) : Maps(r, g, u)
  BY <1>11, MapsTo, Zenon
<1>12. r = Through(g, u) /\ Len(r) = m + n /\ \A i \in 1 .. m + n : r[i] = g[u[i]]
  BY <1>11, <1>5, Zenon DEF Maps
<1>6. PICK v \in Seq(Marks) : Links(v, p, q)
  BY LinksTo
<1>13. /\ v = p \o q /\ Len(v) = m + n /\ \A i \in 1 .. m : v[i] = p[i]
       /\ \A i \in 1 .. n : v[m + i] = q[i]
  BY <1>6, <1>9, <1>10 DEF Links
<1>7. r = v
  <2>1. ASSUME NEW i \in 1 .. m + n PROVE r[i] = v[i]
    <3>1. CASE i \in 1 .. m
      <4>1. u[i] = s[i] /\ v[i] = p[i] /\ p[i] = g[s[i]]
        BY <1>9, <1>11, <1>13, <3>1
      <4> QED
        BY <1>12, <4>1
    <3>2. CASE i \notin 1 .. m
      <4>1. i - m \in 1 .. n /\ i = m + (i - m)
        BY <3>2
      <4>2. PICK j \in 1 .. n : i = m + j
        BY <4>1
      <4>3. u[i] = t[j] /\ v[i] = q[j] /\ q[j] = g[t[j]]
        BY <1>11, <1>10, <1>13, <4>2, Zenon
      <4> QED
        BY <1>12, <4>3, Zenon
    <3> QED
      BY <3>1, <3>2
  <2> QED
    BY <1>12, <1>13, <2>1, SameMembers, Zenon
<1>8. Answers!Concat(p \o q) = Answers!Concat(p) \o Answers!Concat(q)
  BY ConcatJoins, Zenon
<1> QED
  BY <1>11, <1>9, <1>10, <1>12, <1>13, <1>7, <1>8, Zenon DEF Joined

\* A member grows that nothing comes after.
Grows(g, s, t, n, y) ==
    /\ Len(t) = Len(s) /\ g[t[n]] = g[s[n]] \o y
    /\ \A i \in 1 .. n - 1 : g[t[i]] = g[s[i]]
    /\ \A i \in n + 1 .. Len(s) : g[s[i]] = << >> /\ g[t[i]] = << >>

\* Then so does what is joined.
LEMMA JoinedGrows ==
    ASSUME NEW X, NEW g \in [X -> Marks], NEW s \in Seq(X), NEW t \in Seq(X),
           NEW n \in 1 .. Len(s), NEW y \in Marks, Grows(g, s, t, n, y)
    PROVE  Joined(g, t) = Joined(g, s) \o y
<1>1. PICK m \in Nat : m = Len(s) /\ m = Len(t) /\ n \in 1 .. m
  BY DEF Grows
<1>2. PICK p \in Seq(Marks) : Maps(p, g, s)
  BY <1>1, MapsTo
<1>9. p = Through(g, s) /\ Len(p) = m /\ \A i \in 1 .. m : p[i] = g[s[i]]
  BY <1>1, <1>2, Zenon DEF Maps
<1>3. PICK q \in Seq(Marks) : Maps(q, g, t)
  BY <1>1, MapsTo
<1>10. q = Through(g, t) /\ Len(q) = m /\ \A i \in 1 .. m : q[i] = g[t[i]]
  BY <1>1, <1>3 DEF Maps
<1>4. q[n] = p[n] \o y /\ Len(q) = Len(p) /\ n \in 1 .. Len(p)
  BY <1>1, <1>9, <1>10, Zenon DEF Grows
<1>5. \A i \in 1 .. n - 1 : p[i] = q[i]
  <2> SUFFICES ASSUME NEW i \in 1 .. n - 1 PROVE p[i] = q[i]
    OBVIOUS
  <2>1. i \in 1 .. m
    BY <1>1
  <2> QED
    BY <1>9, <1>10, <2>1 DEF Grows
<1>6. \A i \in n + 1 .. Len(p) : p[i] = << >> /\ q[i] = << >>
  <2> SUFFICES ASSUME NEW i \in n + 1 .. Len(p) PROVE p[i] = << >> /\ q[i] = << >>
    OBVIOUS
  <2>1. i \in 1 .. m /\ i \in n + 1 .. Len(s)
    BY <1>1, <1>9
  <2> QED
    BY <1>9, <1>10, <2>1 DEF Grows
<1>7. Answers!Concat(q) = Answers!Concat(p) \o y
  BY <1>4, <1>5, <1>6, ConcatGrows, Zenon
<1> QED
  BY <1>9, <1>10, <1>7 DEF Joined

\* Members with equal parts are joined alike.
LEMMA JoinedSame ==
    ASSUME NEW X, NEW g \in [X -> Marks], NEW s \in Seq(X), NEW t \in Seq(X), Len(t) = Len(s),
           \A i \in 1 .. Len(s) : g[t[i]] = g[s[i]]
    PROVE  Joined(g, t) = Joined(g, s)
<1>1. PICK m \in Nat : m = Len(s) /\ m = Len(t)
  OBVIOUS
<1>2. PICK p \in Seq(Marks) : Maps(p, g, s)
  BY <1>1, MapsTo
<1>9. p = Through(g, s) /\ Len(p) = m /\ \A i \in 1 .. m : p[i] = g[s[i]]
  BY <1>1, <1>2 DEF Maps
<1>3. PICK q \in Seq(Marks) : Maps(q, g, t)
  BY <1>1, MapsTo
<1>10. q = Through(g, t) /\ Len(q) = m /\ \A i \in 1 .. m : q[i] = g[t[i]]
  BY <1>1, <1>3 DEF Maps
<1>4. \A i \in 1 .. Len(p) : p[i] = q[i]
  BY <1>1, <1>9, <1>10
<1>5. p = q
  BY <1>9, <1>10, <1>4, SameMembers
<1> QED
  BY <1>9, <1>10, <1>5 DEF Joined

-----------------------------------------------------------------------------
(* The pieces of blocks and of lines.                                      *)

\* The pieces of a line of the log, and PiecesOf and LineOf as functions.
LineOf(e) == Answers!Tagged(IF e.kind = "canvas" THEN "html" ELSE "text", e.content)
OfParts == [b \in Part |-> Answers!PiecesOf(b)]
OfLines == [e \in Entry |-> LineOf(e)]

\* The two sides of a fence.
LEMMA SidesAre == {"text", "html"} = Answers!Streamed
  BY DEF Answers!Streamed

\* The pieces of a block are marks; a block without text has none.
LEMMA PiecesOfType ==
    ASSUME NEW b \in Part
    PROVE  /\ Answers!PiecesOf(b) \in Marks /\ b.content \in Content
           /\ b.kind \in Answers!Streamed =>
                 Answers!PiecesOf(b) = Answers!Tagged(b.kind, b.content)
           /\ b.kind \notin Answers!Streamed \/ b.content = << >> => Answers!PiecesOf(b) = << >>
<1>1. b.content \in Content
  BY DEF Part
<1>2. << >> \in Marks
  BY DEF Marks
<1> QED
  BY <1>1, <1>2, TaggedType DEF Answers!PiecesOf

\* The pieces of a line are marks.
LEMMA LineOfType ==
    ASSUME NEW e \in Entry
    PROVE  LineOf(e) \in Marks /\ (e.content = << >> => LineOf(e) = << >>)
<1>1. e.content \in Content
  BY DEF Entry
<1>2. PICK side \in Answers!Streamed : side = IF e.kind = "canvas" THEN "html" ELSE "text"
  BY SidesAre
<1> QED
  BY <1>1, <1>2, TaggedType DEF LineOf

\* PiecesOf, as a function.
LEMMA OfPartsType ==
    /\ OfParts \in [Part -> Marks] /\ \A b \in Part : OfParts[b] = Answers!PiecesOf(b)
  BY PiecesOfType DEF OfParts

\* LineOf, as a function.
LEMMA OfLinesType == OfLines \in [Entry -> Marks] /\ \A e \in Entry : OfLines[e] = LineOf(e)
  BY LineOfType DEF OfLines

\* Flat joins the pieces of blocks.
LEMMA FlatIs ==
    ASSUME NEW blocks \in Parts
    PROVE  Answers!Flat(blocks) = Joined(OfParts, blocks) /\ Answers!Flat(blocks) \in Marks
<1>1. blocks \in Seq(Part) /\ \A i \in DOMAIN blocks : blocks[i] \in Part
  BY DEF Parts
<1>2. [i \in DOMAIN blocks |-> Answers!PiecesOf(blocks[i])] = Through(OfParts, blocks)
  BY <1>1, OfPartsType DEF Through
<1>3. Joined(OfParts, blocks) \in Marks
  BY <1>1, OfPartsType, JoinedType
<1> QED
  BY <1>2, <1>3 DEF Answers!Flat, Joined

\* Shown joins the pieces of lines.
LEMMA ShownIs ==
    ASSUME NEW lines \in Seq(Entry)
    PROVE  Answers!Shown(lines) = Joined(OfLines, lines) /\ Answers!Shown(lines) \in Marks
<1>1. \A i \in DOMAIN lines : lines[i] \in Entry
  OBVIOUS
<1>2. [i \in DOMAIN lines |->
          Answers!Tagged(IF lines[i].kind = "canvas" THEN "html" ELSE "text", lines[i].content)]
        = Through(OfLines, lines)
  BY <1>1, OfLinesType DEF Through, LineOf
<1>3. Joined(OfLines, lines) \in Marks
  BY OfLinesType, JoinedType
<1> QED
  BY <1>2, <1>3 DEF Answers!Shown, Joined

\* Of nothing they are nothing.
LEMMA NothingFlat == Answers!Flat(<< >>) = << >> /\ Answers!Shown(<< >>) = << >>
<1>1. << >> \in Parts /\ << >> \in Seq(Entry)
  BY DEF Parts
<1> QED
  BY <1>1, FlatIs, ShownIs, JoinedNone, OfPartsType, OfLinesType, Zenon

\* A block more adds its pieces.
LEMMA FlatAppends ==
    ASSUME NEW blocks \in Parts, NEW b \in Part
    PROVE  Answers!Flat(Append(blocks, b)) = Answers!Flat(blocks) \o Answers!PiecesOf(b)
<1>1. blocks \in Seq(Part) /\ Append(blocks, b) \in Parts
  BY DEF Parts
<1>2. Joined(OfParts, Append(blocks, b)) = Joined(OfParts, blocks) \o OfParts[b]
  BY <1>1, OfPartsType, JoinedAppends
<1> QED
  BY <1>1, <1>2, FlatIs, OfPartsType, Zenon

\* Two lists of blocks are flat one after the other.
LEMMA FlatJoins ==
    ASSUME NEW s \in Parts, NEW t \in Parts
    PROVE  Answers!Flat(s \o t) = Answers!Flat(s) \o Answers!Flat(t) /\ s \o t \in Parts
<1>1. s \in Seq(Part) /\ t \in Seq(Part)
  BY DEF Parts
<1>2. s \o t \in Parts
  BY <1>1, JoinIs DEF Parts
<1>3. Joined(OfParts, s \o t) = Joined(OfParts, s) \o Joined(OfParts, t)
  BY <1>1, OfPartsType, JoinedJoins
<1> QED
  BY <1>2, <1>3, FlatIs, Zenon

\* A line more adds its pieces.
LEMMA ShownAppends ==
    ASSUME NEW lines \in Seq(Entry), NEW e \in Entry
    PROVE  Answers!Shown(Append(lines, e)) = Answers!Shown(lines) \o LineOf(e)
<1>1. Append(lines, e) \in Seq(Entry)
  OBVIOUS
<1>2. Joined(OfLines, Append(lines, e)) = Joined(OfLines, lines) \o OfLines[e]
  BY OfLinesType, JoinedAppends
<1> QED
  BY <1>1, <1>2, ShownIs, OfLinesType, Zenon

\* A block grows that no text or canvas comes after.
LEMMA FlatGrows ==
    ASSUME NEW s \in Parts, NEW n \in 1 .. Len(s), NEW more \in Content,
           s[n].kind \in Answers!Streamed,
           \A i \in n + 1 .. Len(s) : s[i].kind \notin Answers!Streamed
    PROVE  Answers!Flat(Longer(s, n, more))
             = Answers!Flat(s) \o Answers!Tagged(s[n].kind, more)
<1>1. PICK m \in Nat : m = Len(s) /\ s \in [1 .. m -> Part]
  BY DEF Parts
<1>2. PICK t \in Parts : /\ t = Longer(s, n, more) /\ Len(t) = m
                         /\ \A i \in 1 .. m : t[i].kind = s[i].kind
  BY <1>1, Extended, Zenon
<1>3. t[n].content = s[n].content \o more /\ \A i \in 1 .. m : i # n => t[i] = s[i]
  <2>1. PICK x : x = [s[n] EXCEPT !.content = @ \o more]
    BY Zenon
  <2>2. t = [s EXCEPT ![n] = x]
    BY <1>2, <2>1 DEF Longer
  <2>3. s[n] \in Part
    BY <1>1
  <2>4. x.content = s[n].content \o more
    <3>1. PICK y \in Part : y = s[n]
      BY <2>3
    <3>2. PICK c : c = y.content \o more
      BY Zenon
    <3>3. [y EXCEPT !.content = c].content = c
      BY DEF Part
    <3> QED
      BY <2>1, <3>1, <3>2, <3>3
  <2> QED
    BY <1>1, <2>2, <2>4
<1>4. PICK kind \in Answers!Streamed : kind = s[n].kind
  OBVIOUS
<1>5. /\ s[n] \in Part /\ t[n] \in Part /\ t[n].kind = kind /\ n \in 1 .. m
  BY <1>1, <1>2, <1>4 DEF Parts
<1>6. /\ OfParts[s[n]] = Answers!Tagged(kind, s[n].content)
      /\ OfParts[t[n]] = Answers!Tagged(kind, t[n].content)
      /\ s[n].content \in Content /\ t[n].content \in Content
  BY <1>4, <1>5, PiecesOfType, OfPartsType
<1>7. OfParts[t[n]] = OfParts[s[n]] \o Answers!Tagged(kind, more)
  <2>1. PICK was \in Content : was = s[n].content
    BY <1>6
  <2>2. Answers!Tagged(kind, was \o more)
           = Answers!Tagged(kind, was) \o Answers!Tagged(kind, more)
    BY TaggedJoins
  <2> QED
    BY <1>3, <1>6, <2>1, <2>2
<1>8. \A i \in 1 .. n - 1 : OfParts[t[i]] = OfParts[s[i]]
  BY <1>1, <1>3
<1>9. \A i \in n + 1 .. Len(s) : OfParts[s[i]] = << >> /\ OfParts[t[i]] = << >>
  <2> SUFFICES ASSUME NEW i \in n + 1 .. Len(s)
               PROVE  OfParts[s[i]] = << >> /\ OfParts[t[i]] = << >>
    OBVIOUS
  <2>1. i \in 1 .. m /\ i # n
    BY <1>1
  <2>2. s[i] \in Part /\ t[i] = s[i] /\ s[i].kind \notin Answers!Streamed
    BY <1>1, <1>3, <2>1, Zenon
  <2> QED
    BY <2>2, PiecesOfType, OfPartsType
<1>10. Joined(OfParts, t) = Joined(OfParts, s) \o Answers!Tagged(kind, more)
  <2>1. s \in Seq(Part) /\ t \in Seq(Part) /\ Len(t) = Len(s)
    BY <1>1, <1>2 DEF Parts
  <2>2. PICK y \in Marks : y = Answers!Tagged(kind, more)
    BY TaggedType
  <2>3. Grows(OfParts, s, t, n, y)
    BY <1>7, <1>8, <1>9, <2>1, <2>2 DEF Grows
  <2>4. OfParts \in [Part -> Marks]
    BY OfPartsType
  <2> QED
    BY <2>1, <2>2, <2>3, <2>4, JoinedGrows, SMTT(30)
<1> QED
  BY <1>2, <1>4, <1>10, FlatIs, Zenon

-----------------------------------------------------------------------------
(* The log since its n-th line.                                            *)

\* The lines of the log after the n-th, and what the user reads of them and the live text.
After(es, n) == SubSeq(es, n + 1, Len(es))
Reading(p, n) == Answers!Shown(After(p.entries, n)) \o Answers!Tagged("text", p.live_text)

\* The lines after the n-th, one by one.
LEMMA AfterIs ==
    ASSUME NEW es \in Seq(Entry), NEW n \in Nat, n <= Len(es)
    PROVE  /\ After(es, n) \in Seq(Entry) /\ Len(After(es, n)) = Len(es) - n
           /\ \A i \in 1 .. Len(es) - n : After(es, n)[i] = es[n + i]
  BY DEF After

\* Logs are equal if they are as long and have the same lines.
LEMMA SameLines ==
    ASSUME NEW a \in Seq(Entry), NEW b \in Seq(Entry), Len(a) = Len(b),
           \A i \in 1 .. Len(a) : a[i] = b[i]
    PROVE  a = b
  OBVIOUS

\* A line that is added comes after the n-th.
LEMMA AfterAppends ==
    ASSUME NEW es \in Seq(Entry), NEW n \in Nat, n <= Len(es), NEW e \in Entry
    PROVE  After(Append(es, e), n) = Append(After(es, n), e)
<1>1. PICK m \in Nat : m = Len(es) - n
  OBVIOUS
<1>2. PICK fs \in Seq(Entry) : fs = Append(es, e)
  <2>1. Append(es, e) \in Seq(Entry)
    OBVIOUS
  <2> QED
    BY <2>1, Zenon
<1>3. Len(fs) = Len(es) + 1 /\ fs[Len(es) + 1] = e /\ \A i \in 1 .. Len(es) : fs[i] = es[i]
  BY <1>2
<1>4. PICK s \in Seq(Entry) : s = After(es, n)
  BY AfterIs
<1>5. Len(s) = m /\ \A i \in 1 .. m : s[i] = es[n + i]
  BY <1>1, <1>4, AfterIs, Zenon
<1>6. PICK t \in Seq(Entry) : t = After(fs, n)
  BY <1>3, AfterIs
<1>7. Len(t) = m + 1 /\ \A i \in 1 .. m + 1 : t[i] = fs[n + i]
  <2>1. Len(fs) - n = m + 1 /\ n <= Len(fs)
    BY <1>1, <1>3
  <2>2. /\ Len(After(fs, n)) = Len(fs) - n
        /\ \A i \in 1 .. Len(fs) - n : After(fs, n)[i] = fs[n + i]
    BY <2>1, AfterIs, Zenon
  <2> QED
    BY <1>6, <2>1, <2>2, Zenon
<1>8. PICK u \in Seq(Entry) : u = Append(s, e)
  <2>1. Append(s, e) \in Seq(Entry)
    OBVIOUS
  <2> QED
    BY <2>1, Zenon
<1>9. Len(u) = m + 1 /\ u[m + 1] = e /\ \A i \in 1 .. m : u[i] = s[i]
  BY <1>5, <1>8
<1>10. ASSUME NEW i \in 1 .. m + 1 PROVE t[i] = u[i]
  <2>1. CASE i = m + 1
    <3>1. n + i = Len(es) + 1
      BY <1>1, <2>1
    <3> QED
      BY <1>3, <1>7, <1>9, <2>1, <3>1
  <2>2. CASE i \in 1 .. m
    <3>1. n + i \in 1 .. Len(es)
      BY <1>1, <2>2
    <3>2. t[i] = fs[n + i] /\ fs[n + i] = es[n + i] /\ u[i] = s[i] /\ s[i] = es[n + i]
      BY <1>3, <1>5, <1>7, <1>9, <2>2, <3>1
    <3> QED
      BY <3>2
  <2> QED
    BY <2>1, <2>2
<1>11. t = u
  BY <1>7, <1>9, <1>10, SameLines
<1> QED
  BY <1>2, <1>4, <1>6, <1>8, <1>11

\* What is read is marks.
LEMMA ReadingType ==
    ASSUME NEW p \in Apps, NEW n \in Nat, n <= Len(p.entries)
    PROVE  /\ Reading(p, n) \in Marks /\ Answers!Shown(After(p.entries, n)) \in Marks
           /\ Answers!Tagged("text", p.live_text) \in Marks
<1>1. p.entries \in Seq(Entry) /\ p.live_text \in Content
  BY DEF Apps
<1>2. Answers!Shown(After(p.entries, n)) \in Marks
  BY <1>1, AfterIs, ShownIs
<1>3. Answers!Tagged("text", p.live_text) \in Marks
  BY <1>1, SidesAre, TaggedType, Zenon
<1> QED
  BY <1>2, <1>3, Associates DEF Reading

\* A line is added to the log.
LEMMA LineRead ==
    ASSUME NEW es \in Seq(Entry), NEW n \in Nat, n <= Len(es), NEW e \in Entry
    PROVE  Answers!Shown(After(Append(es, e), n)) = Answers!Shown(After(es, n)) \o LineOf(e)
<1>1. After(es, n) \in Seq(Entry)
  BY AfterIs
<1>2. After(Append(es, e), n) = Append(After(es, n), e)
  BY AfterAppends
<1> QED
  BY <1>1, <1>2, ShownAppends

-----------------------------------------------------------------------------
(* What the events do to the log.                                          *)

\* No canvas of the turn is a preview; the last line is the preview of id and no other is.
Drawn(p, n) == \A i \in n + 1 .. Len(p.entries) : ~p.entries[i].preview
Numbers(p, n) == \A i \in n + 1 .. Len(p.entries) :
                    p.entries[i].kind = "canvas" => p.entries[i].id < p.next_id
Drawing(p, n, id) ==
    /\ p.live_text = << >> /\ Len(p.entries) > n
    /\ p.entries[Len(p.entries)].kind = "canvas" /\ p.entries[Len(p.entries)].preview
    /\ p.entries[Len(p.entries)].id = id
    /\ \A i \in n + 1 .. Len(p.entries) - 1 :
          ~p.entries[i].preview /\ (p.entries[i].kind = "canvas" => p.entries[i].id # id)

\* Live text that is committed reads the same.
LEMMA LiveTextRead ==
    ASSUME NEW p \in Apps, NEW n \in Nat, n <= Len(p.entries), Drawn(p, n), Numbers(p, n)
    PROVE  LET q == Answers!FlushLiveText(p) IN
           /\ Reading(q, n) = Reading(p, n) /\ q.live_text = << >>
           /\ Len(p.entries) <= Len(q.entries)
           /\ Drawn(q, n) /\ Numbers(q, n) /\ q.next_id = p.next_id /\ q.ids = p.ids
<1>1. CASE p.live_text = << >>
  BY <1>1 DEF Answers!FlushLiveText, Apps
<1>2. CASE p.live_text # << >>
  <2>1. PICK x : x = [kind |-> "text", content |-> p.live_text, id |-> 0, preview |-> FALSE]
    BY Zenon
  <2>2. /\ x \in Entry /\ x.kind = "text" /\ x.content = p.live_text /\ ~x.preview
    BY <2>1 DEF Entry, Apps
  <2>3. PICK es \in Seq(Entry) : es = p.entries /\ n <= Len(es)
    BY DEF Apps
  <2>4. PICK fs \in Seq(Entry) : fs = Append(es, x)
    <3>1. Append(es, x) \in Seq(Entry)
      BY <2>2
    <3> QED
      BY <3>1, Zenon
  <2>5. Len(fs) = Len(es) + 1 /\ fs[Len(es) + 1] = x /\ \A i \in 1 .. Len(es) : fs[i] = es[i]
    BY <2>2, <2>4
  <2>6. PICK q : q = Answers!FlushLiveText(p)
    OBVIOUS
  <2>7. /\ q.entries = fs /\ q.live_text = << >> /\ q.next_id = p.next_id /\ q.ids = p.ids
    <3>1. q = [p EXCEPT !.entries = fs, !.live_text = << >>]
      BY <1>2, <2>1, <2>3, <2>4, <2>6 DEF Answers!FlushLiveText
    <3> QED
      BY <3>1 DEF Apps
  <2>8. LineOf(x) = Answers!Tagged("text", p.live_text)
    BY <2>2 DEF LineOf
  <2>9. Reading(q, n) = Reading(p, n)
    <3>1. Answers!Shown(After(fs, n)) = Answers!Shown(After(es, n)) \o LineOf(x)
      BY <2>2, <2>3, <2>4, LineRead, Zenon
    <3>2. Answers!Shown(After(es, n)) \o LineOf(x) \in Marks
      BY <2>3, <2>8, ReadingType, Associates
    <3>3. Answers!Tagged("text", << >>) = << >>
      BY EmptyContent, SidesAre, TaggedType
    <3> QED
      BY <2>3, <2>7, <2>8, <3>1, <3>2, <3>3, EmptyJoins, Zenon DEF Reading
  <2>10. \A i \in n + 1 .. Len(fs) : i = Len(es) + 1 \/ i \in n + 1 .. Len(es)
    BY <2>3, <2>5
  <2>11. Drawn(q, n) /\ Numbers(q, n)
    BY <2>2, <2>3, <2>5, <2>7, <2>10 DEF Drawn, Numbers
  <2>12. Len(p.entries) <= Len(q.entries)
    BY <2>3, <2>5, <2>7
  <2> QED
    BY <2>6, <2>7, <2>9, <2>11, <2>12
<1> QED
  BY <1>1, <1>2

\* A canvas that begins reads the same, and is the one that is drawn.
LEMMA StartRead ==
    ASSUME NEW p \in Apps, NEW n \in Nat, n <= Len(p.entries), Drawn(p, n), Numbers(p, n),
           NEW index \in Nat
    PROVE  LET q == Answers!HtmlBlockStart(p, index) IN
           /\ Reading(q, n) = Reading(p, n) /\ n <= Len(q.entries) /\ Numbers(q, n)
           /\ index \in DOMAIN q.ids /\ Drawing(q, n, q.ids[index])
<1>1. PICK r \in Apps : r = Answers!FlushLiveText(p)
  BY LiveTextType
<1>2. /\ Reading(r, n) = Reading(p, n) /\ r.live_text = << >> /\ n <= Len(r.entries)
      /\ Drawn(r, n) /\ Numbers(r, n)
  <2>1. /\ Reading(r, n) = Reading(p, n) /\ r.live_text = << >>
        /\ Len(p.entries) <= Len(r.entries) /\ Drawn(r, n) /\ Numbers(r, n)
    BY <1>1, LiveTextRead
  <2>2. Len(p.entries) \in Nat /\ Len(r.entries) \in Nat
    BY DEF Apps
  <2> QED
    BY <2>1, <2>2
<1>3. PICK x : x = [kind |-> "canvas", content |-> << >>, id |-> r.next_id, preview |-> TRUE]
  BY Zenon
<1>4. x \in Entry /\ x.kind = "canvas" /\ x.content = << >> /\ x.id = r.next_id /\ x.preview
  BY <1>3 DEF Entry, Apps, Content
<1>5. PICK es \in Seq(Entry) : es = r.entries /\ n <= Len(es)
  BY <1>2 DEF Apps
<1>6. PICK fs \in Seq(Entry) : fs = Append(es, x)
  <2>1. Append(es, x) \in Seq(Entry)
    BY <1>4
  <2> QED
    BY <2>1, Zenon
<1>7. Len(fs) = Len(es) + 1 /\ fs[Len(es) + 1] = x /\ \A i \in 1 .. Len(es) : fs[i] = es[i]
  BY <1>4, <1>6
<1>8. PICK ids : ids = Answers!Put(r.ids, index, r.next_id)
  OBVIOUS
<1>9. index \in DOMAIN ids /\ ids[index] = r.next_id
  BY <1>8 DEF Answers!Put
<1>10. PICK q : q = Answers!HtmlBlockStart(p, index)
  OBVIOUS
<1>11. q = [r EXCEPT !.entries = fs, !.ids = ids, !.next_id = @ + 1]
  BY <1>1, <1>3, <1>5, <1>6, <1>8, <1>10 DEF Answers!HtmlBlockStart
<1>12. /\ q.entries = fs /\ q.ids = ids /\ q.next_id = r.next_id + 1 /\ q.live_text = << >>
       /\ r.next_id \in Nat
  BY <1>2, <1>11 DEF Apps
<1>13. Reading(q, n) = Reading(r, n)
  <2>1. Answers!Shown(After(fs, n)) = Answers!Shown(After(es, n)) \o LineOf(x)
    BY <1>4, <1>5, <1>6, LineRead, Zenon
  <2>2. LineOf(x) = << >> /\ Answers!Shown(After(es, n)) \in Marks
    BY <1>4, <1>5, LineOfType, ReadingType
  <2> QED
    BY <1>2, <1>5, <1>12, <2>1, <2>2, EmptyJoins DEF Reading
<1>14. \A i \in n + 1 .. Len(fs) : i = Len(es) + 1 \/ i \in n + 1 .. Len(es)
  BY <1>5, <1>7
<1>15. Numbers(q, n)
  <2> SUFFICES ASSUME NEW i \in n + 1 .. Len(fs), fs[i].kind = "canvas"
               PROVE  fs[i].id < r.next_id + 1
    BY <1>12 DEF Numbers
  <2>1. CASE i = Len(es) + 1
    BY <1>4, <1>7, <1>12, <2>1
  <2>2. CASE i \in n + 1 .. Len(es)
    <3>1. i \in 1 .. Len(es)
      BY <1>5, <2>2
    <3>2. fs[i] = es[i] /\ es[i] \in Entry
      BY <1>7, <3>1
    <3>3. es[i].id < r.next_id /\ es[i].id \in Nat
      BY <1>2, <1>5, <2>2, <3>2, Zenon DEF Numbers, Entry
    <3> QED
      BY <1>12, <3>2, <3>3
  <2> QED
    BY <1>14, <2>1, <2>2
<1>16. Drawing(q, n, r.next_id)
  <2>1. ASSUME NEW i \in n + 1 .. Len(fs) - 1
        PROVE  ~fs[i].preview /\ (fs[i].kind = "canvas" => fs[i].id # r.next_id)
    <3>1. i \in n + 1 .. Len(es) /\ i \in 1 .. Len(es)
      BY <1>5, <1>7
    <3>2. fs[i] = es[i] /\ es[i] \in Entry
      BY <1>7, <3>1
    <3>3. ~es[i].preview /\ (es[i].kind = "canvas" => es[i].id < r.next_id)
      BY <1>2, <1>5, <3>1 DEF Numbers, Drawn
    <3>4. es[i].id \in Nat
      BY <3>2 DEF Entry
    <3> QED
      BY <1>12, <3>2, <3>3, <3>4
  <2>2. Len(fs) > n
    BY <1>5, <1>7
  <2> QED
    BY <1>4, <1>7, <1>12, <2>1, <2>2 DEF Drawing
<1>17. n <= Len(q.entries)
  BY <1>5, <1>7, <1>12
<1> QED
  BY <1>2, <1>9, <1>10, <1>12, <1>13, <1>15, <1>16, <1>17

\* A delta of the canvas that is drawn is read last.
LEMMA DeltaRead ==
    ASSUME NEW p \in Apps, NEW n \in Nat, n <= Len(p.entries), Numbers(p, n),
           NEW index \in DOMAIN p.ids, Drawing(p, n, p.ids[index]), NEW more \in Content
    PROVE  LET q == Answers!HtmlBlockDelta(p, index, more) IN
           /\ Reading(q, n) = Reading(p, n) \o Answers!Tagged("html", more)
           /\ n <= Len(q.entries) /\ Numbers(q, n)
           /\ index \in DOMAIN q.ids /\ Drawing(q, n, q.ids[index])
<1>1. PICK es \in Seq(Entry) : es = p.entries
  BY DEF Apps
<1>2. PICK m \in Nat : m = Len(es) /\ m > n
  BY <1>1 DEF Drawing
<1>3. PICK id : id = p.ids[index]
  OBVIOUS
<1>4. PICK place : place = {i \in DOMAIN p.entries : /\ Answers!Has(p.ids, index)
                              /\ p.entries[i].preview /\ i \in Answers!PlaceOf(p, p.ids[index])}
  BY Zenon
<1>5. /\ m \in place /\ \A i \in n + 1 .. m - 1 : i \notin place
  <2>1. m \in DOMAIN es
    BY <1>2
  <2>2. m \in place
    BY <1>1, <1>2, <1>4, <2>1 DEF Drawing, Answers!PlaceOf, Answers!Has
  <2>3. ASSUME NEW i \in n + 1 .. m - 1 PROVE i \notin place
    BY <1>1, <1>2, <1>4 DEF Drawing
  <2> QED
    BY <2>2, <2>3
<1>6. PICK fs : fs = [i \in DOMAIN es |-> IF i \in place
                        THEN [es[i] EXCEPT !.content = @ \o more] ELSE es[i]]
  BY Zenon
<1>7. ASSUME NEW e \in Entry
      PROVE  /\ [e EXCEPT !.content = @ \o more] \in Entry
             /\ [e EXCEPT !.content = @ \o more].content = e.content \o more
             /\ [e EXCEPT !.content = @ \o more].kind = e.kind
             /\ [e EXCEPT !.content = @ \o more].id = e.id
             /\ [e EXCEPT !.content = @ \o more].preview = e.preview
  <2>1. PICK c \in Content : c = e.content \o more
    <3>1. e.content \o more \in Content
      BY DEF Entry, Content
    <3> QED
      BY <3>1, Zenon
  <2>2. [e EXCEPT !.content = c] \in Entry
    BY DEF Entry
  <2> QED
    BY <2>1, <2>2 DEF Entry
<1>8. fs \in Seq(Entry) /\ Len(fs) = m
  <2>1. es \in [1 .. m -> Entry] /\ DOMAIN es = 1 .. m
    BY <1>2
  <2>2. fs \in [1 .. m -> Entry]
    BY <1>6, <1>7, <2>1, Zenon
  <2> QED
    BY <2>2
<1>9. \A i \in n + 1 .. m - 1 : fs[i] = es[i]
  BY <1>2, <1>5, <1>6
<1>10. /\ fs[m] \in Entry /\ es[m] \in Entry /\ fs[m].content = es[m].content \o more
       /\ fs[m].kind = es[m].kind
       /\ fs[m].id = es[m].id /\ fs[m].preview = es[m].preview
  <2>1. m \in DOMAIN es /\ es[m] \in Entry
    BY <1>2
  <2>2. fs[m] = [es[m] EXCEPT !.content = @ \o more]
    BY <1>5, <1>6, <2>1
  <2> QED
    BY <1>7, <2>1, <2>2, Zenon
<1>11. PICK q : q = Answers!HtmlBlockDelta(p, index, more)
  OBVIOUS
<1>12. /\ q.entries = fs /\ q.ids = p.ids /\ q.next_id = p.next_id
       /\ q.live_text = p.live_text
  <2>1. q = [p EXCEPT !.entries = fs]
    BY <1>1, <1>4, <1>6, <1>11 DEF Answers!HtmlBlockDelta
  <2> QED
    BY <2>1 DEF Apps
<1>13. es[m].kind = "canvas" /\ es[m].preview /\ es[m].id = id /\ p.live_text = << >>
  BY <1>1, <1>2, <1>3 DEF Drawing
<1>14. PICK s \in Seq(Entry), t \in Seq(Entry) : s = After(es, n) /\ t = After(fs, n)
  BY <1>2, <1>8, AfterIs
<1>15. /\ Len(s) = m - n /\ \A i \in 1 .. m - n : s[i] = es[n + i]
       /\ Len(t) = m - n /\ \A i \in 1 .. m - n : t[i] = fs[n + i]
  <2>1. n <= Len(es) /\ n <= Len(fs)
    BY <1>2, <1>8
  <2>2. Len(s) = m - n /\ \A i \in 1 .. m - n : s[i] = es[n + i]
    BY <1>2, <1>14, <2>1, AfterIs, Zenon
  <2>3. Len(t) = m - n /\ \A i \in 1 .. m - n : t[i] = fs[n + i]
    BY <1>8, <1>14, <2>1, AfterIs, Zenon
  <2> QED
    BY <2>2, <2>3
<1>16. PICK y \in Marks : y = Answers!Tagged("html", more)
  BY SidesAre, TaggedType, Zenon
<1>17. Grows(OfLines, s, t, m - n, y)
  <2>1. m - n \in 1 .. m - n /\ n + (m - n) = m
    BY <1>2
  <2>2. OfLines[t[m - n]] = OfLines[s[m - n]] \o y
    <3>1. s[m - n] = es[m] /\ t[m - n] = fs[m]
      BY <1>15, <2>1
    <3>2. /\ OfLines[es[m]] = Answers!Tagged("html", es[m].content)
          /\ OfLines[fs[m]] = Answers!Tagged("html", es[m].content \o more)
      BY <1>10, <1>13, OfLinesType, Zenon DEF LineOf
    <3>3. es[m].content \in Content
      BY <1>10 DEF Entry
    <3>4. PICK side \in Answers!Streamed : side = "html"
      BY SidesAre
    <3>5. Answers!Tagged(side, es[m].content \o more)
             = Answers!Tagged(side, es[m].content) \o Answers!Tagged(side, more)
      BY <3>3, TaggedJoins, Zenon
    <3> QED
      BY <1>16, <3>1, <3>2, <3>4, <3>5, Zenon
  <2>3. ASSUME NEW i \in 1 .. (m - n) - 1 PROVE OfLines[t[i]] = OfLines[s[i]]
    <3>1. i \in 1 .. m - n /\ n + i \in n + 1 .. m - 1
      BY <1>2
    <3> QED
      BY <1>9, <1>15, <3>1
  <2>4. \A i \in (m - n) + 1 .. Len(s) : FALSE
    BY <1>2, <1>15
  <2> QED
    BY <1>15, <2>2, <2>3, <2>4 DEF Grows
<1>18. Answers!Shown(t) = Answers!Shown(s) \o y
  <2>1. m - n \in 1 .. Len(s)
    BY <1>2, <1>15
  <2>2. OfLines \in [Entry -> Marks]
    BY OfLinesType
  <2>3. PICK k \in 1 .. Len(s) : k = m - n
    BY <2>1
  <2>4. Joined(OfLines, t) = Joined(OfLines, s) \o y
    <3>1. Grows(OfLines, s, t, k, y)
      BY <1>17, <2>3
    <3> QED
      BY <2>2, <3>1, JoinedGrows
  <2> QED
    BY <2>4, ShownIs, Zenon
<1>19. Reading(q, n) = Reading(p, n) \o Answers!Tagged("html", more)
  <2>1. Answers!Tagged("text", << >>) = << >>
    BY EmptyContent, SidesAre, TaggedType
  <2>2. Answers!Shown(s) \in Marks /\ Answers!Shown(t) \in Marks
    BY ShownIs
  <2>3. Answers!Shown(s) \o << >> = Answers!Shown(s) /\ Answers!Shown(t) \o << >> = Answers!Shown(t)
    BY <2>2, EmptyJoins
  <2>4. Reading(q, n) = Answers!Shown(t) \o << >>
    BY <1>12, <1>13, <1>14, <2>1, Zenon DEF Reading
  <2>5. Reading(p, n) = Answers!Shown(s) \o << >>
    BY <1>1, <1>13, <1>14, <2>1, Zenon DEF Reading
  <2> QED
    BY <1>16, <1>18, <2>3, <2>4, <2>5
<1>20. \A i \in n + 1 .. m : i = m \/ i \in n + 1 .. m - 1
  BY <1>2
<1>21. Numbers(q, n)
  BY <1>1, <1>2, <1>8, <1>9, <1>10, <1>12, <1>20 DEF Numbers
<1>22. Drawing(q, n, id)
  BY <1>1, <1>2, <1>3, <1>8, <1>9, <1>10, <1>12, <1>13 DEF Drawing
<1>23. n <= Len(q.entries)
  BY <1>2, <1>8, <1>12
<1> QED
  BY <1>3, <1>11, <1>12, <1>19, <1>21, <1>22, <1>23

\* A canvas that ends reads the same, and no canvas is drawn.
LEMMA StopRead ==
    ASSUME NEW p \in Apps, NEW n \in Nat, n <= Len(p.entries), Numbers(p, n),
           NEW index \in DOMAIN p.ids, Drawing(p, n, p.ids[index])
    PROVE  LET q == Answers!HtmlBlockStop(p, index) IN
           Reading(q, n) = Reading(p, n) /\ n <= Len(q.entries) /\ Numbers(q, n) /\ Drawn(q, n)
<1>1. PICK es \in Seq(Entry) : es = p.entries
  BY DEF Apps
<1>2. PICK m \in Nat : m = Len(es) /\ m > n
  BY <1>1 DEF Drawing
<1>3. PICK id : id = p.ids[index]
  OBVIOUS
<1>4. PICK place : place = Answers!PlaceOf(p, id)
  OBVIOUS
<1>5. m \in place
  <2>1. m \in DOMAIN es
    BY <1>2
  <2> QED
    BY <1>1, <1>2, <1>3, <1>4, <2>1 DEF Drawing, Answers!PlaceOf
<1>6. PICK fs : fs = [i \in DOMAIN es |-> IF i \in place
                        THEN [es[i] EXCEPT !.preview = FALSE] ELSE es[i]]
  BY Zenon
<1>7. ASSUME NEW e \in Entry
      PROVE  /\ [e EXCEPT !.preview = FALSE] \in Entry
             /\ [e EXCEPT !.preview = FALSE].content = e.content
             /\ [e EXCEPT !.preview = FALSE].kind = e.kind
             /\ [e EXCEPT !.preview = FALSE].id = e.id
             /\ ~[e EXCEPT !.preview = FALSE].preview
  BY Zenon DEF Entry
<1>8. es \in [1 .. m -> Entry] /\ DOMAIN es = 1 .. m
  BY <1>2
<1>9. ASSUME NEW i \in 1 .. m
      PROVE  /\ fs[i] \in Entry /\ es[i] \in Entry
             /\ fs[i].content = es[i].content /\ fs[i].kind = es[i].kind
             /\ fs[i].id = es[i].id /\ (i \in place => ~fs[i].preview)
             /\ (~es[i].preview => ~fs[i].preview)
  <2>1. PICK e \in Entry : e = es[i]
    BY <1>8
  <2>2. fs[i] = IF i \in place THEN [e EXCEPT !.preview = FALSE] ELSE e
    BY <1>6, <1>8, <2>1
  <2> QED
    BY <1>7, <2>1, <2>2
<1>10. fs \in Seq(Entry) /\ Len(fs) = m
  <2>1. DOMAIN fs = 1 .. m /\ fs = [i \in 1 .. m |-> fs[i]]
    BY <1>6, <1>8
  <2>2. fs \in [1 .. m -> Entry]
    BY <1>9, <2>1
  <2> QED
    BY <2>2
<1>11. PICK q : q = Answers!HtmlBlockStop(p, index)
  OBVIOUS
<1>12. q.entries = fs /\ q.next_id = p.next_id /\ q.live_text = p.live_text
  <2>1. PICK ids : ids = [j \in DOMAIN p.ids \ {index} |-> p.ids[j]]
    BY Zenon
  <2>2. PICK half : half = [p EXCEPT !.ids = ids, !.entries = fs]
    OBVIOUS
  <2>3. PICK found : found = (CHOOSE i \in place : TRUE)
    OBVIOUS
  <2>4. PICK rs : rs = Answers!Put(half.renderers, id,
                [source |-> p.entries[found].content, of |-> p.entries[found].content])
    OBVIOUS
  <2>5. q = [half EXCEPT !.renderers = rs]
    BY <1>1, <1>3, <1>4, <1>5, <1>6, <1>11, <2>1, <2>2, <2>3, <2>4
       DEF Answers!HtmlBlockStop, Answers!Has
  <2> QED
    BY <2>2, <2>5 DEF Apps
<1>13. PICK s \in Seq(Entry), t \in Seq(Entry) : s = After(es, n) /\ t = After(fs, n)
  BY <1>2, <1>10, AfterIs
<1>14. /\ Len(s) = m - n /\ \A i \in 1 .. m - n : s[i] = es[n + i]
       /\ Len(t) = m - n /\ \A i \in 1 .. m - n : t[i] = fs[n + i]
  <2>1. n <= Len(es) /\ n <= Len(fs)
    BY <1>2, <1>10
  <2>2. Len(s) = m - n /\ \A i \in 1 .. m - n : s[i] = es[n + i]
    BY <1>2, <1>13, <2>1, AfterIs, Zenon
  <2>3. Len(t) = m - n /\ \A i \in 1 .. m - n : t[i] = fs[n + i]
    BY <1>10, <1>13, <2>1, AfterIs, Zenon
  <2> QED
    BY <2>2, <2>3
<1>15. Answers!Shown(t) = Answers!Shown(s)
  <2>1. ASSUME NEW i \in 1 .. Len(s) PROVE OfLines[t[i]] = OfLines[s[i]]
    <3>1. PICK k \in 1 .. m : k = n + i /\ s[i] = es[k] /\ t[i] = fs[k]
      <4>1. i \in 1 .. m - n /\ n + i \in 1 .. m
        BY <1>2, <1>14
      <4> QED
        BY <1>14, <4>1
    <3> QED
      BY <1>9, <3>1, OfLinesType DEF LineOf
  <2>2. OfLines \in [Entry -> Marks] /\ Len(t) = Len(s)
    BY <1>14, OfLinesType
  <2>3. Joined(OfLines, t) = Joined(OfLines, s)
    BY <2>1, <2>2, JoinedSame, Zenon
  <2> QED
    BY <2>3, ShownIs
<1>16. Reading(q, n) = Reading(p, n)
  BY <1>1, <1>12, <1>13, <1>15 DEF Reading
<1>17. ASSUME NEW i \in n + 1 .. m
       PROVE  ~fs[i].preview /\ (fs[i].kind = "canvas" => fs[i].id < p.next_id)
  <2>1. i \in 1 .. m
    BY <1>2
  <2>2. ~fs[i].preview
    <3>1. CASE i = m
      BY <1>5, <1>9, <2>1, <3>1
    <3>2. CASE i # m
      <4>1. i \in n + 1 .. Len(p.entries) - 1
        BY <1>1, <1>2, <3>2
      <4>2. ~es[i].preview
        BY <1>1, <4>1 DEF Drawing
      <4> QED
        BY <1>9, <2>1, <4>2
    <3> QED
      BY <3>1, <3>2
  <2>3. fs[i].kind = "canvas" => fs[i].id < p.next_id
    <3>1. es[i].kind = "canvas" => es[i].id < p.next_id
      BY <1>1, <1>2 DEF Numbers
    <3> QED
      BY <1>9, <2>1, <3>1
  <2> QED
    BY <2>2, <2>3
<1>18. Numbers(q, n) /\ Drawn(q, n)
  BY <1>10, <1>12, <1>17 DEF Numbers, Drawn
<1>19. n <= Len(q.entries)
  BY <1>2, <1>10, <1>12
<1> QED
  BY <1>11, <1>16, <1>18, <1>19

\* A delta of text is read last.
LEMMA TextRead ==
    ASSUME NEW p \in Apps, NEW n \in Nat, n <= Len(p.entries), NEW more \in Content
    PROVE  LET q == [p EXCEPT !.live_text = @ \o more] IN
           /\ Reading(q, n) = Reading(p, n) \o Answers!Tagged("text", more)
           /\ q.entries = p.entries /\ q.ids = p.ids /\ q.next_id = p.next_id
<1>1. PICK q : q = [p EXCEPT !.live_text = @ \o more]
  BY Zenon
<1>2. /\ q.entries = p.entries /\ q.ids = p.ids /\ q.next_id = p.next_id
      /\ q.live_text = p.live_text \o more /\ p.live_text \in Content
  BY <1>1 DEF Apps
<1>3. PICK s \in Marks : s = Answers!Shown(After(p.entries, n))
  BY ReadingType
<1>4. PICK side \in Answers!Streamed : side = "text"
  BY SidesAre
<1>5. PICK t \in Marks, y \in Marks : /\ t = Answers!Tagged("text", p.live_text)
                                      /\ y = Answers!Tagged("text", more)
  BY <1>2, <1>4, TaggedType
<1>6. Answers!Tagged("text", p.live_text \o more) = t \o y
  BY <1>2, <1>4, <1>5, TaggedJoins, Zenon
<1>7. (s \o t) \o y = s \o (t \o y)
  BY Associates, Zenon
<1>8. Reading(q, n) = s \o (t \o y) /\ Reading(p, n) = s \o t
  BY <1>2, <1>3, <1>5, <1>6, Zenon DEF Reading
<1> QED
  BY <1>1, <1>2, <1>5, <1>7, <1>8, Zenon

-----------------------------------------------------------------------------
(* What is kept and what is read of an accumulator's answer.               *)

\* Gemini and Ollama keep a block of text when it is closed.
Pending(a) ==
    IF a.by \in {"gemini", "local"} /\ a.open.kind \in Answers!Streamed
    THEN Answers!Tagged(a.open.kind, a.open.content) ELSE << >>
\* What is kept of the text or will be when the open block is closed.
Due(a) == Answers!Flat(a.kept) \o Pending(a)

\* The canvas that is being drawn is the one of the open block.
Canvases(p, open, n) ==
    /\ n <= Len(p.entries) /\ Numbers(p, n)
    /\ IF open.kind = "html" THEN open.index \in DOMAIN p.ids /\ Drawing(p, n, p.ids[open.index])
       ELSE Drawn(p, n)

\* OpenAI's open block is the last one of text it keeps.
EndsKept(a) ==
    a.by = "openai" /\ a.open # Answers!None =>
        /\ a.kept[a.open.index + 1].kind = a.open.kind
        /\ \A i \in a.open.index + 2 .. Len(a.kept) : a.kept[i].kind \notin Answers!Streamed

\* What the log shows fits the open block.
Shows(a, n) == Canvases(a.told.app, a.open, n) /\ EndsKept(a)

\* What is kept and what is read grow by the same.
Gains(a, b, n, x) ==
    /\ Due(b) = Due(a) \o x /\ Reading(b.told.app, n) = Reading(a.told.app, n) \o x
    /\ Shows(b, n)

\* What is due is marks.
LEMMA DueType ==
    ASSUME NEW a \in Accs
    PROVE  Due(a) \in Marks /\ Pending(a) \in Marks /\ Answers!Flat(a.kept) \in Marks
<1>1. Answers!Flat(a.kept) \in Marks
  BY FlatIs DEF Accs
<1>2. Pending(a) \in Marks
  <2>1. CASE a.by \in {"gemini", "local"} /\ a.open.kind \in Answers!Streamed
    <3>1. a.open # Answers!None
      BY <2>1 DEF Answers!None, Answers!Streamed
    <3>2. a.open.content \in Content
      BY <3>1, OpenIs
    <3> QED
      BY <2>1, <3>2, TaggedType DEF Pending
  <2>2. CASE ~(a.by \in {"gemini", "local"} /\ a.open.kind \in Answers!Streamed)
    BY <2>2 DEF Pending, Marks
  <2> QED
    BY <2>1, <2>2
<1> QED
  BY <1>1, <1>2, Associates DEF Due

\* The App of the listeners is one.
LEMMA AudienceApp ==
    ASSUME NEW a \in Accs, NEW n \in Nat, n <= Len(a.told.app.entries)
    PROVE  a.told.app \in Apps /\ Reading(a.told.app, n) \in Marks
<1>1. a.told.app \in Apps
  BY DEF Accs, Audience
<1> QED
  BY <1>1, ReadingType

\* Closing neither keeps nor shows more.
LEMMA CloseGains ==
    ASSUME NEW a \in Accs, Sound(a), NEW n \in Nat, Shows(a, n)
    PROVE  Gains(a, Answers!Close(a), n, << >>)
<1>1. n <= Len(a.told.app.entries)
  BY DEF Shows, Canvases
<1>2. /\ Due(a) \in Marks /\ a.told.app \in Apps /\ Reading(a.told.app, n) \in Marks
      /\ a.kept \in Parts
  BY <1>1, DueType, AudienceApp DEF Accs
<1>3. Due(a) \o << >> = Due(a) /\ Reading(a.told.app, n) \o << >> = Reading(a.told.app, n)
  BY <1>2, EmptyJoins
<1>4. CASE a.open = Answers!None
  <2>1. Answers!Close(a) = a
    BY <1>4 DEF Answers!Close
  <2> QED
    BY <1>3, <2>1 DEF Gains
<1>5. CASE a.open # Answers!None
  <2>1. /\ a.open.index \in Nat /\ a.open.kind \in Answers!Kinds /\ a.open.content \in Content
    BY <1>5, OpenIs
  <2>2. PICK block \in Part : /\ block = Answers!Block(a.open.kind, a.open.content)
                              /\ block.kind = a.open.kind /\ block.content = a.open.content
    BY <2>1, BlockType
  <2>3. PICK b : b = Answers!Close(a)
    OBVIOUS
  <2>4. PICK e : e = Event("stop", a.open.index, Answers!Block(a.open.kind, << >>))
    OBVIOUS
  <2>5. /\ b.by = a.by /\ b.open = Answers!None
        /\ b.kept = IF Answers!KeptOnClose(a) THEN Append(a.kept, block) ELSE a.kept
        /\ b.told.app = Answers!Apply(a.told.app, e)
    BY <1>5, <2>2, <2>3, <2>4, CloseIs
  <2>6. e.what = "stop" /\ e.index = a.open.index /\ e.block.kind = a.open.kind
    BY <2>4 DEF Event, Answers!Block
  <2>7. Pending(b) = << >>
    BY <2>5 DEF Pending, Answers!None, Answers!Streamed
  <2>8. Due(b) = Due(a)
    <3>1. PICK f \in Marks : f = Answers!Flat(a.kept)
      BY <1>2, FlatIs
    <3>2. CASE a.open.kind \in Answers!Streamed /\ a.by \in {"gemini", "local"}
      <4>1. Answers!KeptOnClose(a)
        BY <3>2 DEF Answers!KeptOnClose
      <4>2. Answers!PiecesOf(block) = Pending(a) /\ Answers!PiecesOf(block) \in Marks
        BY <2>2, <3>2, PiecesOfType DEF Pending
      <4>3. Answers!Flat(b.kept) = f \o Pending(a)
        BY <1>2, <2>5, <3>1, <4>1, <4>2, FlatAppends, Zenon
      <4>4. f \o Pending(a) \in Marks
        BY <3>1, <4>2, Associates
      <4> QED
        BY <2>7, <3>1, <4>3, <4>4, EmptyJoins DEF Due
    <3>3. CASE a.open.kind \in Answers!Streamed /\ a.by \notin {"gemini", "local"}
      <4>1. ~Answers!KeptOnClose(a) /\ Pending(a) = << >>
        BY <3>3 DEF Answers!KeptOnClose, Accs, Answers!Providers, Pending
      <4> QED
        BY <2>5, <2>7, <4>1 DEF Due
    <3>4. CASE a.open.kind \notin Answers!Streamed
      <4>1. Pending(a) = << >> /\ Answers!PiecesOf(block) = << >>
        BY <2>2, <3>4, PiecesOfType DEF Pending
      <4>2. Answers!Flat(b.kept) = f
        BY <1>2, <2>5, <3>1, <4>1, FlatAppends, EmptyJoins, Zenon
      <4> QED
        BY <2>7, <3>1, <4>1, <4>2 DEF Due
    <3> QED
      BY <3>2, <3>3, <3>4
  <2>9. Reading(b.told.app, n) = Reading(a.told.app, n) /\ Canvases(b.told.app, b.open, n)
    <3>1. b.open.kind # "html"
      BY <2>5 DEF Answers!None
    <3>2. CASE a.open.kind = "html"
      <4>1. b.told.app = Answers!HtmlBlockStop(a.told.app, a.open.index)
        BY <2>5, <2>6, <3>2 DEF Answers!Apply
      <4>2. /\ Numbers(a.told.app, n) /\ a.open.index \in DOMAIN a.told.app.ids
            /\ Drawing(a.told.app, n, a.told.app.ids[a.open.index])
        BY <3>2 DEF Shows, Canvases
      <4> QED
        BY <1>1, <1>2, <3>1, <4>1, <4>2, StopRead DEF Canvases
    <3>3. CASE a.open.kind # "html"
      <4>1. b.told.app = a.told.app
        BY <2>5, <2>6, <3>3 DEF Answers!Apply
      <4> QED
        BY <3>1, <3>3, <4>1 DEF Shows, Canvases
    <3> QED
      BY <3>2, <3>3
  <2>10. EndsKept(b)
    BY <2>5 DEF EndsKept
  <2> QED
    BY <1>3, <2>3, <2>8, <2>9, <2>10 DEF Gains, Shows
<1> QED
  BY <1>4, <1>5

\* The log of an accumulator that shows has its types.
LEMMA ShowsTypes ==
    ASSUME NEW a \in Accs, NEW n \in Nat, Shows(a, n)
    PROVE  /\ n <= Len(a.told.app.entries) /\ Due(a) \in Marks /\ a.told.app \in Apps
           /\ Reading(a.told.app, n) \in Marks /\ a.kept \in Parts
           /\ Due(a) \o << >> = Due(a) /\ Reading(a.told.app, n) \o << >> = Reading(a.told.app, n)
<1>1. n <= Len(a.told.app.entries)
  BY DEF Shows, Canvases
<1>2. /\ Due(a) \in Marks /\ a.told.app \in Apps /\ Reading(a.told.app, n) \in Marks
      /\ a.kept \in Parts
  BY <1>1, DueType, AudienceApp DEF Accs
<1> QED
  BY <1>1, <1>2, EmptyJoins

\* Nothing is gained where kept, open and told blocks are left alone.
LEMMA Unmoved ==
    ASSUME NEW a \in Accs, NEW n \in Nat, Shows(a, n), NEW b, b.by = a.by, b.open = a.open,
           b.kept = a.kept, b.told = a.told
    PROVE  Gains(a, b, n, << >>)
<1>1. Due(b) = Due(a) /\ EndsKept(b)
  BY DEF Due, Pending, EndsKept, Shows
<1> QED
  BY <1>1, ShowsTypes DEF Gains, Shows

\* A step that keeps and shows the same.
LEMMA GainsBoth ==
    ASSUME NEW a \in Accs, NEW n \in Nat, Shows(a, n), NEW b, NEW c,
           NEW x \in Marks, NEW y \in Marks, Gains(a, b, n, x), Gains(b, c, n, y)
    PROVE  Gains(a, c, n, x \o y) /\ x \o y \in Marks
<1>1. PICK d \in Marks, r \in Marks : d = Due(a) /\ r = Reading(a.told.app, n)
  BY ShowsTypes
<1>2. (d \o x) \o y = d \o (x \o y) /\ (r \o x) \o y = r \o (x \o y) /\ x \o y \in Marks
  BY Associates, Zenon
<1>3. Due(c) = (d \o x) \o y /\ Reading(c.told.app, n) = (r \o x) \o y /\ Shows(c, n)
  BY <1>1 DEF Gains
<1> QED
  BY <1>1, <1>2, <1>3 DEF Gains

\* Opening neither keeps nor shows more.
LEMMA OpenGains ==
    ASSUME NEW a \in Accs, Sound(a), a.open = Answers!None, NEW kind \in Answers!Kinds,
           a.by = "openai" => kind \in Answers!Streamed, NEW n \in Nat, Shows(a, n)
    PROVE  Gains(a, Answers!Open(a, kind), n, << >>)
<1>1. /\ n <= Len(a.told.app.entries) /\ Due(a) \in Marks /\ a.told.app \in Apps
      /\ Reading(a.told.app, n) \in Marks /\ a.kept \in Parts
      /\ Due(a) \o << >> = Due(a) /\ Reading(a.told.app, n) \o << >> = Reading(a.told.app, n)
  BY ShowsTypes
<1>2. PICK block \in Part : /\ block = Answers!Block(kind, << >>)
                            /\ block.kind = kind /\ block.content = << >>
  BY BlockType, EmptyContent
<1>3. PICK b : b = Answers!Open(a, kind)
  OBVIOUS
<1>4. PICK e : e = Event("start", a.next, block)
  OBVIOUS
<1>5. /\ b.by = a.by /\ b.open = [index |-> a.next, kind |-> kind, content |-> << >>]
      /\ b.kept = IF a.by = "openai" THEN Append(a.kept, block) ELSE a.kept
      /\ b.told.app = Answers!Apply(a.told.app, e)
  BY <1>2, <1>3, <1>4, OpensIs
<1>6. b.open.index = a.next /\ b.open.kind = kind /\ b.open.content = << >> /\ a.next \in Nat
  BY <1>5 DEF Accs
<1>7. e.what = "start" /\ e.index = a.next /\ e.block.kind = kind
  BY <1>2, <1>4 DEF Event
<1>8. Due(b) = Due(a)
  <2>1. Pending(b) = << >>
    BY <1>6, EmptyContent, TaggedType DEF Pending
  <2>2. Pending(a) = << >>
    BY DEF Pending, Answers!None, Answers!Streamed
  <2>3. Answers!Flat(b.kept) = Answers!Flat(a.kept)
    <3>1. Answers!PiecesOf(block) = << >> /\ Answers!Flat(a.kept) \in Marks
      BY <1>1, <1>2, PiecesOfType, FlatIs
    <3>2. Answers!Flat(Append(a.kept, block)) = Answers!Flat(a.kept)
      BY <1>1, <3>1, FlatAppends, EmptyJoins, Zenon
    <3> QED
      BY <1>5, <3>2
  <2> QED
    BY <2>1, <2>2, <2>3 DEF Due
<1>9. Reading(b.told.app, n) = Reading(a.told.app, n) /\ Canvases(b.told.app, b.open, n)
  <2>1. Numbers(a.told.app, n) /\ Drawn(a.told.app, n)
    BY DEF Shows, Canvases, Answers!None
  <2>2. CASE kind = "html"
    <3>1. b.told.app = Answers!HtmlBlockStart(a.told.app, a.next)
      BY <1>5, <1>7, <2>2 DEF Answers!Apply
    <3> QED
      BY <1>1, <1>6, <2>1, <2>2, <3>1, StartRead DEF Canvases
  <2>3. CASE kind # "html"
    <3>1. b.told.app = a.told.app
      BY <1>5, <1>7, <2>3 DEF Answers!Apply
    <3> QED
      BY <1>1, <1>6, <2>1, <2>3, <3>1 DEF Canvases
  <2> QED
    BY <2>2, <2>3
<1>10. EndsKept(b)
  <2> SUFFICES ASSUME a.by = "openai"
               PROVE  /\ b.kept[a.next + 1].kind = kind
                      /\ \A i \in a.next + 2 .. Len(b.kept) : b.kept[i].kind \notin Answers!Streamed
    BY <1>5, <1>6, Zenon DEF EndsKept
  <2>1. PICK s \in Seq(Part) : s = a.kept /\ Len(s) = a.next
    BY <1>1 DEF Parts, Sound, Agrees
  <2>2. b.kept = Append(s, block)
    BY <1>5, <2>1
  <2>3. Len(b.kept) = a.next + 1 /\ b.kept[a.next + 1] = block
    BY <2>1, <2>2
  <2> QED
    BY <1>2, <1>6, <2>3
<1> QED
  BY <1>1, <1>3, <1>8, <1>9, <1>10 DEF Gains, Shows

\* What is kept of a chunk is its pieces, at once or pending.
LEMMA DeliveredKept ==
    ASSUME NEW a \in Accs, Sound(a), a.open # Answers!None, NEW chunk \in Part,
           chunk.kind = a.open.kind, EndsKept(a)
    PROVE  /\ Due(Delivered(a, chunk)) = Due(a) \o Answers!PiecesOf(chunk)
           /\ EndsKept(Delivered(a, chunk))
<1>1. /\ a.open.index \in Nat /\ a.open.kind \in Answers!Kinds /\ a.open.content \in Content
      /\ chunk.content \in Content /\ a.kept \in Parts
  BY OpenIs DEF Accs, Part
<1>2. PICK b : b = Delivered(a, chunk)
  OBVIOUS
<1>3. /\ b.by = a.by /\ b.open.kind = a.open.kind /\ b.open.index = a.open.index
      /\ b.open.content = a.open.content \o chunk.content /\ b.open # Answers!None
      /\ b.kept = Answers!KeptOnDelta(a, chunk.content)
  BY <1>2, DeliveredIs, Zenon
<1>4. PICK more \in Content : more = chunk.content
  BY <1>1
<1>5. PICK s \in Parts : s = a.kept
  BY <1>1
<1>6. PICK f \in Marks : f = Answers!Flat(s)
  BY FlatIs
<1>7. PICK y \in Marks : y = Answers!PiecesOf(chunk)
  BY PiecesOfType
<1>8. f \o << >> = f /\ f \o y \in Marks /\ (f \o y) \o << >> = f \o y
  BY Associates, EmptyJoins
<1>9. a.open.kind \in Answers!Streamed => y = Answers!Tagged(a.open.kind, more)
  BY <1>4, <1>7, PiecesOfType
<1>10. CASE a.by = "openai"
  <2>1. a.open.kind \in Answers!Streamed
    BY <1>10 DEF Sound, Agrees
  <2>2. a.open.index + 1 \in 1 .. Len(s)
    <3>1. Len(s) \in Nat
      BY DEF Parts
    <3> QED
      BY <1>1, <1>5, <1>10, <3>1 DEF Sound, Agrees, Used
  <2>3. PICK k \in 1 .. Len(s) : k = a.open.index + 1
    BY <2>2
  <2>4. /\ s[k].kind = a.open.kind
        /\ \A i \in k + 1 .. Len(s) : s[i].kind \notin Answers!Streamed
    <3>1. k + 1 = a.open.index + 2
      BY <1>1, <2>3
    <3> QED
      BY <1>5, <1>10, <2>3, <3>1 DEF EndsKept
  <2>5. b.kept = Longer(s, k, more)
    BY <1>3, <1>4, <1>5, <1>10, <2>3 DEF Answers!KeptOnDelta, Longer
  <2>6. Answers!Flat(b.kept) = f \o y
    <3>1. s[k].kind \in Answers!Streamed
      BY <2>1, <2>4
    <3>2. Answers!Flat(Longer(s, k, more)) = Answers!Flat(s) \o Answers!Tagged(s[k].kind, more)
      BY <2>4, <3>1, FlatGrows, Zenon
    <3> QED
      BY <1>6, <1>9, <2>1, <2>4, <2>5, <3>2
  <2>7. Pending(a) = << >> /\ Pending(b) = << >>
    BY <1>3, <1>10 DEF Pending
  <2>8. Due(b) = Due(a) \o y
    BY <1>5, <1>6, <1>8, <2>6, <2>7 DEF Due
  <2>9. Len(b.kept) = Len(s) /\ \A i \in 1 .. Len(s) : b.kept[i].kind = s[i].kind
    BY <2>5, Extended
  <2>10. EndsKept(b)
    <3>1. \A i \in b.open.index + 2 .. Len(b.kept) : b.kept[i].kind \notin Answers!Streamed
      BY <1>1, <1>3, <2>3, <2>4, <2>9
    <3> QED
      BY <1>3, <2>3, <2>4, <2>9, <3>1 DEF EndsKept
  <2> QED
    BY <1>2, <1>7, <2>8, <2>10
<1>11. CASE a.by = "anthropic" /\ a.open.kind \in Answers!Streamed
  <2>1. Pending(a) = << >> /\ Pending(b) = << >> /\ EndsKept(b)
    BY <1>3, <1>11 DEF Pending, EndsKept
  <2>2. Answers!Flat(b.kept) = f \o y
    <3>1. CASE s # << >> /\ Answers!Last(s).kind = a.open.kind
      <4>1. PICK k \in 1 .. Len(s) : k = Len(s) /\ Answers!Last(s) = s[k]
        BY <3>1 DEF Parts, Answers!Last
      <4>2. b.kept = Longer(s, k, more)
        BY <1>3, <1>4, <1>5, <1>11, <3>1, <4>1 DEF Answers!KeptOnDelta, Longer, Answers!Last
      <4>3. \A i \in k + 1 .. Len(s) : s[i].kind \notin Answers!Streamed
        BY <4>1
      <4>4. Answers!Flat(Longer(s, k, more))
               = Answers!Flat(s) \o Answers!Tagged(s[k].kind, more)
        BY <1>11, <3>1, <4>1, <4>3, FlatGrows, Zenon
      <4> QED
        BY <1>6, <1>9, <1>11, <3>1, <4>1, <4>2, <4>4, Zenon
    <3>2. CASE ~(s # << >> /\ Answers!Last(s).kind = a.open.kind)
      <4>1. PICK block \in Part : /\ block = Answers!Block(a.open.kind, more)
                                  /\ block.kind = a.open.kind /\ block.content = more
        BY <1>1, BlockType
      <4>2. b.kept = Append(s, block)
        BY <1>3, <1>4, <1>5, <1>11, <3>2, <4>1 DEF Answers!KeptOnDelta, Answers!Last
      <4>3. Answers!PiecesOf(block) = y
        BY <1>9, <1>11, <4>1, PiecesOfType
      <4> QED
        BY <1>6, <4>2, <4>3, FlatAppends, Zenon
    <3> QED
      BY <3>1, <3>2
  <2>3. Due(b) = Due(a) \o y
    BY <1>5, <1>6, <1>8, <2>1, <2>2 DEF Due
  <2> QED
    BY <1>2, <1>7, <2>1, <2>3
<1>12. CASE a.by # "openai" /\ a.open.kind \notin Answers!Streamed
  <2>1. y = << >>
    BY <1>7, <1>12, PiecesOfType
  <2>2. b.kept = s /\ Pending(a) = << >> /\ Pending(b) = << >> /\ EndsKept(b)
    BY <1>3, <1>5, <1>12 DEF Pending, EndsKept, Answers!KeptOnDelta
  <2> QED
    BY <1>2, <1>5, <1>6, <1>7, <1>8, <2>1, <2>2 DEF Due
<1>13. CASE a.by \in {"gemini", "local"} /\ a.open.kind \in Answers!Streamed
  <2>1. b.kept = s /\ EndsKept(b)
    BY <1>3, <1>5, <1>13 DEF EndsKept, Answers!KeptOnDelta
  <2>2. PICK side \in Answers!Streamed : side = a.open.kind
    BY <1>13
  <2>3. PICK p \in Marks : p = Pending(a) /\ p = Answers!Tagged(side, a.open.content)
    BY <1>1, <1>13, <2>2, TaggedType DEF Pending
  <2>4. Pending(b) = Answers!Tagged(side, a.open.content \o more)
    BY <1>3, <1>4, <1>13, <2>2 DEF Pending
  <2>5. Pending(b) = p \o y
    BY <1>1, <1>9, <1>13, <2>2, <2>3, <2>4, TaggedJoins, ZenonT(30)
  <2>6. f \o (p \o y) = (f \o p) \o y
    BY Associates, Zenon
  <2> QED
    BY <1>2, <1>5, <1>6, <1>7, <2>1, <2>3, <2>5, <2>6 DEF Due
<1> QED
  BY <1>10, <1>11, <1>12, <1>13 DEF Accs, Answers!Providers

\* A delivered chunk is kept and shown.
LEMMA DeliveredGains ==
    ASSUME NEW a \in Accs, Sound(a), a.open # Answers!None, NEW chunk \in Part,
           chunk.kind = a.open.kind, NEW n \in Nat, Shows(a, n)
    PROVE  /\ Gains(a, Delivered(a, chunk), n, Answers!PiecesOf(chunk))
           /\ Answers!PiecesOf(chunk) \in Marks
<1>1. /\ n <= Len(a.told.app.entries) /\ a.told.app \in Apps
      /\ Reading(a.told.app, n) \in Marks
      /\ Reading(a.told.app, n) \o << >> = Reading(a.told.app, n)
  BY ShowsTypes
<1>2. PICK b : b = Delivered(a, chunk)
  OBVIOUS
<1>3. PICK e : e = Event("delta", a.open.index, chunk)
  OBVIOUS
<1>4. /\ b.by = a.by /\ b.open.kind = a.open.kind /\ b.open.index = a.open.index
      /\ b.told.app = Answers!Apply(a.told.app, e)
  BY <1>2, <1>3, DeliveredIs, Zenon
<1>5. e.what = "delta" /\ e.index = a.open.index /\ e.block = chunk
  BY <1>3 DEF Event
<1>6. PICK more \in Content : more = chunk.content
  BY DEF Part
<1>7. /\ Answers!PiecesOf(chunk) \in Marks
      /\ chunk.kind \in Answers!Streamed =>
            Answers!PiecesOf(chunk) = Answers!Tagged(chunk.kind, more)
      /\ chunk.kind \notin Answers!Streamed => Answers!PiecesOf(chunk) = << >>
  BY <1>6, PiecesOfType
<1>8. /\ Reading(b.told.app, n) = Reading(a.told.app, n) \o Answers!PiecesOf(chunk)
      /\ Canvases(b.told.app, b.open, n)
  <2>1. CASE chunk.kind = "text"
    <3>0. PICK p \in Apps : p = a.told.app /\ n <= Len(p.entries)
      BY <1>1
    <3>1. PICK q : q = [p EXCEPT !.live_text = @ \o more]
      BY Zenon
    <3>3. b.told.app = q
      BY <1>4, <1>5, <1>6, <2>1, <3>0, <3>1 DEF Answers!Apply
    <3>2. /\ Reading(q, n) = Reading(p, n) \o Answers!Tagged("text", more)
          /\ q.entries = p.entries /\ q.ids = p.ids /\ q.next_id = p.next_id
      BY <3>0, <3>1, TextRead, Zenon
    <3> QED
      BY <1>4, <1>7, <2>1, <3>0, <3>2, <3>3, SidesAre, Zenon DEF Shows, Canvases, Numbers, Drawn
  <2>2. CASE chunk.kind = "html"
    <3>1. b.told.app = Answers!HtmlBlockDelta(a.told.app, a.open.index, more)
      BY <1>4, <1>5, <1>6, <2>2 DEF Answers!Apply
    <3>2. /\ Numbers(a.told.app, n) /\ a.open.index \in DOMAIN a.told.app.ids
          /\ Drawing(a.told.app, n, a.told.app.ids[a.open.index])
      BY <2>2 DEF Shows, Canvases
    <3>3. /\ Reading(b.told.app, n) = Reading(a.told.app, n) \o Answers!Tagged("html", more)
          /\ n <= Len(b.told.app.entries) /\ Numbers(b.told.app, n)
          /\ a.open.index \in DOMAIN b.told.app.ids
          /\ Drawing(b.told.app, n, b.told.app.ids[a.open.index])
      BY <1>1, <3>1, <3>2, DeltaRead, Zenon
    <3> QED
      BY <1>4, <1>7, <2>2, <3>3, SidesAre, Zenon DEF Canvases
  <2>3. CASE chunk.kind \notin Answers!Streamed
    <3>1. b.told.app = a.told.app
      BY <1>4, <1>5, <2>3, SidesAre DEF Answers!Apply
    <3> QED
      BY <1>1, <1>4, <1>7, <2>3, <3>1, Zenon DEF Shows, Canvases
  <2> QED
    BY <2>1, <2>2, <2>3, SidesAre
<1>9. Due(b) = Due(a) \o Answers!PiecesOf(chunk) /\ EndsKept(b)
  BY <1>2, DeliveredKept DEF Shows
<1> QED
  BY <1>2, <1>7, <1>8, <1>9 DEF Gains, Shows

\* It does not matter which two are joined first.
Grouped(a, b, c) == (a \o b) \o c = a \o (b \o c)
\* Any three can be grouped so.
LEMMA Regroup == ASSUME NEW a \in Marks, NEW b \in Marks, NEW c \in Marks PROVE Grouped(a, b, c)
  BY Associates, Zenon DEF Grouped

\* What joins marks is marks.
LEMMA JoinType == ASSUME NEW a \in Marks, NEW b \in Marks PROVE a \o b \in Marks
  BY DEF Marks

\* A step that gains nothing, and one that gains x.
LEMMA GainsAfter ==
    ASSUME NEW a \in Accs, NEW n \in Nat, Shows(a, n), NEW b, NEW c,
           NEW y \in Marks, Gains(a, b, n, << >>), Gains(b, c, n, y)
    PROVE  Gains(a, c, n, y)
<1>1. << >> \in Marks /\ << >> \o y = y
  BY EmptyJoins
<1>2. Gains(a, c, n, << >> \o y)
  BY <1>1, GainsBoth, Zenon
<1> QED
  BY <1>1, <1>2

\* A step that gains x, and one that gains nothing.
LEMMA GainsNoMore ==
    ASSUME NEW a \in Accs, NEW n \in Nat, Shows(a, n), NEW b, NEW c,
           NEW x \in Marks, Gains(a, b, n, x), Gains(b, c, n, << >>)
    PROVE  Gains(a, c, n, x)
<1>1. << >> \in Marks /\ x \o << >> = x
  BY EmptyJoins
<1>2. Gains(a, c, n, x \o << >>)
  BY <1>1, GainsBoth, Zenon
<1> QED
  BY <1>1, <1>2

\* A chunk of text that is emitted is kept and shown, once and last.
LEMMA EmitChunkGains ==
    ASSUME NEW a \in Accs, Sound(a), NEW chunk \in Part,
           a.by = "openai" => chunk.kind \in Answers!Streamed, NEW n \in Nat, Shows(a, n)
    PROVE  /\ Gains(a, Answers!EmitChunk(a, chunk), n, Answers!PiecesOf(chunk))
           /\ Answers!PiecesOf(chunk) \in Marks
<1>1. Gains(a, a, n, << >>)
  BY Unmoved
<1>2. PICK f \in Accs : /\ f = IF a.open.kind = chunk.kind THEN a ELSE Answers!Close(a)
                        /\ Sound(f) /\ Same(a, f) /\ Gains(a, f, n, << >>)
                        /\ f.open # Answers!None => f.open.kind = chunk.kind
  BY <1>1, CloseSound, CloseGains DEF Same
<1>3. chunk.kind \in Answers!Kinds /\ Shows(f, n) /\ Gains(f, f, n, << >>)
  BY <1>2, Unmoved DEF Part, Gains
<1>4. PICK r \in Accs : /\ r = IF f.open = Answers!None THEN Answers!Open(f, chunk.kind) ELSE f
                        /\ Sound(r) /\ Gains(f, r, n, << >>)
                        /\ r.open # Answers!None /\ r.open.kind = chunk.kind
  <2>1. CASE f.open = Answers!None
    <3>1. f.by = "openai" => chunk.kind \in Answers!Streamed
      BY <1>2 DEF Same
    <3>2. /\ Answers!Open(f, chunk.kind) \in Accs /\ Sound(Answers!Open(f, chunk.kind))
          /\ Answers!Open(f, chunk.kind).open # Answers!None
          /\ Answers!Open(f, chunk.kind).open.kind = chunk.kind
      BY <1>2, <1>3, <2>1, <3>1, OpenSound
    <3>3. Gains(f, Answers!Open(f, chunk.kind), n, << >>)
      BY <1>2, <1>3, <2>1, <3>1, OpenGains
    <3> QED
      BY <2>1, <3>2, <3>3
  <2>2. CASE f.open # Answers!None
    BY <1>2, <1>3, <2>2
  <2> QED
    BY <2>1, <2>2
<1>5. PICK y \in Marks : y = Answers!PiecesOf(chunk)
  BY PiecesOfType
<1>6. Answers!EmitChunk(a, chunk) = Delivered(r, chunk)
  BY <1>2, <1>4 DEF Answers!EmitChunk, Delivered
<1>7. Shows(r, n)
  BY <1>4 DEF Gains
<1>8. Gains(r, Delivered(r, chunk), n, y)
  BY <1>4, <1>5, <1>7, DeliveredGains
<1>9. Gains(f, Delivered(r, chunk), n, y)
  BY <1>3, <1>4, <1>8, GainsAfter
<1> QED
  BY <1>2, <1>5, <1>6, <1>9, GainsAfter

\* So is text that may be empty.
LEMMA EmitTextGains ==
    ASSUME NEW a \in Accs, Sound(a), NEW kind \in Answers!Streamed, NEW more \in Content,
           NEW n \in Nat, Shows(a, n)
    PROVE  /\ Gains(a, Answers!EmitText(a, kind, more), n, Answers!Tagged(kind, more))
           /\ Answers!Tagged(kind, more) \in Marks
<1>1. CASE more = << >>
  <2>1. Answers!Tagged(kind, more) = << >> /\ << >> \in Marks
    BY <1>1, TaggedType
  <2> QED
    BY <1>1, <2>1, Unmoved DEF Answers!EmitText
<1>2. CASE more # << >>
  <2>1. PICK chunk \in Part : /\ chunk = Answers!Block(kind, more) /\ chunk.kind = kind
                              /\ chunk.content = more
    BY BlockType DEF Answers!Kinds
  <2>2. Answers!PiecesOf(chunk) = Answers!Tagged(kind, more)
    BY <2>1, PiecesOfType
  <2> QED
    BY <1>2, <2>1, <2>2, EmitChunkGains DEF Answers!EmitText
<1> QED
  BY <1>1, <1>2

-----------------------------------------------------------------------------
(* What the parser holds back.                                             *)

\* What the parser holds back, on its side of the fence.
Held(a) == Answers!Tagged(a.inside, a.held)

\* The pieces y have come: some of what was held and of them is kept and read, the rest held.
Passes(a, b, n, y) ==
    \E x \in Marks : Gains(a, b, n, x) /\ x \o Held(b) = Held(a) \o y

\* What is held back is marks.
LEMMA HeldType == ASSUME NEW a \in Accs PROVE Held(a) \in Marks
<1>1. a.inside \in Answers!Streamed /\ a.held \in Content
  BY DEF Accs
<1> QED
  BY <1>1, TaggedType DEF Held

\* The state of the parser says nothing to the log.
LEMMA ParsingGains ==
    ASSUME NEW a \in Accs, NEW n \in Nat, Shows(a, n), NEW inside, NEW held
    PROVE  Gains(a, Parsing(a, inside, held), n, << >>)
<1>1. PICK b : b = Parsing(a, inside, held)
  OBVIOUS
<1>2. b.by = a.by /\ b.open = a.open /\ b.kept = a.kept /\ b.told = a.told
  BY <1>1 DEF Parsing, Accs
<1> QED
  BY <1>1, <1>2, Unmoved

\* Nor does that of the upstream.
LEMMA UpstreamGains ==
    ASSUME NEW a \in Accs, NEW n \in Nat, Shows(a, n), NEW kind
    PROVE  /\ Gains(a, Upstream(a, kind), n, << >>) /\ Held(Upstream(a, kind)) = Held(a)
<1>1. PICK b : b = Upstream(a, kind)
  OBVIOUS
<1>2. /\ b.by = a.by /\ b.open = a.open /\ b.kept = a.kept /\ b.told = a.told
      /\ b.inside = a.inside /\ b.held = a.held
  BY <1>1 DEF Upstream, Accs
<1> QED
  BY <1>1, <1>2, Unmoved DEF Held

\* A fragment passes: what was held and what has come, in their order, on their sides.
LEMMA PushPasses ==
    ASSUME NEW a \in Accs, Sound(a), NEW lead \in Content, NEW tail \in Content,
           NEW fence \in BOOLEAN, NEW hold \in BOOLEAN, tail = << >> \/ fence,
           NEW n \in Nat, Shows(a, n),
           NEW f, f = [lead |-> lead, fence |-> fence, hold |-> hold, tail |-> tail]
    PROVE  Passes(a, Answers!PushFragment(a, f), n,
              Answers!Tagged(a.inside, lead)
                \o Answers!Tagged(IF fence THEN Answers!Other(a.inside) ELSE a.inside, tail))
<1>1. /\ a.inside \in Answers!Streamed /\ a.held \in Content
      /\ f.lead = lead /\ f.fence = fence /\ f.hold = hold /\ f.tail = tail
      /\ Answers!Other(a.inside) \in Answers!Streamed
  BY DEF Accs, Answers!Other, Answers!Streamed
<1>2. PICK more \in Content : more = a.held \o lead
  <2>1. a.held \o lead \in Content
    BY <1>1 DEF Content
  <2> QED
    BY <2>1, Zenon
<1>3. PICK h \in Marks, l \in Marks, m \in Marks :
         /\ h = Held(a) /\ l = Answers!Tagged(a.inside, lead)
         /\ m = Answers!Tagged(a.inside, more) /\ m = h \o l
  <2>1. PICK side \in Answers!Streamed, kept \in Content : side = a.inside /\ kept = a.held
    BY <1>1
  <2>2. Answers!Tagged(side, kept \o lead)
           = Answers!Tagged(side, kept) \o Answers!Tagged(side, lead)
    BY TaggedJoins, Zenon
  <2>3. /\ Answers!Tagged(side, kept) \in Marks /\ Answers!Tagged(side, lead) \in Marks
        /\ Answers!Tagged(side, more) \in Marks
    BY TaggedType
  <2> QED
    BY <1>2, <2>1, <2>2, <2>3, Zenon DEF Held
<1>4. CASE fence
  <2>1. PICK b \in Accs : /\ b = Answers!EmitText(a, a.inside, more) /\ Sound(b)
                          /\ Same(a, b) /\ Gains(a, b, n, m)
    BY <1>1, <1>3, EmitTextSound, EmitTextGains, Zenon
  <2>2. PICK side \in Answers!Streamed : side = Answers!Other(a.inside)
    BY <1>1
  <2>3. Shows(b, n) /\ b.inside = a.inside
    BY <2>1 DEF Gains, Same
  <2>4. PICK c \in Accs : /\ c = Parsing(b, side, << >>) /\ Sound(c) /\ c.inside = side
                          /\ c.held = << >> /\ Gains(b, c, n, << >>)
    BY <2>1, <2>3, EmptyContent, ParsingSound, ParsingGains, SMTT(30)
  <2>5. Shows(c, n) /\ Gains(a, c, n, m)
    BY <2>1, <2>4, GainsNoMore, SMTT(30) DEF Gains
  <2>6. PICK z \in Marks : z = Answers!Tagged(side, tail)
    BY TaggedType
  <2>7. m \o z = h \o (l \o z) /\ m \o z \in Marks /\ (m \o z) \o << >> = m \o z
    <3>1. Grouped(h, l, z)
      BY Regroup
    <3>2. m \o z \in Marks
      BY JoinType
    <3> QED
      BY <1>3, <3>1, <3>2, EmptyJoins DEF Grouped
  <2>8. CASE hold
    <3>1. Answers!PushFragment(a, f) = Parsing(c, side, tail)
      BY <1>1, <1>2, <1>4, <2>1, <2>2, <2>3, <2>4, <2>8, Zenon
         DEF Answers!PushFragment, Parsing, Accs
    <3>2. PICK d \in Accs : /\ d = Parsing(c, side, tail) /\ d.inside = side /\ d.held = tail
                            /\ Gains(c, d, n, << >>)
      BY ParsingSound, ParsingGains, <2>4, <2>5
    <3>3. Gains(a, d, n, m) /\ Held(d) = z
      BY <2>5, <2>6, <3>2, GainsNoMore DEF Held
    <3>4. Passes(a, d, n, l \o z)
      BY <1>3, <2>7, <3>3, Zenon DEF Passes
    <3> QED
      BY <1>3, <1>4, <2>2, <2>6, <3>1, <3>2, <3>4
  <2>9. CASE ~hold
    <3>1. Answers!PushFragment(a, f) = Answers!EmitText(c, side, tail)
      BY <1>1, <1>2, <1>4, <2>1, <2>2, <2>3, <2>4, <2>9, Zenon DEF Answers!PushFragment, Parsing
    <3>2. PICK d \in Accs : /\ d = Answers!EmitText(c, side, tail) /\ Same(c, d)
                            /\ Gains(c, d, n, z)
      BY EmitTextSound, EmitTextGains, <2>4, <2>5, <2>6
    <3>3. Gains(a, d, n, m \o z)
      BY <2>5, <3>2, GainsBoth
    <3>4. Held(d) = << >>
      BY <2>4, <3>2, TaggedType DEF Held, Same
    <3>5. Passes(a, d, n, l \o z)
      BY <1>3, <2>7, <3>3, <3>4, Zenon DEF Passes
    <3> QED
      BY <1>3, <1>4, <2>2, <2>6, <3>1, <3>2, <3>5
  <2> QED
    BY <2>8, <2>9
<1>5. /\ l \o Answers!Tagged(a.inside, << >>) = l /\ m \o << >> = m
      /\ << >> \o m = m /\ << >> \in Marks
  BY <1>1, TaggedType, EmptyJoins, Zenon
<1>6. CASE ~fence /\ hold
  <2>1. Answers!PushFragment(a, f) = Parsing(a, a.inside, more)
    BY <1>1, <1>2, <1>6, Zenon DEF Answers!PushFragment, Parsing, Accs
  <2>2. PICK b : /\ b = Parsing(a, a.inside, more) /\ b.inside = a.inside /\ b.held = more
                 /\ Gains(a, b, n, << >>)
    <3>1. PICK side \in Answers!Streamed : side = a.inside
      BY <1>1
    <3>2. PICK b : b = Parsing(a, side, more)
      OBVIOUS
    <3>3. b.inside = side /\ b.held = more /\ Gains(a, b, n, << >>)
      BY <3>2, ParsingSound, ParsingGains
    <3> QED
      BY <3>1, <3>2, <3>3
  <2>3. Held(b) = m
    BY <1>3, <2>2, Zenon DEF Held
  <2>4. Passes(a, b, n, l)
    BY <1>3, <1>5, <2>2, <2>3, Zenon DEF Passes
  <2> QED
    BY <1>3, <1>5, <1>6, <2>1, <2>2, <2>4, Zenon
<1>7. CASE ~fence /\ ~hold
  <2>1. PICK b \in Accs : /\ b = Parsing(a, a.inside, << >>) /\ Sound(b) /\ b.inside = a.inside
                          /\ b.held = << >> /\ Gains(a, b, n, << >>)
    <3>1. PICK side \in Answers!Streamed : side = a.inside
      BY <1>1
    <3>2. PICK b \in Accs : b = Parsing(a, side, << >>) /\ Sound(b)
      BY EmptyContent, ParsingSound
    <3>3. b.inside = side /\ b.held = << >> /\ Gains(a, b, n, << >>)
      BY <3>2, EmptyContent, ParsingSound, ParsingGains
    <3> QED
      BY <3>1, <3>2, <3>3
  <2>2. Answers!PushFragment(a, f) = Answers!EmitText(b, a.inside, more)
    BY <1>1, <1>2, <1>7, <2>1, Zenon DEF Answers!PushFragment, Parsing, Accs
  <2>3. Shows(b, n)
    BY <2>1 DEF Gains
  <2>4. PICK d \in Accs : d = Answers!EmitText(b, a.inside, more) /\ Same(b, d) /\ Gains(b, d, n, m)
    BY <1>1, <1>3, <2>1, <2>3, EmitTextSound, EmitTextGains, Zenon
  <2>5. Gains(a, d, n, m)
    BY <2>1, <2>4, GainsAfter
  <2>6. Held(d) = << >>
    BY <1>1, <2>1, <2>4, TaggedType DEF Held, Same
  <2>7. Passes(a, d, n, l)
    BY <1>3, <1>5, <2>5, <2>6, Zenon DEF Passes
  <2> QED
    BY <1>3, <1>5, <1>7, <2>2, <2>4, <2>7, Zenon
<1> QED
  BY <1>4, <1>6, <1>7

\* Finishing the parser leaves nothing held.
LEMMA FinishPasses ==
    ASSUME NEW a \in Accs, Sound(a), NEW n \in Nat, Shows(a, n)
    PROVE  /\ Gains(a, Answers!FinishFence(a), n, Held(a))
           /\ Held(Answers!FinishFence(a)) = << >> /\ Answers!FinishFence(a).held = << >>
<1>1. a.inside \in Answers!Streamed /\ a.held \in Content
  BY DEF Accs
<1>2. PICK b \in Accs : /\ b = Answers!EmitText(a, a.inside, a.held) /\ Sound(b)
                        /\ Gains(a, b, n, Held(a))
  BY <1>1, EmitTextSound, EmitTextGains DEF Held
<1>3. PICK side \in Answers!Streamed : side = "text"
  BY SidesAre
<1>4. Answers!FinishFence(a) = Parsing(b, side, << >>)
  BY <1>2, <1>3, Zenon DEF Answers!FinishFence, Parsing, Accs
<1>5. Shows(b, n)
  BY <1>2 DEF Gains
<1>6. PICK c : c = Parsing(b, side, << >>)
  OBVIOUS
<1>7. Gains(b, c, n, << >>) /\ c.inside = side /\ c.held = << >>
  BY <1>2, <1>5, <1>6, ParsingGains, ParsingSound, EmptyContent
<1>8. Gains(a, c, n, Held(a))
  BY <1>2, <1>7, HeldType, GainsNoMore
<1>9. Held(c) = << >>
  BY <1>3, <1>7, TaggedType, EmptyContent DEF Held
<1> QED
  BY <1>4, <1>6, <1>7, <1>8, <1>9

-----------------------------------------------------------------------------
(* Tools, and the end of the stream.                                       *)

\* A block that is no text is kept beside the others.
LEMMA KeptBeside ==
    ASSUME NEW a \in Accs, Sound(a), NEW n \in Nat, Shows(a, n), NEW kind \in Answers!Kinds,
           kind \notin Answers!Streamed, NEW b, b.by = a.by, b.open = a.open,
           b.kept = Append(a.kept, Answers!Block(kind, << >>)), b.told.app = a.told.app
    PROVE  Gains(a, b, n, << >>)
<1>1. PICK block \in Part : block = Answers!Block(kind, << >>) /\ block.kind = kind
  BY BlockType, EmptyContent
<1>2. PICK s \in Parts : s = a.kept
  BY ShowsTypes
<1>3. Answers!PiecesOf(block) = << >> /\ Answers!Flat(s) \in Marks
  BY <1>1, PiecesOfType, FlatIs
<1>4. Answers!Flat(b.kept) = Answers!Flat(s)
  <2>1. Answers!Flat(Append(s, block)) = Answers!Flat(s) \o Answers!PiecesOf(block)
    BY FlatAppends
  <2>2. Answers!Flat(s) \o << >> = Answers!Flat(s)
    BY <1>3, EmptyJoins
  <2> QED
    BY <1>1, <1>2, <1>3, <2>1, <2>2, Zenon
<1>5. Due(b) = Due(a)
  BY <1>2, <1>4, Zenon DEF Due, Pending
<1>6. EndsKept(b)
  <2> SUFFICES ASSUME b.by = "openai", b.open # Answers!None
               PROVE  /\ b.kept[b.open.index + 1].kind = b.open.kind
                      /\ \A i \in b.open.index + 2 .. Len(b.kept) :
                            b.kept[i].kind \notin Answers!Streamed
    BY Zenon DEF EndsKept
  <2>1. a.open.index \in Nat /\ a.open.index + 1 \in 1 .. Len(s) /\ a.next \in Nat
    BY <1>2, OpenIs DEF Sound, Agrees, Used, Accs
  <2>2. /\ s[a.open.index + 1].kind = a.open.kind
        /\ \A i \in a.open.index + 2 .. Len(s) : s[i].kind \notin Answers!Streamed
    BY <1>2 DEF Shows, EndsKept
  <2>3. PICK k \in Seq(Part) : /\ k = b.kept /\ Len(k) = Len(s) + 1 /\ k[Len(s) + 1] = block
                               /\ \A i \in 1 .. Len(s) : k[i] = s[i]
    <3>1. /\ Append(s, block) \in Seq(Part) /\ Len(Append(s, block)) = Len(s) + 1
          /\ Append(s, block)[Len(s) + 1] = block
          /\ \A i \in 1 .. Len(s) : Append(s, block)[i] = s[i]
      BY DEF Parts
    <3> QED
      BY <1>1, <1>2, <3>1, Zenon
  <2>4. Len(s) \in Nat
    BY DEF Parts
  <2>5. ASSUME NEW i \in a.open.index + 2 .. Len(s) + 1
        PROVE  k[i].kind \notin Answers!Streamed
    <3>1. i = Len(s) + 1 \/ (i \in a.open.index + 2 .. Len(s) /\ i \in 1 .. Len(s))
      BY <2>1, <2>4, SMTT(30)
    <3> QED
      BY <1>1, <2>2, <2>3, <3>1
  <2> QED
    BY <2>1, <2>2, <2>3, <2>5, Zenon
<1>7. Reading(b.told.app, n) \o << >> = Reading(b.told.app, n) /\ Due(a) \o << >> = Due(a)
  BY ShowsTypes
<1> QED
  BY <1>5, <1>6, <1>7 DEF Gains, Shows

\* A whole block says nothing.
LEMMA WholeGains ==
    ASSUME NEW a \in Accs, Sound(a), NEW n \in Nat, Shows(a, n)
    PROVE  /\ Gains(a, Answers!Whole(a, "tool"), n, << >>)
           /\ Held(Answers!Whole(a, "tool")) = Held(a)
<1>1. "tool" \in Answers!Kinds /\ "tool" \notin Answers!Streamed /\ a.next \in Nat
  BY DEF Answers!Kinds, Answers!Streamed, Accs
<1>2. PICK t \in Audience :
         /\ Answers!Emit(a, "start", a.next, Answers!Block("tool", << >>)) = [a EXCEPT !.told = t]
         /\ t.app = a.told.app
  BY <1>1, EmitUnread
<1>3. PICK b \in Accs : /\ b = [a EXCEPT !.told = t] /\ b.told = t /\ b.by = a.by
                        /\ b.open = a.open /\ b.kept = a.kept /\ b.next = a.next
                        /\ b.inside = a.inside /\ b.held = a.held
  <2>1. PICK b : b = [a EXCEPT !.told = t]
    BY Zenon
  <2>2. /\ b \in Accs /\ b.told = t /\ b.by = a.by
        /\ b.open = a.open /\ b.kept = a.kept /\ b.next = a.next
        /\ b.inside = a.inside /\ b.held = a.held
    BY <2>1 DEF Accs
  <2> QED
    BY <2>1, <2>2, Zenon
<1>4. PICK u \in Audience :
         /\ Answers!Emit(b, "stop", a.next, Answers!Block("tool", << >>)) = [b EXCEPT !.told = u]
         /\ u.app = t.app
  <2>1. \E u \in Audience :
         /\ Answers!Emit(b, "stop", a.next, Answers!Block("tool", << >>)) = [b EXCEPT !.told = u]
         /\ u.app = b.told.app
    BY <1>1, EmitUnread, Zenon
  <2> QED
    BY <1>3, <2>1, Zenon
<1>5. PICK c : c = [b EXCEPT !.told = u]
  BY Zenon
<1>6. /\ c.told = u /\ c.by = a.by /\ c.open = a.open /\ c.kept = a.kept /\ c.next = a.next
      /\ c.inside = a.inside /\ c.held = a.held
  BY <1>3, <1>5 DEF Accs
<1>7. PICK k, m : k = Append(a.kept, Answers!Block("tool", << >>)) /\ m = a.next + 1
  BY Zenon
<1>8. PICK d : d = Answers!Whole(a, "tool")
  OBVIOUS
<1>9. d = [c EXCEPT !.next = m, !.kept = k]
  BY <1>2, <1>3, <1>4, <1>5, <1>6, <1>7, <1>8, ZenonT(30) DEF Answers!Whole
<1>10. /\ d.told = u /\ d.by = a.by /\ d.open = a.open /\ d.kept = k
       /\ d.inside = a.inside /\ d.held = a.held
  BY <1>3, <1>5, <1>6, <1>9 DEF Accs
<1>11. Gains(a, d, n, << >>)
  BY <1>1, <1>2, <1>4, <1>7, <1>10, KeptBeside
<1> QED
  BY <1>8, <1>10, <1>11 DEF Held

\* A tool of OpenAI's says nothing.
LEMMA ToolBeginsGains ==
    ASSUME NEW a \in Accs, Sound(a), NEW n \in Nat, Shows(a, n)
    PROVE  /\ Gains(a, ToolBegins(a), n, << >>) /\ Held(ToolBegins(a)) = Held(a)
<1>1. "tool" \in Answers!Kinds /\ "tool" \notin Answers!Streamed /\ a.next \in Nat
  BY DEF Answers!Kinds, Answers!Streamed, Accs
<1>2. PICK t \in Audience :
         /\ Answers!Emit(a, "start", a.next, Answers!Block("tool", << >>)) = [a EXCEPT !.told = t]
         /\ t.app = a.told.app
  BY <1>1, EmitUnread
<1>3. PICK c : c = [a EXCEPT !.told = t]
  BY Zenon
<1>4. /\ c.told = t /\ c.by = a.by /\ c.open = a.open /\ c.kept = a.kept /\ c.next = a.next
      /\ c.inside = a.inside /\ c.held = a.held
  BY <1>3 DEF Accs
<1>5. PICK k, m : k = Append(a.kept, Answers!Block("tool", << >>)) /\ m = a.next + 1
  BY Zenon
<1>6. PICK d : d = ToolBegins(a)
  OBVIOUS
<1>7. d = [c EXCEPT !.next = m, !.kept = k]
  BY <1>2, <1>3, <1>4, <1>5, <1>6, Zenon DEF ToolBegins
<1>8. /\ d.told = t /\ d.by = a.by /\ d.open = a.open /\ d.kept = k
      /\ d.inside = a.inside /\ d.held = a.held
  BY <1>3, <1>4, <1>7 DEF Accs
<1>9. Gains(a, d, n, << >>)
  BY <1>1, <1>2, <1>5, <1>8, KeptBeside
<1> QED
  BY <1>6, <1>8, <1>9 DEF Held

\* Anthropic's blocks that are no text.
LEMMA BlockGains ==
    ASSUME NEW a \in Accs, Sound(a), a.by = "anthropic", NEW kind \in {"tool", "thinking"},
           NEW n \in Nat, Shows(a, n)
    PROVE  LET b == [Answers!Open(Answers!Close(a), kind) EXCEPT !.upstream = kind] IN
           Gains(a, b, n, << >>) /\ Held(b) = Held(a)
<1>1. PICK c \in Accs : /\ c = Answers!Close(a) /\ Sound(c) /\ Same(a, c)
                        /\ c.open = Answers!None /\ Gains(a, c, n, << >>)
  BY CloseSound, CloseGains
<1>2. kind \in Answers!Kinds /\ c.by # "openai" /\ Shows(c, n)
  BY <1>1 DEF Answers!Kinds, Same, Gains
<1>3. PICK d \in Accs : d = Answers!Open(c, kind) /\ Same(c, d) /\ Gains(c, d, n, << >>)
  BY <1>1, <1>2, OpenSound, OpenGains
<1>4. Shows(d, n) /\ Gains(a, d, n, << >>) /\ Held(d) = Held(a)
  BY <1>1, <1>2, <1>3, EmptyJoins, GainsAfter DEF Gains, Held, Same
<1>5. PICK e : e = Upstream(d, kind)
  OBVIOUS
<1>6. Gains(d, e, n, << >>) /\ Held(e) = Held(d)
  BY <1>4, <1>5, UpstreamGains
<1>7. Gains(a, e, n, << >>)
  <2>1. << >> \in Marks
    BY DEF Marks
  <2> QED
    BY <1>4, <1>6, <2>1, GainsAfter
<1>8. [Answers!Open(Answers!Close(a), kind) EXCEPT !.upstream = kind] = e
  BY <1>1, <1>3, <1>5 DEF Upstream
<1> QED
  BY <1>4, <1>6, <1>7, <1>8

\* Whatever the provider, a tool call says nothing.
LEMMA ToolGains ==
    ASSUME NEW a \in Accs, Sound(a), NEW n \in Nat, Shows(a, n)
    PROVE  Gains(a, Answers!ToolCall(a), n, << >>) /\ Held(Answers!ToolCall(a)) = Held(a)
<1>1. CASE a.by = "anthropic"
  BY <1>1, BlockGains, Zenon DEF Answers!ToolCall
<1>2. CASE a.by = "openai"
  <2>1. Answers!ToolCall(a) = ToolBegins(a)
    BY <1>2 DEF Answers!ToolCall, ToolBegins
  <2> QED
    BY <2>1, ToolBeginsGains
<1>3. CASE a.by = "gemini"
  <2>1. Answers!ToolCall(a) = Answers!Whole(a, "tool")
    BY <1>3 DEF Answers!ToolCall
  <2> QED
    BY <2>1, WholeGains
<1>4. CASE a.by = "local"
  <2>1. PICK c \in Accs : /\ c = Answers!Close(a) /\ Sound(c) /\ Same(a, c)
                          /\ Gains(a, c, n, << >>)
    BY CloseSound, CloseGains
  <2>2. Answers!ToolCall(a) = Answers!Whole(c, "tool")
    BY <1>4, <2>1 DEF Answers!ToolCall
  <2>3. PICK d : d = Answers!Whole(c, "tool")
    OBVIOUS
  <2>4. Shows(c, n) /\ Held(c) = Held(a)
    BY <2>1 DEF Gains, Held, Same
  <2>5. Gains(c, d, n, << >>) /\ Held(d) = Held(c)
    BY <2>1, <2>3, <2>4, WholeGains
  <2>6. Gains(a, d, n, << >>)
    <3>1. << >> \in Marks
      BY DEF Marks
    <3> QED
      BY <2>1, <2>5, <3>1, GainsAfter
  <2> QED
    BY <2>2, <2>3, <2>4, <2>5, <2>6
<1> QED
  BY <1>1, <1>2, <1>3, <1>4 DEF Accs, Answers!Providers

\* What the provider keeps in the end is what was due, and what was held.
LEMMA FlushGains ==
    ASSUME NEW a \in Accs, Sound(a), NEW n \in Nat, Shows(a, n),
           a.by = "anthropic" => a.open = Answers!None /\ a.held = << >>
    PROVE  /\ Gains(a, Answers!Flush(a), n, Held(a))
           /\ Answers!Flush(a).open = Answers!None
           /\ Answers!Flat(Answers!ContentOf(Answers!Flush(a))) = Due(Answers!Flush(a))
<1>1. ASSUME NEW b \in Accs, b.open = Answers!None PROVE Due(b) = Answers!Flat(b.kept)
  <2>1. Pending(b) = << >> /\ Answers!Flat(b.kept) \in Marks
    BY <1>1, DueType DEF Pending, Answers!None, Answers!Streamed
  <2> QED
    BY <2>1, EmptyJoins DEF Due
<1>2. CASE a.by = "anthropic"
  <2>1. PICK side \in Answers!Streamed : side = a.inside
    BY DEF Accs
  <2>2. Held(a) = << >> /\ Answers!Flush(a) = a /\ Gains(a, a, n, << >>)
    BY <1>2, <2>1, TaggedType, EmptyContent, Unmoved DEF Held, Answers!Flush
  <2>3. CASE a.kept # << >>
    BY <1>1, <1>2, <2>2, <2>3 DEF Answers!ContentOf
  <2>4. CASE a.kept = << >>
    <3>1. PICK block \in Part : /\ block = Answers!Block("text", << >>)
                                /\ block.kind = "text" /\ block.content = << >>
      BY BlockType, EmptyContent DEF Answers!Kinds, Answers!Streamed
    <3>2. Answers!ContentOf(a) = <<block>> /\ <<block>> = Append(<< >>, block)
      BY <1>2, <2>4, <3>1 DEF Answers!ContentOf
    <3>3. << >> \in Parts /\ << >> \in Marks /\ << >> \o << >> = << >>
      BY EmptyJoins DEF Parts, Marks
    <3>4. Answers!PiecesOf(block) = << >> /\ Answers!Flat(<< >>) = << >>
      BY <3>1, PiecesOfType, NothingFlat
    <3>5. Answers!Flat(Append(<< >>, block)) = Answers!Flat(<< >>) \o Answers!PiecesOf(block)
      BY <3>3, FlatAppends, Zenon
    <3> QED
      BY <1>1, <1>2, <2>2, <2>4, <3>2, <3>3, <3>4, <3>5
  <2> QED
    BY <1>2, <2>2, <2>3, <2>4
<1>3. CASE a.by # "anthropic"
  <2>1. PICK b \in Accs : /\ b = Answers!FinishFence(a) /\ Sound(b) /\ SameCall(a, b)
                          /\ Gains(a, b, n, Held(a))
    BY FinishSound, FinishPasses
  <2>2. Shows(b, n) /\ Held(a) \in Marks
    BY <2>1, HeldType DEF Gains
  <2>3. PICK c \in Accs : /\ c = Answers!Close(b) /\ Sound(c) /\ Same(b, c)
                          /\ c.open = Answers!None /\ Gains(b, c, n, << >>)
    BY <2>1, <2>2, CloseSound, CloseGains
  <2>4. Gains(a, c, n, Held(a)) /\ c.by = a.by /\ Shows(c, n)
    BY <2>1, <2>2, <2>3, GainsNoMore DEF SameCall, Same, Gains
  <2>5. CASE a.by = "openai"
    <3>1. PICK d : d = Answers!StopTools(c)
      OBVIOUS
    <3>2. Quiet(c, d)
      BY <3>1, StopToolsQuiet
    <3>3. Answers!Flush(a) = d
      BY <2>1, <2>3, <2>5, <3>1 DEF Answers!Flush
    <3>4. Due(d) = Due(c) /\ EndsKept(d) /\ Due(c) = Answers!Flat(c.kept)
      BY <1>1, <2>3, <3>2, Zenon DEF Due, Pending, EndsKept, Quiet
    <3>5. Gains(a, d, n, Held(a)) /\ d.open = Answers!None
      BY <2>3, <2>4, <3>2, <3>4 DEF Gains, Shows, Quiet
    <3>6. Answers!ContentOf(d) = c.kept
      BY <2>4, <2>5, <3>2 DEF Answers!ContentOf, Quiet
    <3> QED
      BY <3>3, <3>4, <3>5, <3>6
  <2>6. CASE a.by # "openai"
    <3>1. Answers!Flush(a) = c
      BY <1>3, <2>1, <2>3, <2>6 DEF Answers!Flush
    <3>2. Answers!ContentOf(c) = c.kept
      BY <1>3, <2>4 DEF Answers!ContentOf
    <3> QED
      BY <1>1, <2>3, <2>4, <3>1, <3>2
  <2> QED
    BY <2>5, <2>6
<1> QED
  BY <1>2, <1>3

-----------------------------------------------------------------------------
(* What is sent, kept and shown.                                           *)

\* Of what was sent and of the log as it was.
VTypes == sent \in Marks /\ start.entries \in Nat /\ start.live_text \in Content

\* What a failed turn may have left in the live text, when this one began.
Before == Answers!Tagged("text", start.live_text)

\* What the upstream sent has been kept and read, but for what the parser holds back.
Runs(a, n, before, pieces, blocks) ==
    /\ pieces = (Answers!Flat(blocks) \o Due(a)) \o Held(a)
    /\ before \o pieces = Reading(a.told.app, n) \o Held(a)
    /\ Shows(a, n)
    /\ a.by = "anthropic" /\ a.upstream # "text" => Held(a) = << >>

\* A call that has ended: all that was sent is kept and read, and nothing is drawn.
Ends(p, n, before, pieces, blocks) ==
    /\ Answers!Flat(blocks) = pieces /\ before \o pieces = Reading(p, n)
    /\ n <= Len(p.entries) /\ Drawn(p, n) /\ Numbers(p, n)

\* The invariant.
VInv ==
    /\ WInv /\ VTypes
    /\ phase = "streaming" /\ ~cut =>
          Runs(Answers!Telling(acc), start.entries, Before, sent, answer)
    /\ phase = "answered" /\ ~cut => Ends(app, start.entries, Before, sent, answer)

\* What the live text held is marks.
LEMMA BeforeType == ASSUME VTypes PROVE Before \in Marks
<1>1. PICK side \in Answers!Streamed : side = "text"
  BY SidesAre
<1> QED
  BY <1>1, TaggedType DEF VTypes, Before

\* A step of a call that goes on.
LEMMA RunsOn ==
    ASSUME VInv, phase = "streaming", ~cut, NEW b \in Accs, NEW y \in Marks,
           Passes(Answers!Telling(acc), b, start.entries, y), Answers!Streams(b),
           sent' = sent \o y, UNCHANGED <<start, answer>>,
           b.by = "anthropic" /\ b.upstream # "text" => Held(b) = << >>
    PROVE  Runs(Answers!Telling(acc), start.entries, Before, sent, answer)'
<1>1. PICK a \in Accs : a = Answers!Telling(acc)
  BY TellingIs DEF VInv, WInv
<1>2. PICK n \in Nat : n = start.entries
  BY DEF VInv, VTypes
<1>3. PICK before \in Marks : before = Before
  BY BeforeType DEF VInv
<1>4. Runs(a, n, before, sent, answer)
  BY <1>1, <1>2, <1>3 DEF VInv
<1>5. PICK x \in Marks : Gains(a, b, n, x) /\ x \o Held(b) = Held(a) \o y
  BY <1>1, <1>2, Zenon DEF Passes
<1>6. PICK f \in Marks : f = Answers!Flat(answer)
  BY FlatIs DEF VInv, WInv, WTypes
<1>7. PICK h \in Marks, k \in Marks : h = Held(a) /\ k = Held(b)
  BY HeldType
<1>8. PICK d \in Marks, r \in Marks : d = Due(a) /\ r = Reading(a.told.app, n)
  BY <1>4, ShowsTypes DEF Runs
<1>9. PICK s \in Marks : s = sent
  BY DEF VInv, VTypes
<1>10. x \o k = h \o y /\ s = (f \o d) \o h /\ before \o s = r \o h
  BY <1>4, <1>5, <1>6, <1>7, <1>8, <1>9, Zenon DEF Runs
<1>11. s \o y = (f \o (d \o x)) \o k /\ before \o (s \o y) = (r \o x) \o k
  <2>1. PICK e \in Marks : e = f \o d
    BY JoinType, Zenon
  <2>2. Grouped(e, h, y) /\ Grouped(e, x, k) /\ Grouped(f, d, x)
    BY Regroup
  <2>3. Grouped(before, s, y) /\ Grouped(r, h, y) /\ Grouped(r, x, k)
    BY Regroup
  <2> QED
    BY <1>10, <2>1, <2>2, <2>3, Zenon DEF Grouped
<1>12. Due(b) = d \o x /\ Reading(b.told.app, n) = r \o x /\ Shows(b, n)
  BY <1>5, <1>8 DEF Gains
<1>13. Runs(b, n, before, s \o y, answer)
  BY <1>6, <1>7, <1>11, <1>12 DEF Runs
<1>14. Answers!Telling(acc)' = b
  BY TellingNext
<1>15. start.entries' = n /\ Before' = before
  BY <1>2, <1>3 DEF Before
<1> QED
  BY <1>9, <1>13, <1>14, <1>15

\* Nothing comes; what was held has been kept and read, or is held still.
LEMMA PassesNothing ==
    ASSUME NEW a \in Accs, NEW b, NEW n \in Nat,
           \/ Gains(a, b, n, << >>) /\ Held(b) = Held(a)
           \/ Gains(a, b, n, Held(a)) /\ Held(b) = << >>
    PROVE  Passes(a, b, n, << >>)
<1>1. PICK h \in Marks : h = Held(a)
  BY HeldType
<1>2. h \o << >> = h /\ << >> \o h = h /\ << >> \in Marks
  BY EmptyJoins
<1> QED
  BY <1>1, <1>2, Zenon DEF Passes

\* Nothing is sent that adds to what was.
LEMMA NothingSent ==
    ASSUME VTypes, UNCHANGED sent PROVE sent' = sent \o << >> /\ << >> \in Marks
  BY EmptyJoins DEF VTypes

\* A call begins.
LEMMA FreshRuns ==
    ASSUME NEW by \in Answers!Providers, NEW c \in Audience, NEW n \in Nat,
           n <= Len(c.app.entries), Drawn(c.app, n), Numbers(c.app, n),
           NEW before, NEW pieces, NEW blocks \in Parts, Answers!Flat(blocks) = pieces,
           before \o pieces = Reading(c.app, n)
    PROVE  Runs([Answers!Accumulator(by) EXCEPT !.told = c], n, before, pieces, blocks)
<1>1. PICK a : a = [Answers!Accumulator(by) EXCEPT !.told = c]
  BY Zenon
<1>2. /\ a.by = by /\ a.open = Answers!None /\ a.kept = << >> /\ a.inside = "text"
      /\ a.held = << >> /\ a.told = c
  BY <1>1 DEF Answers!Accumulator
<1>3. PICK side \in Answers!Streamed : side = "text"
  BY SidesAre
<1>4. Held(a) = << >>
  BY <1>2, <1>3, TaggedType, EmptyContent DEF Held
<1>5. Due(a) = << >>
  <2>1. Pending(a) = << >> /\ << >> \in Marks
    BY <1>2 DEF Pending, Answers!None, Answers!Streamed, Marks
  <2> QED
    BY <1>2, <2>1, NothingFlat, EmptyJoins DEF Due
<1>6. Shows(a, n)
  BY <1>2 DEF Shows, Canvases, EndsKept, Answers!None
<1>7. pieces \in Marks /\ Reading(c.app, n) \in Marks
  BY FlatIs, ReadingType DEF Audience
<1>8. (pieces \o << >>) \o << >> = pieces /\ Reading(c.app, n) \o << >> = Reading(c.app, n)
  BY <1>7, EmptyJoins
<1>9. Runs(a, n, before, pieces, blocks)
  BY <1>2, <1>4, <1>5, <1>6, <1>8 DEF Runs
<1> QED
  BY <1>1, <1>9

\* The listeners as they are.
LEMMA AudienceIs ==
    ASSUME WTypes
    PROVE  [view |-> seen, garbled |-> garbled, app |-> app] \in Audience
  BY DEF WTypes, Audience

\* A turn starts.
LEMMA VStart ==
    ASSUME VInv, NEW by \in Answers!Providers, Answers!StartTurn(by), WInv' PROVE VInv'
<1>1. PICK e : e = [kind |-> "user", content |-> << >>, id |-> 0, preview |-> FALSE]
  BY Zenon
<1>2. app \in Apps /\ e \in Entry
  BY <1>1, EmptyContent DEF VInv, WInv, WTypes, Entry
<1>3. app' = [app EXCEPT !.entries = Append(@, e)]
  BY <1>1 DEF Answers!StartTurn
<1>4. PICK es \in Seq(Entry) : es = app'.entries
  BY <1>2, <1>3, AppendedType, Zenon DEF Apps
<1>5. PICK n \in Nat : n = Len(es)
  OBVIOUS
<1>6. app'.live_text = app.live_text /\ app.live_text \in Content /\ app' \in Apps
  BY <1>2, <1>3, AppendedType, Zenon DEF Apps
<1>7. /\ start'.entries = n /\ start'.live_text = app.live_text
      /\ sent' = << >> /\ answer' = << >> /\ phase' = "streaming"
      /\ acc' = Answers!Accumulator(by)
  BY <1>4, <1>5 DEF Answers!StartTurn
<1>8. VTypes'
  BY <1>5, <1>6, <1>7 DEF VTypes, Marks
<1>9. /\ n <= Len(app'.entries) /\ Drawn(app', n) /\ Numbers(app', n)
  <2>1. \A i \in n + 1 .. n : FALSE
    BY <1>5
  <2> QED
    BY <1>4, <1>5, <2>1 DEF Drawn, Numbers
<1>10. After(es, n) = << >>
  <2>1. Len(After(es, n)) = 0 /\ After(es, n) \in Seq(Entry)
    BY <1>5, AfterIs
  <2> QED
    BY <2>1
<1>11. PICK before : before = Answers!Tagged("text", app.live_text)
  OBVIOUS
<1>12. before \in Marks /\ Before' = before
  <2>1. PICK side \in Answers!Streamed : side = "text"
    BY SidesAre
  <2> QED
    BY <1>6, <1>7, <1>11, <2>1, TaggedType DEF Before
<1>13. before \o << >> = Reading(app', n)
  BY <1>4, <1>6, <1>10, <1>11, <1>12, NothingFlat, EmptyJoins, Zenon DEF Reading
<1>14. PICK c \in Audience : c = [view |-> seen', garbled |-> garbled', app |-> app']
  BY AudienceIs, Zenon DEF WInv, WTypes, Audience
<1>15. c.app = app' /\ << >> \in Parts
  BY <1>14 DEF Parts
<1>16. Runs([Answers!Accumulator(by) EXCEPT !.told = c], n, before, << >>, << >>)
  BY <1>9, <1>13, <1>15, NothingFlat, FreshRuns, Zenon
<1>17. Answers!Telling(acc)' = [Answers!Accumulator(by) EXCEPT !.told = c]
  BY <1>7, <1>14 DEF Answers!Telling
<1>18. Runs(Answers!Telling(acc), start.entries, Before, sent, answer)'
  BY <1>7, <1>12, <1>16, <1>17
<1> QED
  BY <1>7, <1>8, <1>18 DEF VInv

\* The next call starts.
LEMMA VNext == ASSUME VInv, Answers!NextCall, WInv' PROVE VInv'
<1>1. /\ phase = "answered" /\ phase' = "streaming" /\ acc' = Answers!Accumulator(acc.by)
      /\ UNCHANGED <<answer, sent, start, cut, app>>
  BY DEF Answers!NextCall, Answers!turnVars
<1>2. PICK by \in Answers!Providers : by = acc.by
  BY DEF VInv, WInv, WTypes, Resting
<1>3. VTypes' /\ Before' = Before
  BY <1>1 DEF VInv, VTypes, Before
<1>4. ASSUME ~cut PROVE Runs(Answers!Telling(acc), start.entries, Before, sent, answer)'
  <2>1. Ends(app, start.entries, Before, sent, answer)
    BY <1>1, <1>4 DEF VInv
  <2>2. PICK c \in Audience : c = [view |-> seen', garbled |-> garbled', app |-> app']
    BY AudienceIs, Zenon DEF WInv, WTypes, Audience
  <2>3. c.app = app /\ answer \in Parts /\ start.entries \in Nat
    BY <1>1, <2>2 DEF VInv, WInv, WTypes, VTypes
  <2>4. Runs([Answers!Accumulator(by) EXCEPT !.told = c], start.entries, Before, sent, answer)
    BY <2>1, <2>3, FreshRuns, Zenon DEF Ends
  <2>5. Answers!Telling(acc)' = [Answers!Accumulator(by) EXCEPT !.told = c]
    BY <1>1, <1>2, <2>2 DEF Answers!Telling
  <2> QED
    BY <1>1, <1>3, <2>4, <2>5
<1> QED
  BY <1>1, <1>3, <1>4 DEF VInv

\* A step of a call that keeps the turn going.
LEMMA VGoesOn ==
    ASSUME VInv, WInv', phase = "streaming", NEW b \in Accs, NEW y \in Marks,
           Passes(Answers!Telling(acc), b, start.entries, y) \/ cut, Answers!Streams(b),
           sent' = sent \o y, UNCHANGED <<phase, start, answer, cut>>,
           ~cut /\ b.by = "anthropic" /\ b.upstream # "text" => Held(b) = << >>
    PROVE  VInv'
<1>1. VTypes'
  BY JoinType DEF VInv, VTypes
<1>2. ~cut => Runs(Answers!Telling(acc), start.entries, Before, sent, answer)'
  BY RunsOn
<1> QED
  BY <1>1, <1>2 DEF VInv

\* The accumulator of a call that goes on.
LEMMA Going ==
    ASSUME VInv, phase = "streaming"
    PROVE  \E a \in Accs :
              /\ a = Answers!Telling(acc) /\ a.by = acc.by /\ a.upstream = acc.upstream
              /\ a.inside = acc.inside /\ Sound(a) /\ Between(a) /\ start.entries \in Nat
              /\ ~cut => /\ Shows(a, start.entries)
                         /\ a.by = "anthropic" /\ a.upstream # "text" => Held(a) = << >>
  BY TellingIs DEF VInv, WInv, VTypes, Runs

\* A fragment comes.
LEMMA VText ==
    ASSUME VInv, NEW lead \in BOOLEAN, NEW fence \in BOOLEAN, NEW tail \in BOOLEAN,
           NEW hold \in BOOLEAN, Answers!Text(lead, fence, tail, hold), WInv'
    PROVE  VInv'
<1>1. PICK a \in Accs :
              /\ a = Answers!Telling(acc) /\ a.by = acc.by /\ a.upstream = acc.upstream
              /\ a.inside = acc.inside /\ Sound(a) /\ Between(a) /\ start.entries \in Nat
              /\ ~cut => Shows(a, start.entries)
  BY Going DEF Answers!Text
<1>2. PICK m \in Nat : m = spent.pieces
  BY DEF VInv, WInv, WTypes
<1>3. PICK before, after : /\ before = IF lead THEN <<m + 1>> ELSE << >>
                           /\ after = IF tail THEN <<m + (IF lead THEN 2 ELSE 1)>> ELSE << >>
  BY Zenon
<1>4. PICK f : f = [lead |-> before, fence |-> fence, hold |-> hold, tail |-> after]
  BY Zenon
<1>5. PICK side : side = IF fence THEN Answers!Other(a.inside) ELSE a.inside
  OBVIOUS
<1>6. /\ phase = "streaming" /\ (acc.by = "anthropic" => acc.upstream = "text")
      /\ (tail => fence) /\ m + Len(before \o after) <= MaxPieces
      /\ Answers!Streams(Answers!PushFragment(a, f))
      /\ sent' = (sent \o Answers!Tagged(a.inside, before)) \o Answers!Tagged(side, after)
      /\ UNCHANGED <<phase, start, answer, cut>>
  BY <1>1, <1>2, <1>3, <1>4, <1>5 DEF Answers!Text
<1>7. before \in Content /\ after \in Content
  BY <1>2, <1>3, <1>6, FragmentType, Zenon
<1>8. after = << >> \/ fence
  BY <1>3, <1>6
<1>9. PICK b \in Accs : b = Answers!PushFragment(a, f) /\ SameCall(a, b)
  BY <1>1, <1>4, <1>7, PushSound
<1>10. PICK l \in Marks, z \in Marks : /\ l = Answers!Tagged(a.inside, before)
                                       /\ z = Answers!Tagged(side, after)
  <2>1. a.inside \in Answers!Streamed /\ side \in Answers!Streamed
    BY <1>5 DEF Accs, Answers!Other, Answers!Streamed
  <2> QED
    BY <1>7, <2>1, TaggedType
<1>11. ~cut => Passes(a, b, start.entries, l \o z)
  BY <1>1, <1>4, <1>5, <1>7, <1>8, <1>9, <1>10, PushPasses
<1>12. PICK y \in Marks : y = l \o z
  BY JoinType, Zenon
<1>13. sent' = sent \o y
  <2>1. PICK s \in Marks : s = sent
    BY DEF VInv, VTypes
  <2>2. Grouped(s, l, z)
    BY Regroup
  <2> QED
    BY <1>6, <1>10, <1>12, <2>1, <2>2 DEF Grouped
<1>14. ~(b.by = "anthropic" /\ b.upstream # "text")
  BY <1>1, <1>6, <1>9 DEF SameCall
<1> QED
  BY <1>1, <1>6, <1>9, <1>11, <1>12, <1>13, <1>14, VGoesOn, Zenon

\* A block of Anthropic's starts or stops.
LEMMA VBlock ==
    ASSUME VInv, Answers!TextBlockStarts \/ Answers!BlockStops, WInv' PROVE VInv'
<1>1. PICK a \in Accs :
              /\ a = Answers!Telling(acc) /\ a.by = acc.by /\ a.upstream = acc.upstream
              /\ a.inside = acc.inside /\ Sound(a) /\ Between(a) /\ start.entries \in Nat
              /\ ~cut => /\ Shows(a, start.entries)
                         /\ a.by = "anthropic" /\ a.upstream # "text" => Held(a) = << >>
  BY Going DEF Answers!TextBlockStarts, Answers!BlockStops
<1>2. /\ phase = "streaming" /\ UNCHANGED <<phase, start, answer, cut, sent>>
  BY DEF Answers!TextBlockStarts, Answers!BlockStops, Answers!turnVars
<1>3. sent' = sent \o << >> /\ << >> \in Marks
  BY <1>2, NothingSent DEF VInv
<1>4. PICK n \in Nat : n = start.entries
  BY <1>1
<1>5. CASE Answers!TextBlockStarts
  <2>1. PICK b \in Accs : b = Upstream(a, "text") /\ b.upstream = "text"
    BY <1>1, UpstreamSound DEF Answers!Kinds, Answers!Streamed
  <2>2. Answers!Streams(b)
    BY <1>1, <1>5, <2>1 DEF Answers!TextBlockStarts, Upstream
  <2>3. ~cut => Gains(a, b, n, << >>) /\ Held(b) = Held(a)
    BY <1>1, <1>4, <2>1, UpstreamGains
  <2>4. ~cut => Passes(a, b, n, << >>)
    BY <2>3, PassesNothing
  <2> QED
    BY <1>1, <1>2, <1>3, <1>4, <2>1, <2>2, <2>4, VGoesOn, Zenon
<1>6. CASE Answers!BlockStops
  <2>1. PICK b \in Accs : b = Upstream(a, "none") /\ Sound(b) /\ b.by = a.by
    BY <1>1, UpstreamSound
  <2>2. PICK c \in Accs : /\ c = IF acc.upstream = "text" THEN Answers!FinishFence(b) ELSE b
                          /\ Sound(c)
    BY <2>1, FinishSound
  <2>3. PICK d \in Accs : d = Answers!Close(c) /\ Same(c, d)
    BY <2>2, CloseSound
  <2>4. Answers!Streams(d)
    BY <1>1, <1>6, <2>1, <2>2, <2>3 DEF Answers!BlockStops, Upstream
  <2>5. ASSUME ~cut PROVE Passes(a, d, n, << >>) /\ Held(d) = << >>
    <3>1. Shows(a, n) /\ Gains(a, b, n, << >>) /\ Held(b) = Held(a) /\ Held(a) \in Marks
      BY <1>1, <1>4, <2>1, <2>5, UpstreamGains, HeldType
    <3>2. Shows(b, n)
      BY <3>1 DEF Gains
    <3>3. Held(d) = Held(c)
      BY <2>3 DEF Held, Same
    <3>4. CASE acc.upstream = "text"
      <4>1. Gains(b, c, n, Held(a)) /\ Held(c) = << >>
        BY <2>1, <2>2, <3>1, <3>2, <3>4, FinishPasses
      <4>2. Gains(a, c, n, Held(a)) /\ Shows(c, n)
        BY <3>1, <4>1, GainsAfter DEF Gains
      <4>3. Gains(c, d, n, << >>)
        BY <2>2, <2>3, <4>2, CloseGains
      <4>4. Gains(a, d, n, Held(a))
        BY <3>1, <4>2, <4>3, GainsNoMore
      <4> QED
        BY <3>3, <4>1, <4>4, PassesNothing
    <3>5. CASE acc.upstream # "text"
      <4>1. a.by = "anthropic" /\ Held(a) = << >>
        BY <1>1, <1>6, <2>5, <3>5 DEF Between, Answers!BlockStops
      <4>2. c = b /\ Gains(b, d, n, << >>)
        BY <2>2, <2>3, <3>2, <3>5, CloseGains
      <4>3. Gains(a, d, n, << >>)
        BY <1>3, <3>1, <4>2, GainsAfter
      <4> QED
        BY <3>1, <3>3, <4>1, <4>2, <4>3, PassesNothing
    <3> QED
      BY <3>4, <3>5
  <2> QED
    BY <1>1, <1>2, <1>3, <1>4, <2>4, <2>5, VGoesOn, Zenon
<1> QED
  BY <1>5, <1>6

\* A tool call or a thought comes.
LEMMA VItem ==
    ASSUME VInv, Answers!Tool \/ Answers!Think, WInv' PROVE VInv'
<1>1. PICK a \in Accs :
              /\ a = Answers!Telling(acc) /\ a.by = acc.by /\ a.upstream = acc.upstream
              /\ a.inside = acc.inside /\ Sound(a) /\ Between(a) /\ start.entries \in Nat
              /\ ~cut => /\ Shows(a, start.entries)
                         /\ a.by = "anthropic" /\ a.upstream # "text" => Held(a) = << >>
  BY Going DEF Answers!Tool, Answers!Think
<1>2. /\ phase = "streaming" /\ acc.upstream = "none"
      /\ UNCHANGED <<phase, start, answer, cut, sent>>
  BY DEF Answers!Tool, Answers!Think, Answers!turnVars
<1>3. sent' = sent \o << >> /\ << >> \in Marks
  BY <1>2, NothingSent DEF VInv
<1>4. PICK n \in Nat : n = start.entries
  BY <1>1
<1>5. ASSUME NEW b \in Accs, b.by = a.by, Answers!Streams(b),
             ~cut => Gains(a, b, n, << >>) /\ Held(b) = Held(a)
      PROVE  VInv'
  <2>1. ~cut => Passes(a, b, n, << >>)
    BY <1>5, PassesNothing
  <2>2. ~cut /\ b.by = "anthropic" => Held(b) = << >>
    BY <1>1, <1>2, <1>5
  <2> QED
    BY <1>1, <1>2, <1>3, <1>4, <1>5, <2>1, <2>2, VGoesOn, Zenon
<1>6. CASE Answers!Tool
  <2>1. PICK b \in Accs : b = Answers!ToolCall(a) /\ b.by = a.by
    BY <1>1, ToolSound
  <2>2. Answers!Streams(b)
    BY <1>1, <1>6, <2>1 DEF Answers!Tool
  <2>3. ~cut => Gains(a, b, n, << >>) /\ Held(b) = Held(a)
    BY <1>1, <1>4, <2>1, ToolGains
  <2> QED
    BY <1>5, <2>1, <2>2, <2>3
<1>7. CASE acc.by = "gemini"
           /\ Answers!Streams(Answers!EmitChunk(a, Answers!Block("thinking", << >>)))
  <2>1. PICK chunk \in Part : chunk = Answers!Block("thinking", << >>) /\ chunk.kind = "thinking"
    BY BlockType, EmptyContent DEF Answers!Kinds
  <2>2. Answers!PiecesOf(chunk) = << >>
    BY <2>1, PiecesOfType DEF Answers!Streamed
  <2>3. PICK b \in Accs : b = Answers!EmitChunk(a, chunk) /\ Same(a, b)
    BY <1>1, <1>7, EmitChunkSound
  <2>4. ~cut => Gains(a, b, n, << >>)
    BY <1>1, <1>4, <1>7, <2>2, <2>3, EmitChunkGains
  <2>5. Answers!Streams(b) /\ b.by = a.by /\ Held(b) = Held(a)
    BY <1>7, <2>1, <2>3 DEF Same, Held
  <2> QED
    BY <1>5, <2>4, <2>5
<1>8. CASE /\ acc.by = "anthropic"
           /\ Answers!Streams([Answers!Open(Answers!Close(a), "thinking")
                                  EXCEPT !.upstream = "thinking"])
  <2>1. PICK b \in Accs : /\ b = [Answers!Open(Answers!Close(a), "thinking")
                                     EXCEPT !.upstream = "thinking"]
                          /\ b.by = a.by
    BY <1>1, <1>8, BlockSound, Zenon
  <2>2. ~cut => Gains(a, b, n, << >>) /\ Held(b) = Held(a)
    BY <1>1, <1>4, <1>8, <2>1, BlockGains, Zenon
  <2> QED
    BY <1>5, <1>8, <2>1, <2>2, Zenon
<1> QED
  BY <1>1, <1>6, <1>7, <1>8 DEF Answers!Think

\* What is held is of some pieces, or there is none.
LEMMA NoneHeld == ASSUME NEW a \in Accs, Held(a) = << >> PROVE a.held = << >>
<1>1. PICK side \in Answers!Streamed, pieces \in Content : side = a.inside /\ pieces = a.held
  BY DEF Accs
<1>2. Len(Answers!Tagged(side, pieces)) = Len(pieces)
  BY TaggedIs
<1>3. Answers!Tagged(side, pieces) = << >>
  BY <1>1 DEF Held
<1>4. Len(pieces) = 0
  BY <1>2, <1>3
<1> QED
  BY <1>1, <1>4 DEF Content

\* A call ends.
LEMMA VCallEnds == ASSUME VInv, Answers!CallEnds, WInv' PROVE VInv'
<1>1. PICK a \in Accs :
              /\ a = Answers!Telling(acc) /\ a.by = acc.by /\ a.upstream = acc.upstream
              /\ a.inside = acc.inside /\ Sound(a) /\ Between(a) /\ start.entries \in Nat
              /\ ~cut => /\ Shows(a, start.entries)
                         /\ a.by = "anthropic" /\ a.upstream # "text" => Held(a) = << >>
  BY Going DEF Answers!CallEnds
<1>2. PICK b \in Accs : b = Answers!Flush(a)
  BY <1>1, FlushSound, Zenon
<1>3. PICK blocks \in Parts : blocks = Answers!ContentOf(b)
  BY ContentOfType
<1>4. /\ app' \in {b.told.app, Answers!FlushLiveText(b.told.app)} /\ answer' = answer \o blocks
      /\ cut' = (cut \/ acc.upstream # "none") /\ phase = "streaming" /\ phase' = "answered"
      /\ UNCHANGED <<sent, start>>
  BY <1>1, <1>2, <1>3 DEF Answers!CallEnds
<1>5. VTypes' /\ Before' = Before
  BY <1>4 DEF VInv, VTypes, Before
<1>6. PICK n \in Nat : n = start.entries
  BY <1>1
<1>7. ASSUME ~cut' PROVE Ends(app', n, Before, sent, answer')
  <2>1. ~cut /\ a.upstream = "none"
    BY <1>1, <1>4, <1>7, Zenon
  <2>2. Runs(a, n, Before, sent, answer) /\ Shows(a, n)
    BY <1>1, <1>4, <1>6, <2>1 DEF VInv
  <2>3. a.by = "anthropic" => a.open = Answers!None /\ a.held = << >>
    BY <1>1, <2>1, NoneHeld DEF Between
  <2>4. /\ Gains(a, b, n, Held(a)) /\ b.open = Answers!None
        /\ Answers!Flat(blocks) = Due(b)
    BY <1>1, <1>2, <1>3, <2>2, <2>3, FlushGains
  <2>5. PICK f \in Marks, d \in Marks, h \in Marks :
           f = Answers!Flat(answer) /\ d = Due(a) /\ h = Held(a)
    BY <2>2, FlatIs, HeldType, ShowsTypes DEF VInv, WInv, WTypes
  <2>6. Answers!Flat(answer') = sent
    <3>1. Answers!Flat(answer \o blocks) = f \o Answers!Flat(blocks)
      BY <2>5, FlatJoins, Zenon DEF VInv, WInv, WTypes
    <3>2. Answers!Flat(blocks) = d \o h /\ sent = (f \o d) \o h
      BY <2>2, <2>4, <2>5 DEF Gains, Runs
    <3>3. Grouped(f, d, h)
      BY Regroup
    <3> QED
      BY <1>4, <3>1, <3>2, <3>3 DEF Grouped
  <2>7. PICK p \in Apps : p = b.told.app
    BY DEF Accs, Audience
  <2>8. /\ Before \o sent = Reading(p, n) /\ n <= Len(p.entries) /\ Drawn(p, n) /\ Numbers(p, n)
    BY <2>2, <2>4, <2>7 DEF Gains, Runs, Shows, Canvases, Answers!None
  <2>9. PICK q : q = Answers!FlushLiveText(p)
    OBVIOUS
  <2>10. /\ Reading(q, n) = Reading(p, n) /\ Len(p.entries) <= Len(q.entries)
         /\ Drawn(q, n) /\ Numbers(q, n) /\ q \in Apps
    BY <2>8, <2>9, LiveTextRead, LiveTextType
  <2>11. n <= Len(q.entries)
    <3>1. Len(p.entries) \in Nat /\ Len(q.entries) \in Nat
      BY <2>10 DEF Apps
    <3> QED
      BY <2>8, <2>10, <3>1
  <2> QED
    BY <1>4, <2>6, <2>7, <2>8, <2>9, <2>10, <2>11 DEF Ends
<1> QED
  BY <1>4, <1>5, <1>6, <1>7 DEF VInv

\* The steps between the turns.
LEMMA VRests ==
    ASSUME VInv, \/ Answers!TurnCompletes \/ Answers!TurnFails
                 \/ Answers!ClearLog \/ Answers!Resume, WInv'
    PROVE  VInv'
<1>1. phase' = "idle" /\ UNCHANGED <<sent, start>>
  BY DEF Answers!TurnCompletes, Answers!TurnFails, Answers!ClearLog, Answers!Resume,
         Answers!turnVars
<1> QED
  BY <1>1 DEF VInv, VTypes

\* It holds at the start.
LEMMA VInitially == Answers!Init => VInv
<1> SUFFICES ASSUME Answers!Init PROVE VInv
  OBVIOUS
<1>1. WInv /\ phase = "idle"
  BY WInitially DEF Answers!Init
<1>2. VTypes
  BY EmptyContent DEF Answers!Init, VTypes, Marks
<1> QED
  BY <1>1, <1>2 DEF VInv

\* Every step keeps it.
LEMMA VStep == VInv /\ [Answers!Next]_(Answers!vars) => VInv'
<1> SUFFICES ASSUME VInv, [Answers!Next]_(Answers!vars) PROVE VInv'
  OBVIOUS
<1>1. WInv'
  BY WStep DEF VInv
<1>2. CASE UNCHANGED Answers!vars
  <2>1. UNCHANGED <<phase, acc, seen, garbled, answer, sent, start, cut, app>>
    BY <1>2 DEF Answers!vars, Answers!callVars, Answers!turnVars
  <2>2. VTypes' /\ Before' = Before /\ Answers!Telling(acc)' = Answers!Telling(acc)
    BY <2>1 DEF VInv, VTypes, Before, Answers!Telling
  <2> QED
    BY <1>1, <2>1, <2>2 DEF VInv
<1>3. CASE Answers!Next
  <2>1. ASSUME NEW by \in Answers!Providers, Answers!StartTurn(by) PROVE VInv'
    BY <1>1, <2>1, VStart
  <2>2. ASSUME NEW lead \in BOOLEAN, NEW fence \in BOOLEAN, NEW tail \in BOOLEAN,
               NEW hold \in BOOLEAN, Answers!Text(lead, fence, tail, hold)
        PROVE  VInv'
    BY <1>1, <2>2, VText
  <2> QED
    BY <1>1, <1>3, <2>1, <2>2, VBlock, VItem, VCallEnds, VNext, VRests DEF Answers!Next
<1> QED
  BY <1>2, <1>3

\* For every provider, what the upstream sent, what goes into the history and what the user
\* has seen are the same pieces in the same order on the same side of the fences, and no
\* canvas is left a preview.
THEOREM AsShown == Answers!Spec => []AnswerIsShown
<1>1. VInv => AnswerIsShown
  <2> SUFFICES ASSUME VInv, phase = "answered", ~cut
               PROVE  /\ Answers!Flat(answer) = sent
                      /\ Answers!Shown(Answers!Since(app)) \o Answers!Tagged("text", app.live_text)
                            = Answers!Tagged("text", start.live_text) \o sent
                      /\ \A i \in DOMAIN Answers!Since(app) : ~Answers!Since(app)[i].preview
    BY DEF AnswerIsShown, Answers!AnswerIsShown
  <2>1. Ends(app, start.entries, Before, sent, answer)
    BY DEF VInv
  <2>2. PICK es \in Seq(Entry), n \in Nat : es = app.entries /\ n = start.entries
    BY DEF VInv, WInv, WTypes, VTypes, Apps
  <2>3. n <= Len(es) /\ \A i \in n + 1 .. Len(es) : ~es[i].preview
    BY <2>1, <2>2 DEF Ends, Drawn
  <2>4. Answers!Since(app) = After(es, n)
    BY <2>2 DEF Answers!Since, After
  <2>5. \A i \in DOMAIN After(es, n) : ~After(es, n)[i].preview
    <3> SUFFICES ASSUME NEW i \in DOMAIN After(es, n) PROVE ~After(es, n)[i].preview
      OBVIOUS
    <3>0. /\ After(es, n) \in Seq(Entry) /\ Len(After(es, n)) = Len(es) - n
          /\ \A j \in 1 .. Len(es) - n : After(es, n)[j] = es[n + j]
      BY <2>3, AfterIs
    <3>1. i \in 1 .. Len(es) - n /\ After(es, n)[i] = es[n + i]
      BY <3>0
    <3>2. n + i \in n + 1 .. Len(es)
      BY <3>1
    <3> QED
      BY <2>3, <3>1, <3>2
  <2> QED
    BY <2>1, <2>2, <2>4, <2>5, Zenon DEF Ends, Reading, Before
<1> QED
  BY <1>1, VInitially, VStep, PTL DEF Answers!Spec
=============================================================================
