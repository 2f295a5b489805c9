----------------------------- MODULE ReaderProofs -----------------------------
(***************************************************************************)
(* The reader, for every text: its tokens cover the text, its frames nest  *)
(* as the calls do, it takes brackets in pairs and blames the right one,   *)
(* and every step brings it nearer to the end.                             *)
(***************************************************************************)
EXTENDS Reader, SublistsProofs, WellFoundedInduction

-----------------------------------------------------------------------------
(* Induction over a set of numbers.                                        *)

(* Every set of numbers that is not empty has a least member.              *)
LEMMA LeastNumber ==
    ASSUME NEW S \in SUBSET Nat, S # {}
    PROVE  \E x \in S : \A y \in S : x <= y
  <1> DEFINE R == {ss \in Nat \X Nat : ss[1] < ss[2]}
  <1>1. IsWellFoundedOn(R, Nat)
    BY NatLessThanWellFounded DEF OpToRel
  <1> HIDE DEF R
  <1>2. PICK x \in S : \A y \in S : ~(<<y, x>> \in R)
    BY <1>1, WFMin, Zenon
  <1>3. \A y \in S : ~(y < x)
    <2>1. SUFFICES ASSUME NEW y \in S, y < x
                   PROVE  FALSE
      OBVIOUS
    <2>2. <<y, x>> \in Nat \X Nat /\ <<y, x>>[1] = y /\ <<y, x>>[2] = x
      OBVIOUS
    <2>3. <<y, x>> \in R
      BY <2>1, <2>2 DEF R
    <2>4. QED
      BY <1>2, <2>3
  <1>4. QED
    BY <1>3

(* A set with 0 and, up to n, the successor of each member has all of them *)
(* up to n.                                                                *)
LEMMA Reached ==
    ASSUME NEW n \in Nat, NEW S, 0 \in S, \A k \in 0 .. n - 1 : k \in S => k + 1 \in S
    PROVE  \A k \in 0 .. n : k \in S
  <1> DEFINE T == {k \in 0 .. n : k \notin S}
  <1>1. SUFFICES ASSUME T # {}
                 PROVE  FALSE
    OBVIOUS
  <1>2. T \in SUBSET Nat
    OBVIOUS
  <1>3. PICK x \in T : \A y \in T : x <= y
    <2> HIDE DEF T
    <2> QED
      BY <1>1, <1>2, LeastNumber
  <1>4. x - 1 \in 0 .. n - 1 /\ x - 1 \notin T
    BY <1>3
  <1>5. QED
    BY <1>3, <1>4

-----------------------------------------------------------------------------
(* Runs of places.                                                         *)

(* A run of places ends at a place that is not one of them.                *)
LEMMA AfterRun ==
    ASSUME NEW s, Len(s) \in Nat, NEW p \in 1 .. Len(s) + 1, NEW K \in SUBSET (1 .. Len(s))
    PROVE  /\ After(s, p, K) \in p .. Len(s) + 1
           /\ After(s, p, K) \notin K
           /\ p .. After(s, p, K) - 1 \subseteq K
  <1> DEFINE T == {q \in p .. Len(s) + 1 : q \notin K}
  <1>1. Len(s) + 1 \in T
    OBVIOUS
  <1>2. T \in SUBSET Nat
    OBVIOUS
  <1>3. PICK q \in T : \A y \in T : q <= y
    <2> HIDE DEF T
    <2> QED
      BY <1>1, <1>2, LeastNumber
  <1>4. p .. q - 1 \subseteq K
    BY <1>3
  <1>5. \E e \in p .. Len(s) + 1 : e \notin K /\ p .. e - 1 \subseteq K
    BY <1>3, <1>4
  <1>6. QED
    BY <1>5 DEF After

-----------------------------------------------------------------------------
(* All but the last item of a sequence, and the last.                      *)

LEMMA FrontAndLast ==
    ASSUME NEW S, NEW s \in Seq(S), s # <<>>
    PROVE  /\ Len(s) \in Nat \ {0}
           /\ Front(s) \in Seq(S) /\ Len(Front(s)) = Len(s) - 1
           /\ \A i \in 1 .. Len(s) - 1 : Front(s)[i] = s[i]
           /\ Last(s) = s[Len(s)] /\ Last(s) \in S
  <1>1. Len(s) \in Nat \ {0} /\ \A i \in 1 .. Len(s) : s[i] \in S
    BY EmptySeq, ElementOfSeq
  <1> DEFINE n == Len(s)
             f == SubSeq(s, 1, n - 1)
  <1>2. n - 1 \in Int /\ 1 \in Int /\ \A i \in 1 .. n - 1 : s[i] \in S
    BY <1>1
  <1>3. /\ f \in Seq(S)
        /\ Len(f) = IF 1 <= n - 1 THEN (n - 1) - 1 + 1 ELSE 0
        /\ \A i \in 1 .. (n - 1) - 1 + 1 : f[i] = s[1 + i - 1]
    <2> HIDE DEF n
    <2> QED
      BY <1>2, SubSeqProperties
  <1>4. f \in Seq(S) /\ Len(f) = n - 1 /\ \A i \in 1 .. n - 1 : f[i] = s[i]
    <2>1. n \in Nat \ {0}
      BY <1>1
    <2> HIDE DEF f, n
    <2>2. Len(f) = n - 1
      BY <1>3, <2>1
    <2>3. ASSUME NEW i \in 1 .. n - 1
          PROVE  f[i] = s[i]
      <3>1. i \in 1 .. (n - 1) - 1 + 1 /\ 1 + i - 1 = i
        BY <2>1
      <3>2. QED
        BY <1>3, <3>1
    <2>4. QED
      BY <1>3, <2>2, <2>3
  <1>5. QED
    BY <1>1, <1>4 DEF Front, Last

-----------------------------------------------------------------------------
(* Brackets without a partner.                                             *)

(* What the n-th token leaves of the brackets r in front of it.            *)
Left(r, n) ==
    IF /\ tokens[n].kind = "close" /\ r # <<>> /\ tokens[Last(r)].kind = "open"
       /\ tokens[n].v = <<Closer[tokens[Last(r)].v[1]]>>
    THEN Front(r)
    ELSE IF tokens[n].kind \in {"open", "close"} THEN Append(r, n) ELSE r

(* There is a function that is defined as Unpaired is.                     *)
LEMMA UnpairedDefined ==
    ASSUME Len(tokens) \in Nat
    PROVE  /\ Unpaired[0] = <<>>
           /\ \A n \in 1 .. Len(tokens) : Unpaired[n] = Left(Unpaired[n - 1], n)
  <1> DEFINE Upto(f, k) == f = [n \in 0 .. k |-> IF n = 0 THEN <<>> ELSE Left(f[n - 1], n)]
             S == {k \in Nat : \E f : Upto(f, k)}
  <1>1. 0 \in S
    <2>1. Upto([n \in 0 .. 0 |-> <<>>], 0)
      OBVIOUS
    <2>2. QED
      BY <2>1
  <1>2. ASSUME NEW k \in Nat, k \in S
        PROVE  k + 1 \in S
    <2>1. PICK f : Upto(f, k)
      BY <1>2
    <2> DEFINE g == [n \in 0 .. k + 1 |-> IF n = k + 1 THEN Left(f[k], n) ELSE f[n]]
    <2>2. ASSUME NEW n \in 0 .. k + 1
          PROVE  g[n] = IF n = 0 THEN <<>> ELSE Left(g[n - 1], n)
      <3>1. CASE n = k + 1
        <4>1. g[n - 1] = f[k] /\ n # 0
          BY <3>1
        <4>2. QED
          BY <3>1, <4>1
      <3>2. CASE n # k + 1
        <4>1. n \in 0 .. k /\ g[n] = f[n] /\ (n # 0 => g[n - 1] = f[n - 1])
          BY <3>2
        <4>2. f[n] = IF n = 0 THEN <<>> ELSE Left(f[n - 1], n)
          BY <2>1, <4>1
        <4>3. QED
          BY <4>1, <4>2
      <3>3. QED
        BY <3>1, <3>2
    <2>3. Upto(g, k + 1)
      BY <2>2
    <2>4. \E h : Upto(h, k + 1)
      <3> HIDE DEF g
      <3> QED
        BY <2>3
    <2> HIDE DEF Upto
    <2>5. QED
      BY <1>2, <2>4
  <1>3. Len(tokens) \in S
    <2> HIDE DEF S
    <2>1. \A k \in 0 .. Len(tokens) - 1 : k \in S => k + 1 \in S
      BY <1>2
    <2>2. \A k \in 0 .. Len(tokens) : k \in S
      BY <1>1, <2>1, Reached
    <2>3. QED
      BY <2>2
  <1>4. \E f : Upto(f, Len(tokens))
    BY <1>3
  <1>5. Upto(Unpaired, Len(tokens))
    BY <1>4, Zenon DEF Unpaired, Left
  <1>6. QED
    BY <1>5

(* The brackets without a partner are brackets among the first n tokens.   *)
LEMMA UnpairedType ==
    ASSUME Len(tokens) \in Nat, NEW n \in 0 .. Len(tokens)
    PROVE  /\ Unpaired[n] \in Seq(1 .. n)
           /\ \A i \in 1 .. Len(Unpaired[n]) : tokens[Unpaired[n][i]].kind \in {"open", "close"}
  <1> DEFINE Fine(k) == /\ Unpaired[k] \in Seq(1 .. k)
                        /\ \A i \in 1 .. Len(Unpaired[k]) :
                               tokens[Unpaired[k][i]].kind \in {"open", "close"}
             S == {k \in Nat : Fine(k)}
  <1>1. 0 \in S
    <2>1. Unpaired[0] = <<>> /\ <<>> \in Seq(1 .. 0) /\ Len(<<>>) = 0
      BY UnpairedDefined, EmptySeq
    <2>2. Fine(0)
      BY <2>1
    <2>3. QED
      BY <2>2
  <1>2. ASSUME NEW k \in 0 .. Len(tokens) - 1, k \in S
        PROVE  k + 1 \in S
    <2> DEFINE r == Unpaired[k]
    <2>1. /\ r \in Seq(1 .. k)
          /\ \A i \in 1 .. Len(r) : tokens[r[i]].kind \in {"open", "close"}
      BY <1>2
    <2>2. Unpaired[k + 1] = Left(r, k + 1)
      BY UnpairedDefined
    <2> DEFINE r1 == Left(r, k + 1)
    <2>3. /\ r1 \in Seq(1 .. k + 1)
          /\ \A i \in 1 .. Len(r1) : tokens[r1[i]].kind \in {"open", "close"}
      <3> HIDE DEF r
      <3>1. r \in Seq(1 .. k + 1) /\ Len(r) \in Nat
        BY <2>1, SeqMonotonic, LenProperties
      <3>2. CASE r # <<>> /\ r1 = Front(r)
        <4>1. /\ Front(r) \in Seq(1 .. k + 1) /\ Len(Front(r)) = Len(r) - 1
              /\ \A i \in 1 .. Len(r) - 1 : Front(r)[i] = r[i]
          BY <3>1, <3>2, FrontAndLast
        <4> HIDE DEF r1
        <4>2. \A i \in 1 .. Len(r1) : i \in 1 .. Len(r) /\ r1[i] = r[i]
          <5>1. Len(r1) = Len(r) - 1 /\ \A i \in 1 .. Len(r) - 1 : r1[i] = r[i]
            BY <3>2, <4>1
          <5>2. QED
            BY <3>1, <5>1
        <4>3. QED
          BY <2>1, <3>2, <4>1, <4>2
      <3>3. CASE r1 = Append(r, k + 1) /\ tokens[k + 1].kind \in {"open", "close"}
        <4>1. /\ Append(r, k + 1) \in Seq(1 .. k + 1)
              /\ Len(Append(r, k + 1)) = Len(r) + 1
              /\ \A i \in 1 .. Len(r) : Append(r, k + 1)[i] = r[i]
              /\ Append(r, k + 1)[Len(r) + 1] = k + 1
          BY <3>1, AppendProperties
        <4> HIDE DEF r1
        <4>2. QED
          BY <2>1, <3>1, <3>3, <4>1
      <3>4. CASE r1 = r
        BY <2>1, <3>1, <3>4
      <3>5. QED
        BY <3>2, <3>3, <3>4 DEF Left
    <2>4. Fine(k + 1)
      BY <2>2, <2>3
    <2>5. QED
      BY <2>4
  <1>3. n \in S
    <2> HIDE DEF S
    <2>1. \A k \in 0 .. Len(tokens) : k \in S
      BY <1>1, <1>2, Reached
    <2>2. QED
      BY <2>1
  <1>4. QED
    BY <1>3

(* Tokens that are no brackets change nothing.                             *)
LEMMA UnpairedSame ==
    ASSUME Len(tokens) \in Nat, NEW a \in 0 .. Len(tokens), NEW b \in a .. Len(tokens),
           \A h \in a + 1 .. b : tokens[h].kind \notin {"open", "close"}
    PROVE  Unpaired[b] = Unpaired[a]
  <1> DEFINE S == {k \in Nat : Unpaired[a + k] = Unpaired[a]}
  <1>1. 0 \in S
    OBVIOUS
  <1>2. ASSUME NEW k \in 0 .. (b - a) - 1, k \in S
        PROVE  k + 1 \in S
    <2>1. a + k + 1 \in a + 1 .. b /\ a + k + 1 \in 1 .. Len(tokens) /\ (a + k + 1) - 1 = a + k
      OBVIOUS
    <2>2. Unpaired[a + k + 1] = Left(Unpaired[a + k], a + k + 1)
      BY <2>1, UnpairedDefined
    <2>3. QED
      BY <1>2, <2>1, <2>2 DEF Left
  <1>3. b - a \in S
    <2> HIDE DEF S
    <2>1. b - a \in Nat
      OBVIOUS
    <2>2. \A k \in 0 .. b - a : k \in S
      BY <1>1, <1>2, <2>1, Reached
    <2>3. QED
      BY <2>1, <2>2
  <1>4. QED
    BY <1>3

-----------------------------------------------------------------------------
(* The brackets that a stack is inside of.                                 *)

(* The frames of bracketed forms, and the places their brackets are at.    *)
FormsAt(stk) == {i \in 2 .. Len(stk) : stk[i].frame = "forms"}
Places(stk) == [i \in 1 .. Len(stk) |-> IF i \in FormsAt(stk) THEN stk[i].at ELSE 0]
Opens(stk) == Sublist(Places(stk), FormsAt(stk))

LEMMA PlacesType ==
    ASSUME NEW stk, Len(stk) \in Nat, \A i \in FormsAt(stk) : stk[i].at \in Nat
    PROVE  /\ Places(stk) \in Seq(Nat) /\ Len(Places(stk)) = Len(stk)
           /\ DOMAIN Places(stk) = 1 .. Len(stk)
           /\ FormsAt(stk) \in SUBSET DOMAIN Places(stk)
  BY DEF Places, FormsAt

(* The brackets are those of the frames.                                   *)
LEMMA OpensRange ==
    ASSUME NEW stk, Len(stk) \in Nat, \A i \in FormsAt(stk) : stk[i].at \in Nat
    PROVE  /\ Opens(stk) \in Seq(Nat)
           /\ \A k \in 1 .. Len(Opens(stk)) : \E i \in FormsAt(stk) : Opens(stk)[k] = stk[i].at
           /\ FormsAt(stk) = {} => Opens(stk) = <<>>
  <1> DEFINE K == FormsAt(stk)
             s == Places(stk)
  <1>1. s \in Seq(Nat) /\ K \in SUBSET DOMAIN s /\ \A i \in K : s[i] = stk[i].at
    BY PlacesType DEF Places, FormsAt
  <1> HIDE DEF K, s
  <1>2. Sublist(s, K) \in Seq(Nat) /\ Len(Sublist(s, K)) = Cardinality(K)
    BY <1>1, SublistType
  <1>3. \A k \in DOMAIN Sublist(s, K) : Nth(K, k) \in K /\ Sublist(s, K)[k] = s[Nth(K, k)]
    BY <1>1, SublistAt
  <1>4. DOMAIN Sublist(s, K) = 1 .. Len(Sublist(s, K))
    BY <1>2, LenProperties
  <1>5. K = {} => Cardinality(K) = 0
    BY FS_EmptySet
  <1>6. K = {} => Sublist(s, K) = <<>>
    BY <1>2, <1>5, EmptySeq
  <1>7. QED
    BY <1>1, <1>2, <1>3, <1>4, <1>6 DEF Opens, K, s

(* Stacks with the same frames of bracketed forms are inside the same      *)
(* brackets.                                                               *)
LEMMA OpensSame ==
    ASSUME NEW s, NEW t, Len(s) \in Nat, Len(t) \in Nat, FormsAt(s) = FormsAt(t),
           \A i \in FormsAt(s) : s[i].at = t[i].at
    PROVE  Opens(s) = Opens(t)
  <1> DEFINE K == FormsAt(s)
             n == Len(s)
  <1>1. n \in Nat /\ K \in SUBSET (1 .. n)
    BY DEF FormsAt
  <1>2. \A i \in K : Places(s)[i] = Places(t)[i]
    BY DEF Places, FormsAt
  <1>3. \A k \in 1 .. Cardinality(K) : Nth(K, k) \in K
    <2> HIDE DEF K, n
    <2> QED
      BY <1>1, NthHasRank
  <1>4. Sublist(Places(s), K) = Sublist(Places(t), K)
    <2> HIDE DEF K
    <2> QED
      BY <1>2, <1>3 DEF Sublist
  <1>5. QED
    BY <1>4 DEF Opens

(* A frame of a bracketed form on top adds its bracket at the end.         *)
LEMMA OpensPush ==
    ASSUME NEW s, NEW t, Len(s) \in Nat \ {0}, Len(t) = Len(s) + 1,
           t[Len(t)].frame = "forms", t[Len(t)].at \in Nat,
           FormsAt(t) = FormsAt(s) \cup {Len(t)},
           \A i \in FormsAt(s) : s[i].at \in Nat /\ s[i].at = t[i].at
    PROVE  Opens(t) = Append(Opens(s), t[Len(t)].at)
  <1> DEFINE n == Len(s)
             e == t[n + 1].at
  <1>1. /\ Places(s) \in Seq(Nat) /\ FormsAt(s) \in SUBSET DOMAIN Places(s)
        /\ Len(Places(s)) = n /\ DOMAIN Places(s) = 1 .. n
    BY PlacesType
  <1>2. \A i \in FormsAt(t) : t[i].at \in Nat
    OBVIOUS
  <1>3. Places(t) \in Seq(Nat) /\ Len(Places(t)) = n + 1
    BY <1>2, PlacesType
  <1>4. Places(t) = Append(Places(s), e)
    <2>1. /\ Append(Places(s), e) \in Seq(Nat) /\ Len(Append(Places(s), e)) = n + 1
          /\ \A i \in 1 .. n : Append(Places(s), e)[i] = Places(s)[i]
          /\ Append(Places(s), e)[n + 1] = e
      BY <1>1, AppendProperties
    <2>2. \A i \in 1 .. n : Places(t)[i] = Places(s)[i]
      <3>1. TAKE i \in 1 .. n
      <3>2. i \in FormsAt(t) <=> i \in FormsAt(s)
        OBVIOUS
      <3>3. QED
        BY <3>2 DEF Places
    <2>3. Places(t)[n + 1] = e
      BY DEF Places
    <2> DEFINE u == Places(t)
               w == Append(Places(s), e)
    <2>4. \A i \in 1 .. n + 1 : u[i] = w[i]
      BY <2>1, <2>2, <2>3
    <2>5. u \in Seq(Nat) /\ w \in Seq(Nat) /\ Len(u) = n + 1 /\ Len(w) = n + 1
      BY <1>3, <2>1
    <2> HIDE DEF u, w
    <2>6. u = w
      BY <2>4, <2>5, SeqEqual
    <2>7. QED
      BY <2>6 DEF u, w
  <1>5. e \in Nat
    OBVIOUS
  <1>6. Sublist(Append(Places(s), e), FormsAt(s) \cup {n + 1}) = Append(Sublist(Places(s), FormsAt(s)), e)
    <2> DEFINE q == Places(s)
               K == FormsAt(s)
    <2>1. q \in Seq(Nat) /\ K \in SUBSET DOMAIN q /\ Len(q) = n
      BY <1>1
    <2> HIDE DEF e, q, K
    <2>2. Sublist(Append(q, e), K \cup {Len(q) + 1}) = Append(Sublist(q, K), e)
      BY <1>5, <2>1, SublistKeep, ZenonT(30)
    <2>3. Sublist(Append(q, e), K \cup {n + 1}) = Append(Sublist(q, K), e)
      BY <2>1, <2>2
    <2>4. QED
      BY <2>3 DEF q, K
  <1>7. QED
    BY <1>4, <1>6 DEF Opens

-----------------------------------------------------------------------------
(* Tokens.                                                                 *)

TokensTyped == tokens \in Seq(Token)

LEMMA TokenKinds ==
    ASSUME TokensTyped
    PROVE  /\ Len(tokens) \in Nat /\ DOMAIN tokens = 1 .. Len(tokens)
           /\ \A i \in 1 .. Len(tokens) :
                 /\ tokens[i].kind \in {"comment", "atom", "open", "close", "prefix"}
                 /\ tokens[i].kind = "open" => \E o \in DOMAIN Closer : tokens[i].v = <<o>>
                 /\ tokens[i].kind = "close" => \E c \in Closers : tokens[i].v = <<c>>
  <1>1. Len(tokens) \in Nat /\ DOMAIN tokens = 1 .. Len(tokens)
        /\ \A i \in 1 .. Len(tokens) : tokens[i] \in Token
    BY LenProperties, ElementOfSeq DEF TokensTyped
  <1>2. ASSUME NEW t \in Token
        PROVE  /\ t.kind \in {"comment", "atom", "open", "close", "prefix"}
               /\ t.kind = "open" => \E o \in DOMAIN Closer : t.v = <<o>>
               /\ t.kind = "close" => \E c \in Closers : t.v = <<c>>
    BY DEF Token
  <1>3. QED
    BY <1>1, <1>2

(* No bracket opens the sequence of read_all.                              *)
LEMMA TopIsNoBracket == "top" \notin DOMAIN Closer
  BY DEF Closer

(* The places of comments, of `#_' and of `?' are places of tokens.        *)
LEMMA PlacesOfTokens ==
    ASSUME TokensTyped
    PROVE  /\ CommentsAt \in SUBSET (1 .. Len(tokens))
           /\ MarksAt \in SUBSET (1 .. Len(tokens))
           /\ QuestionsAt \in SUBSET (1 .. Len(tokens))
  BY TokenKinds DEF CommentsAt, MarksAt, QuestionsAt

LEMMA PeekedToken ==
    ASSUME TokensTyped, NEW p \in 1 .. Len(tokens) + 1
    PROVE  /\ PeekNoComment(p) \in p .. Len(tokens) + 1
           /\ PeekNoComment(p) <= Len(tokens) => tokens[PeekNoComment(p)].kind # "comment"
           /\ \A h \in p .. PeekNoComment(p) - 1 : h \in 1 .. Len(tokens) /\ tokens[h].kind = "comment"
  <1> DEFINE q == After(tokens, p, CommentsAt)
  <1>1. q \in p .. Len(tokens) + 1 /\ q \notin CommentsAt /\ p .. q - 1 \subseteq CommentsAt
    BY TokenKinds, PlacesOfTokens, AfterRun
  <1>2. Len(tokens) \in Nat /\ DOMAIN tokens = 1 .. Len(tokens)
    BY TokenKinds
  <1>3. \A h \in CommentsAt : h \in 1 .. Len(tokens) /\ tokens[h].kind = "comment"
    BY <1>2 DEF CommentsAt
  <1>4. q <= Len(tokens) => tokens[q].kind # "comment"
    <2>1. q <= Len(tokens) => q \in DOMAIN tokens
      <3> HIDE DEF q
      <3> QED
        BY <1>1, <1>2
    <2>2. QED
      BY <1>1, <2>1 DEF CommentsAt
  <1>5. QED
    BY <1>1, <1>3, <1>4 DEF PeekNoComment

-----------------------------------------------------------------------------
(* Frames.                                                                 *)

(* The stack is a sequence of frames that nest as the calls do, and every  *)
(* frame was entered with tokens before p that come after the bracket it   *)
(* is inside of.                                                           *)
FrameTyped(frame, p) ==
    /\ frame.frame = "forms" =>
           {"frame", "open", "at"} \subseteq DOMAIN frame /\ frame.at \in 0 .. p - 1
    /\ frame.frame = "discards" =>
           frame.marks # {} /\ frame.marks \subseteq MarksAt \cap 1 .. p - 1
    /\ frame.frame = "prefix" =>
           frame.at \in 1 .. p - 1 /\ tokens[frame.at].kind = "prefix"
    /\ frame.frame \in {"forms", "form", "discards", "prefix"}

(* What a frame waits for comes after place j.                             *)
Behind(frame, j) ==
    /\ frame.frame = "discards" => \A m \in frame.marks : j < m
    /\ frame.frame = "prefix" => j < frame.at

Nested(stk, p) ==
    /\ \E S : stk \in Seq(S)
    /\ stk # <<>>
    /\ stk[1].frame = "forms" /\ stk[1].open = "top"
    /\ \A i \in 1 .. Len(stk) : FrameTyped(stk[i], p)
    /\ \A i \in 2 .. Len(stk) :
           /\ stk[i].frame \in {"form", "discards"} <=> stk[i - 1].frame = "forms"
           /\ stk[i].frame = "forms" =>
                  /\ stk[i].at \in 1 .. p - 1
                  /\ tokens[stk[i].at].kind = "open" /\ tokens[stk[i].at].v = <<stk[i].open>>
           /\ \A j \in FormsAt(stk) : j < i => Behind(stk[i], stk[j].at)

LEMMA NestedLen ==
    ASSUME NEW stk, NEW p, Nested(stk, p)
    PROVE  /\ Len(stk) \in Nat \ {0} /\ DOMAIN stk = 1 .. Len(stk)
           /\ Last(stk) = stk[Len(stk)]
  BY EmptySeq, LenProperties DEF Nested, Last

(* Time passes.                                                            *)
LEMMA NestedLater ==
    ASSUME NEW stk, NEW p \in Nat, NEW q \in Nat, p <= q, Nested(stk, p)
    PROVE  Nested(stk, q)
  <1>1. \A i \in 1 .. Len(stk) : FrameTyped(stk[i], q)
    BY DEF Nested, FrameTyped
  <1>2. QED
    BY <1>1 DEF Nested

(* A frame whose items or marks changed, but not what it waits for.        *)
Alike(f, g) ==
    \/ g = f
    \/ /\ f.frame = "forms" /\ g.frame = "forms"
       /\ DOMAIN g = DOMAIN f /\ g.open = f.open /\ g.at = f.at
    \/ /\ f.frame = "discards" /\ g.frame = "discards"
       /\ g.marks # {} /\ g.marks \subseteq f.marks

LEMMA AlikeFrames ==
    ASSUME NEW f, NEW g, NEW p, Alike(f, g), FrameTyped(f, p)
    PROVE  /\ FrameTyped(g, p)
           /\ g.frame = f.frame
           /\ f.frame = "forms" => g.open = f.open /\ g.at = f.at
           /\ \A j : Behind(f, j) => Behind(g, j)
  BY DEF Alike, FrameTyped, Behind

(* The lower frames of a stack nest as well; and if no bracketed form is   *)
(* above them, then they are inside the same brackets.                     *)
LEMMA NestedLower ==
    ASSUME NEW stk, NEW p, Nested(stk, p), NEW t, \E S : t \in Seq(S),
           Len(t) \in 1 .. Len(stk), \A i \in 1 .. Len(t) : Alike(stk[i], t[i])
    PROVE  /\ Nested(t, p)
           /\ FormsAt(t) = {i \in FormsAt(stk) : i <= Len(t)}
           /\ (\A i \in Len(t) + 1 .. Len(stk) : stk[i].frame # "forms") => Opens(t) = Opens(stk)
  <1>1. /\ Len(stk) \in Nat \ {0}
        /\ \A i \in 1 .. Len(stk) : FrameTyped(stk[i], p)
    BY NestedLen DEF Nested
  <1>2. \A i \in 1 .. Len(t) :
           /\ FrameTyped(t[i], p) /\ t[i].frame = stk[i].frame
           /\ stk[i].frame = "forms" => t[i].open = stk[i].open /\ t[i].at = stk[i].at
           /\ \A j : Behind(stk[i], j) => Behind(t[i], j)
    <2>1. TAKE i \in 1 .. Len(t)
    <2>2. FrameTyped(stk[i], p) /\ Alike(stk[i], t[i])
      BY <1>1
    <2>3. QED
      BY <2>2, AlikeFrames
  <1>3. FormsAt(t) = {i \in FormsAt(stk) : i <= Len(t)}
    BY <1>1, <1>2 DEF FormsAt
  <1>4. Nested(t, p)
    <2>1. t # <<>> /\ t[1].frame = "forms" /\ t[1].open = "top"
      <3>1. Len(t) # 0 /\ 1 \in 1 .. Len(t)
        BY <1>1
      <3>2. t # <<>>
        BY <3>1, EmptySeq
      <3>3. QED
        BY <1>2, <3>1, <3>2 DEF Nested
    <2>2. ASSUME NEW i \in 2 .. Len(t)
          PROVE  /\ t[i].frame \in {"form", "discards"} <=> t[i - 1].frame = "forms"
                 /\ t[i].frame = "forms" =>
                        /\ t[i].at \in 1 .. p - 1
                        /\ tokens[t[i].at].kind = "open" /\ tokens[t[i].at].v = <<t[i].open>>
                 /\ \A j \in FormsAt(t) : j < i => Behind(t[i], t[j].at)
      <3>1. i \in 2 .. Len(stk) /\ i \in 1 .. Len(t) /\ i - 1 \in 1 .. Len(t)
        BY <1>1
      <3>2. /\ stk[i].frame \in {"form", "discards"} <=> stk[i - 1].frame = "forms"
            /\ stk[i].frame = "forms" =>
                  /\ stk[i].at \in 1 .. p - 1
                  /\ tokens[stk[i].at].kind = "open" /\ tokens[stk[i].at].v = <<stk[i].open>>
            /\ \A j \in FormsAt(stk) : j < i => Behind(stk[i], stk[j].at)
        BY <3>1 DEF Nested
      <3>3. t[i].frame = stk[i].frame /\ t[i - 1].frame = stk[i - 1].frame
        BY <1>2, <3>1
      <3>4. stk[i].frame = "forms" => t[i].open = stk[i].open /\ t[i].at = stk[i].at
        BY <1>2, <3>1
      <3>5. ASSUME NEW j \in FormsAt(t), j < i
            PROVE  Behind(t[i], t[j].at)
        <4>1. j \in FormsAt(stk) /\ j \in 1 .. Len(t) /\ stk[j].frame = "forms"
          BY <1>3 DEF FormsAt
        <4>2. t[j].at = stk[j].at
          BY <1>2, <4>1
        <4>3. Behind(stk[i], stk[j].at)
          BY <3>2, <3>5, <4>1
        <4>4. QED
          BY <1>2, <3>1, <4>2, <4>3
      <3>6. QED
        BY <3>2, <3>3, <3>4, <3>5
    <2>3. QED
      BY <1>2, <2>1, <2>2 DEF Nested
  <1>5. ASSUME \A i \in Len(t) + 1 .. Len(stk) : stk[i].frame # "forms"
        PROVE  Opens(t) = Opens(stk)
    <2>1. FormsAt(t) = FormsAt(stk)
      BY <1>1, <1>3, <1>5 DEF FormsAt
    <2>2. \A i \in FormsAt(t) : t[i].at = stk[i].at
      BY <1>2 DEF FormsAt
    <2>3. QED
      BY <1>1, <2>1, <2>2, OpensSame
  <1>6. QED
    BY <1>3, <1>4, <1>5

(* A frame that is put on top of a stack.                                  *)
LEMMA NestedPush ==
    ASSUME NEW stk, NEW p \in Nat, Nested(stk, p), NEW e, NEW q \in Nat, p <= q,
           FrameTyped(e, q),
           e.frame \in {"form", "discards"} <=> stk[Len(stk)].frame = "forms",
           e.frame = "forms" =>
               e.at \in 1 .. q - 1 /\ tokens[e.at].kind = "open" /\ tokens[e.at].v = <<e.open>>,
           \A j \in FormsAt(stk) : Behind(e, stk[j].at)
    PROVE  /\ Nested(Append(stk, e), q)
           /\ Len(Append(stk, e)) = Len(stk) + 1 /\ Append(stk, e)[Len(stk) + 1] = e
           /\ Opens(Append(stk, e)) =
                 IF e.frame = "forms" THEN Append(Opens(stk), e.at) ELSE Opens(stk)
  <1> DEFINE t == Append(stk, e)
             n == Len(stk)
  <1>1. Nested(stk, q) /\ n \in Nat \ {0}
    BY NestedLater, NestedLen
  <1>2. PICK S : stk \in Seq(S)
    BY DEF Nested
  <1>3. stk \in Seq(S \cup {e})
    BY <1>2, SeqMonotonic
  <1>4. /\ t \in Seq(S \cup {e}) /\ t # <<>> /\ Len(t) = n + 1
        /\ \A i \in 1 .. n : t[i] = stk[i]
        /\ t[n + 1] = e
    BY <1>3, AppendProperties
  <1> HIDE DEF t
  <1>5. FormsAt(t) = IF e.frame = "forms" THEN FormsAt(stk) \cup {n + 1} ELSE FormsAt(stk)
    <2>1. ASSUME NEW i
          PROVE  i \in FormsAt(t) <=> (i \in FormsAt(stk) \/ (i = n + 1 /\ e.frame = "forms"))
      BY <1>1, <1>4 DEF FormsAt
    <2>2. QED
      BY <2>1
  <1>6. \A i \in FormsAt(stk) : i \in 2 .. n /\ t[i] = stk[i] /\ stk[i].at \in Nat
    <2>1. TAKE i \in FormsAt(stk)
    <2>2. i \in 2 .. n /\ i \in 1 .. n /\ stk[i].frame = "forms"
      BY <1>1 DEF FormsAt
    <2>3. FrameTyped(stk[i], q)
      BY <1>1, <2>2 DEF Nested
    <2>4. QED
      BY <1>4, <2>2, <2>3 DEF FrameTyped
  <1>7. Nested(t, q)
    <2>1. t[1].frame = "forms" /\ t[1].open = "top"
      BY <1>1, <1>4 DEF Nested
    <2>2. \A i \in 1 .. Len(t) : FrameTyped(t[i], q)
      <3>1. TAKE i \in 1 .. Len(t)
      <3>2. i \in 1 .. n \/ i = n + 1
        BY <1>1, <1>4
      <3>3. i \in 1 .. n => FrameTyped(stk[i], q)
        BY <1>1 DEF Nested
      <3>4. QED
        BY <1>4, <3>2, <3>3
    <2>3. ASSUME NEW i \in 2 .. Len(t)
          PROVE  /\ t[i].frame \in {"form", "discards"} <=> t[i - 1].frame = "forms"
                 /\ t[i].frame = "forms" =>
                        /\ t[i].at \in 1 .. q - 1
                        /\ tokens[t[i].at].kind = "open" /\ tokens[t[i].at].v = <<t[i].open>>
                 /\ \A j \in FormsAt(t) : j < i => Behind(t[i], t[j].at)
      <3>1. CASE i = n + 1
        <4>1. t[i] = e /\ t[i - 1] = stk[n]
          BY <1>1, <1>4, <3>1
        <4>2. ASSUME NEW j \in FormsAt(t), j < i
              PROVE  Behind(e, t[j].at)
          <5>1. j \in FormsAt(stk)
            BY <1>5, <3>1, <4>2
          <5>2. QED
            BY <1>6, <5>1
        <4>3. QED
          BY <4>1, <4>2
      <3>2. CASE i # n + 1
        <4>1. i \in 2 .. n /\ i \in 1 .. n /\ i - 1 \in 1 .. n
          BY <1>1, <1>4, <3>2
        <4>2. t[i] = stk[i] /\ t[i - 1] = stk[i - 1]
          BY <1>4, <4>1
        <4>3. /\ stk[i].frame \in {"form", "discards"} <=> stk[i - 1].frame = "forms"
              /\ stk[i].frame = "forms" =>
                    /\ stk[i].at \in 1 .. q - 1
                    /\ tokens[stk[i].at].kind = "open" /\ tokens[stk[i].at].v = <<stk[i].open>>
              /\ \A j \in FormsAt(stk) : j < i => Behind(stk[i], stk[j].at)
          BY <1>1, <4>1 DEF Nested
        <4>4. ASSUME NEW j \in FormsAt(t), j < i
              PROVE  Behind(stk[i], t[j].at)
          <5>1. j \in FormsAt(stk)
            BY <1>1, <1>5, <4>1, <4>4
          <5>2. QED
            BY <1>6, <4>3, <4>4, <5>1
        <4>5. QED
          BY <4>2, <4>3, <4>4
      <3>3. QED
        BY <3>1, <3>2
    <2>4. QED
      BY <1>4, <2>1, <2>2, <2>3 DEF Nested
  <1>8. Opens(t) = IF e.frame = "forms" THEN Append(Opens(stk), e.at) ELSE Opens(stk)
    <2>1. CASE e.frame = "forms"
      <3>1. /\ t[Len(t)].frame = "forms" /\ t[Len(t)].at \in Nat
            /\ FormsAt(t) = FormsAt(stk) \cup {Len(t)}
        BY <1>4, <1>5, <2>1 DEF FrameTyped
      <3>2. Opens(t) = Append(Opens(stk), t[Len(t)].at)
        BY <1>1, <1>4, <1>6, <3>1, OpensPush
      <3>3. QED
        BY <1>4, <2>1, <3>2
    <2>2. CASE e.frame # "forms"
      BY <1>1, <1>4, <1>5, <1>6, <2>2, OpensSame
    <2>3. QED
      BY <2>1, <2>2
  <1>9. QED
    BY <1>4, <1>7, <1>8 DEF t

-----------------------------------------------------------------------------
(* A node that is complete.                                                *)

(* The tokens after it that belong to it are no brackets.                  *)
LEMMA QuestionsRun ==
    ASSUME TokensTyped, NEW node, NEW p \in 1 .. Len(tokens) + 1
    PROVE  /\ apply_postfix_question(node, p).pos \in p .. Len(tokens) + 1
           /\ \A h \in p .. apply_postfix_question(node, p).pos - 1 : tokens[h].kind = "atom"
  <1> DEFINE q == After(tokens, p, QuestionsAt)
  <1>1. q \in p .. Len(tokens) + 1 /\ p .. q - 1 \subseteq QuestionsAt
    BY TokenKinds, PlacesOfTokens, AfterRun
  <1>2. apply_postfix_question(node, p).pos = q
    BY DEF apply_postfix_question
  <1>3. \A h \in QuestionsAt : tokens[h].kind = "atom"
    BY DEF QuestionsAt
  <1>4. QED
    BY <1>1, <1>2, <1>3

LEMMA TrailingRun ==
    ASSUME TokensTyped, NEW p \in 1 .. Len(tokens) + 1
    PROVE  /\ try_trailing(p).pos \in p .. Len(tokens) + 1
           /\ \A h \in p .. try_trailing(p).pos - 1 : tokens[h].kind = "comment"
  <1>1. Len(tokens) \in Nat
    BY TokenKinds
  <1>2. CASE p <= Len(tokens) /\ tokens[p].kind = "comment" /\ try_trailing(p).pos = p + 1
    BY <1>1, <1>2
  <1>3. CASE try_trailing(p).pos = p
    BY <1>1, <1>3
  <1>4. QED
    BY <1>2, <1>3 DEF try_trailing

(* The frame that a node is complete for.                                  *)
LEMMA WaitingFrame ==
    ASSUME NEW stk, NEW p, Nested(stk, p), stk[Len(stk)].frame # "forms"
    PROVE  LET b == SelectLastInSeq(stk, LAMBDA frame : frame.frame # "prefix")
           IN  /\ b \in 2 .. Len(stk)
               /\ stk[b].frame \in {"form", "discards"} /\ stk[b - 1].frame = "forms"
               /\ \A i \in b .. Len(stk) : stk[i].frame # "forms"
  <1> DEFINE n == Len(stk)
             I == {i \in 1 .. n : stk[i].frame # "prefix"}
             D == {n - i : i \in I}
             b == Max(I)
  <1>1. n \in Nat \ {0}
    BY NestedLen
  <1>2. 1 \in I
    BY <1>1 DEF Nested
  <1>3. \E x \in I : \A y \in I : x >= y
    <2>1. D \in SUBSET Nat /\ D # {}
      BY <1>1, <1>2
    <2>2. PICK d \in D : \A y \in D : d <= y
      <3> HIDE DEF D
      <3> QED
        BY <2>1, LeastNumber
    <2>3. PICK x \in I : d = n - x
      BY <2>2
    <2>4. ASSUME NEW y \in I
          PROVE  x >= y
      <3>1. d <= n - y
        BY <2>2
      <3>2. QED
        BY <1>1, <2>3, <3>1
    <2>5. QED
      BY <2>4
  <1>4. b \in I /\ \A y \in I : b >= y
    BY <1>3 DEF Max
  <1>5. SelectLastInSeq(stk, LAMBDA frame : frame.frame # "prefix") = b
    BY <1>2 DEF SelectLastInSeq
  <1> HIDE DEF b
  <1>6. b \in 1 .. n /\ stk[b].frame # "prefix" /\ \A i \in b + 1 .. n : stk[i].frame = "prefix"
    BY <1>1, <1>4
  <1>7. stk[b].frame # "forms"
    <2>1. CASE b = n
      BY <2>1
    <2>2. CASE b # n
      <3>1. b + 1 \in 2 .. n /\ (b + 1) - 1 = b /\ stk[b + 1].frame = "prefix"
        BY <1>1, <1>6, <2>2
      <3>2. QED
        BY <3>1 DEF Nested
    <2>3. QED
      BY <2>1, <2>2
  <1>8. stk[b].frame \in {"form", "discards"}
    BY <1>6, <1>7 DEF Nested, FrameTyped
  <1>9. b \in 2 .. n
    BY <1>1, <1>6, <1>7 DEF Nested
  <1>10. stk[b - 1].frame = "forms"
    BY <1>8, <1>9 DEF Nested
  <1>11. QED
    BY <1>1, <1>5, <1>6, <1>7, <1>8, <1>9, <1>10

(* An item is added to the frame on top.                                   *)
LEMMA ItemPushed ==
    ASSUME NEW stk, NEW p, Nested(stk, p), NEW m \in 1 .. Len(stk), stk[m].frame = "forms", NEW item
    PROVE  LET t == Push(SubSeq(stk, 1, m), item)
           IN  /\ \E S : t \in Seq(S)
               /\ Len(t) = m
               /\ \A i \in 1 .. m - 1 : t[i] = stk[i]
               /\ Alike(stk[m], t[m])
  <1> DEFINE below == SubSeq(stk, 1, m)
             top == [stk[m] EXCEPT !.items = Append(@, item)]
             t == Append(Front(below), top)
  <1>1. PICK S : stk \in Seq(S)
    BY DEF Nested
  <1>2. Len(stk) \in Nat \ {0} /\ \A i \in 1 .. Len(stk) : stk[i] \in S
    BY <1>1, NestedLen, ElementOfSeq
  <1>3. below \in Seq(S) /\ Len(below) = m /\ \A i \in 1 .. m : below[i] = stk[i]
    <2>1. 1 \in Int /\ m \in Int /\ 1 <= m /\ m - 1 + 1 = m /\ \A i \in 1 .. m : stk[i] \in S
      BY <1>2
    <2>2. /\ below \in Seq(S) /\ Len(below) = m - 1 + 1
          /\ \A i \in 1 .. m - 1 + 1 : below[i] = stk[1 + i - 1]
      BY <2>1, SubSeqProperties
    <2> HIDE DEF below
    <2>3. ASSUME NEW i \in 1 .. m
          PROVE  below[i] = stk[i]
      <3>1. 1 + i - 1 = i
        OBVIOUS
      <3>2. QED
        BY <2>1, <2>2, <3>1
    <2>4. QED
      BY <2>1, <2>2, <2>3
  <1> HIDE DEF below
  <1>4. below # <<>>
    BY <1>3, EmptySeq
  <1>5. /\ Front(below) \in Seq(S \cup {top}) /\ Len(Front(below)) = m - 1
        /\ \A i \in 1 .. m - 1 : Front(below)[i] = stk[i]
        /\ Last(below) = stk[m]
    <2>1. /\ Front(below) \in Seq(S) /\ Len(Front(below)) = m - 1
          /\ \A i \in 1 .. m - 1 : Front(below)[i] = below[i]
          /\ Last(below) = below[m]
      BY <1>3, <1>4, FrontAndLast
    <2>2. Front(below) \in Seq(S \cup {top})
      <3> HIDE DEF top
      <3> QED
        BY <2>1, SeqMonotonic
    <2>3. QED
      BY <1>3, <2>1, <2>2
  <1>6. Push(below, item) = t
    BY <1>5 DEF Push
  <1>7. Alike(stk[m], top)
    <2>1. FrameTyped(stk[m], p)
      BY DEF Nested
    <2>2. {"frame", "open", "at"} \subseteq DOMAIN stk[m]
      BY <2>1 DEF FrameTyped
    <2>3. /\ DOMAIN top = DOMAIN stk[m]
          /\ top.frame = stk[m].frame /\ top.open = stk[m].open /\ top.at = stk[m].at
      BY <2>2
    <2> HIDE DEF top
    <2>4. QED
      BY <2>3 DEF Alike
  <1>8. t \in Seq(S \cup {top}) /\ Len(t) = m /\ t[m] = top
        /\ \A i \in 1 .. m - 1 : t[i] = stk[i]
    <2>1. /\ t \in Seq(S \cup {top}) /\ Len(t) = (m - 1) + 1
          /\ \A i \in 1 .. m - 1 : t[i] = Front(below)[i]
          /\ t[(m - 1) + 1] = top
      <3> HIDE DEF top
      <3> QED
        BY <1>5, AppendProperties
    <2> HIDE DEF t
    <2>2. QED
      BY <1>5, <2>1
  <1> HIDE DEF t
  <1>9. QED
    BY <1>6, <1>7, <1>8 DEF below

(* Where a node that is complete leaves the reader.                        *)
LEMMA ReturnShape ==
    ASSUME TokensTyped, NEW stk, NEW p \in 1 .. Len(tokens) + 1, Nested(stk, p),
           stk[Len(stk)].frame # "forms", NEW node
    PROVE  LET r == Return(node, stk, p)
           IN  /\ r.pos \in p .. Len(tokens) + 1
               /\ \A h \in p .. r.pos - 1 : tokens[h].kind \in {"atom", "comment"}
               /\ \E S : r.stack \in Seq(S)
               /\ Len(r.stack) \in 1 .. Len(stk)
               /\ \A i \in 1 .. Len(r.stack) : Alike(stk[i], r.stack[i])
               /\ \A i \in Len(r.stack) + 1 .. Len(stk) : stk[i].frame # "forms"
               /\ r.stack[Len(r.stack)].frame \in {"forms", "discards"}
  <1> DEFINE b == SelectLastInSeq(stk, LAMBDA frame : frame.frame # "prefix")
             r == Return(node, stk, p)
             left == stk[b].marks \ {First(stk[b].marks)}
             below == SubSeq(stk, 1, b - 1)
  <1>1. \E x, item :
           /\ r.pos = try_trailing(apply_postfix_question(x, p).pos).pos
           /\ \/ stk[b].frame = "form" /\ r.stack = Push(below, item)
              \/ stk[b].frame # "form" /\ left = {} /\ r.stack = Push(below, item)
              \/ stk[b].frame # "form" /\ left # {}
                 /\ r.stack = Append(Push(below, item), Discards(left, <<>>))
    BY DEF Return
  <1>2. /\ b \in 2 .. Len(stk)
        /\ stk[b].frame \in {"form", "discards"} /\ stk[b - 1].frame = "forms"
        /\ \A i \in b .. Len(stk) : stk[i].frame # "forms"
    BY WaitingFrame
  <1> HIDE DEF b, r
  <1>3. PICK x, item :
           /\ r.pos = try_trailing(apply_postfix_question(x, p).pos).pos
           /\ \/ stk[b].frame = "form" /\ r.stack = Push(below, item)
              \/ stk[b].frame # "form" /\ left = {} /\ r.stack = Push(below, item)
              \/ stk[b].frame # "form" /\ left # {}
                 /\ r.stack = Append(Push(below, item), Discards(left, <<>>))
    BY <1>1
  <1>4. /\ r.pos \in p .. Len(tokens) + 1
        /\ \A h \in p .. r.pos - 1 : tokens[h].kind \in {"atom", "comment"}
    <2> DEFINE q == apply_postfix_question(x, p).pos
    <2>1. /\ q \in p .. Len(tokens) + 1
          /\ \A h \in p .. q - 1 : tokens[h].kind = "atom"
      BY QuestionsRun
    <2> HIDE DEF q
    <2>2. Len(tokens) \in Nat /\ q \in 1 .. Len(tokens) + 1
      BY <2>1, TokenKinds
    <2>3. /\ try_trailing(q).pos \in q .. Len(tokens) + 1
          /\ \A h \in q .. try_trailing(q).pos - 1 : tokens[h].kind = "comment"
      BY <2>2, TrailingRun
    <2>4. r.pos = try_trailing(q).pos
      BY <1>3 DEF q
    <2>5. ASSUME NEW h \in p .. r.pos - 1
          PROVE  tokens[h].kind \in {"atom", "comment"}
      <3>1. h \in p .. q - 1 \/ h \in q .. try_trailing(q).pos - 1
        BY <2>1, <2>2, <2>3, <2>4
      <3>2. QED
        BY <2>1, <2>3, <3>1
    <2>6. QED
      BY <2>1, <2>2, <2>3, <2>4, <2>5
  <1> DEFINE t == Push(below, item)
  <1>5. Len(stk) \in Nat \ {0} /\ b - 1 \in 1 .. Len(stk)
    BY <1>2, NestedLen
  <1>6. /\ \E S : t \in Seq(S)
        /\ Len(t) = b - 1
        /\ \A i \in 1 .. b - 2 : t[i] = stk[i]
        /\ Alike(stk[b - 1], t[b - 1])
    <2> DEFINE m == b - 1
    <2>1. m \in 1 .. Len(stk) /\ stk[m].frame = "forms" /\ m - 1 = b - 2
      BY <1>2, <1>5
    <2>2. t = Push(SubSeq(stk, 1, m), item)
      OBVIOUS
    <2> HIDE DEF m, t
    <2>3. /\ \E S : t \in Seq(S)
          /\ Len(t) = m
          /\ \A i \in 1 .. m - 1 : t[i] = stk[i]
          /\ Alike(stk[m], t[m])
      BY <2>1, <2>2, ItemPushed
    <2>4. QED
      BY <2>1, <2>3 DEF m
  <1> HIDE DEF t
  <1>7. /\ \A i \in 1 .. b - 1 : Alike(stk[i], t[i])
        /\ t[b - 1].frame = "forms"
    BY <1>2, <1>5, <1>6 DEF Alike
  <1>8. CASE r.stack = t
    <2>1. \A i \in Len(t) + 1 .. Len(stk) : stk[i].frame # "forms"
      BY <1>2, <1>5, <1>6
    <2>2. QED
      BY <1>4, <1>5, <1>6, <1>7, <1>8, <2>1 DEF r
  <1>9. CASE stk[b].frame # "form" /\ left # {} /\ r.stack = Append(t, Discards(left, <<>>))
    <2> DEFINE e == Discards(left, <<>>)
    <2>1. stk[b].frame = "discards" /\ e.frame = "discards" /\ e.marks = left
      BY <1>2, <1>9 DEF Discards
    <2> HIDE DEF e
    <2>2. PICK S : t \in Seq(S)
      BY <1>6
    <2>3. t \in Seq(S \cup {e})
      BY <2>2, SeqMonotonic
    <2>4. /\ Append(t, e) \in Seq(S \cup {e}) /\ Len(Append(t, e)) = (b - 1) + 1
          /\ \A i \in 1 .. b - 1 : Append(t, e)[i] = t[i]
          /\ Append(t, e)[(b - 1) + 1] = e
      BY <1>6, <2>3, AppendProperties
    <2>5. r.stack = Append(t, e)
      BY <1>9 DEF e
    <2> DEFINE u == r.stack
    <2>6. u \in Seq(S \cup {e}) /\ Len(u) = b /\ u[b] = e /\ \A i \in 1 .. b - 1 : u[i] = t[i]
      BY <1>2, <2>4, <2>5
    <2> HIDE DEF u
    <2>7. Alike(stk[b], e)
      BY <1>9, <2>1 DEF Alike
    <2>8. \A i \in 1 .. b : Alike(stk[i], u[i])
      <3>1. TAKE i \in 1 .. b
      <3>2. i \in 1 .. b - 1 \/ i = b
        BY <1>2
      <3>3. QED
        BY <1>7, <2>6, <2>7, <3>2
    <2>9. /\ \E T : u \in Seq(T)
          /\ Len(u) \in 1 .. Len(stk)
          /\ \A i \in 1 .. Len(u) : Alike(stk[i], u[i])
          /\ \A i \in Len(u) + 1 .. Len(stk) : stk[i].frame # "forms"
          /\ u[Len(u)].frame = "discards"
      BY <1>2, <1>5, <2>1, <2>6, <2>8
    <2>10. QED
      BY <1>4, <2>9 DEF r, u
  <1>10. QED
    BY <1>3, <1>8, <1>9 DEF t

-----------------------------------------------------------------------------
(* The invariant.                                                          *)

(* The calls are inside of the brackets that have no partner yet, and a    *)
(* form that is called for is there.                                       *)
Standing(stk, p) ==
    /\ Nested(stk, p)
    /\ Opens(stk) = Unpaired[p - 1]
    /\ stk[Len(stk)].frame = "form" =>
           p <= Len(tokens) /\ tokens[p].kind \notin {"comment", "close"}

ErrorTyped(e) ==
    e.what \in {"none", "unclosed", "unmatched", "odd map"} /\ e.at \in 0 .. Len(tokens)

IInv ==
    /\ TokensTyped
    /\ pos \in 1 .. Len(tokens) + 1
    /\ ErrorTyped(error)
    /\ Reading => error = None /\ Standing(stack, pos)
    /\ BracketsAreMatched

(* The brackets that the calls are inside of are open ones.                *)
LEMMA OpensAreOpen ==
    ASSUME NEW stk, NEW p \in Nat, Nested(stk, p)
    PROVE  /\ \A i \in FormsAt(stk) : stk[i].at \in Nat
           /\ \A k \in 1 .. Len(Opens(stk)) :
                 /\ tokens[Opens(stk)[k]].kind = "open"
                 /\ \E i \in FormsAt(stk) : Opens(stk)[k] = stk[i].at
           /\ Opens(stk) \in Seq(Nat)
  <1>1. Len(stk) \in Nat \ {0}
    BY NestedLen
  <1>2. \A i \in FormsAt(stk) : stk[i].at \in Nat /\ tokens[stk[i].at].kind = "open"
    BY <1>1 DEF FormsAt, Nested
  <1>3. /\ Opens(stk) \in Seq(Nat)
        /\ \A k \in 1 .. Len(Opens(stk)) : \E i \in FormsAt(stk) : Opens(stk)[k] = stk[i].at
    BY <1>1, <1>2, OpensRange
  <1>4. QED
    BY <1>2, <1>3

LEMMA StandingNotBad ==
    ASSUME NEW stk, NEW p \in Nat, Standing(stk, p)
    PROVE  ~Bad(p - 1)
  <1>1. /\ Opens(stk) \in Seq(Nat) /\ Opens(stk) = Unpaired[p - 1]
        /\ \A k \in 1 .. Len(Opens(stk)) : tokens[Opens(stk)[k]].kind = "open"
    BY OpensAreOpen DEF Standing
  <1>2. DOMAIN Opens(stk) = 1 .. Len(Opens(stk))
    BY <1>1, LenProperties
  <1>3. QED
    BY <1>1, <1>2 DEF Bad, Range

(* A closing bracket that is left over stays.                              *)
LEMMA LeftOver ==
    ASSUME TokensTyped, NEW p \in 1 .. Len(tokens), tokens[p].kind = "close",
           Unpaired[p] = Append(Unpaired[p - 1], p)
    PROVE  Bad(p)
  <1> DEFINE r == Unpaired[p - 1]
  <1>1. Len(tokens) \in Nat /\ p - 1 \in 0 .. Len(tokens)
    BY TokenKinds
  <1>2. r \in Seq(1 .. p - 1)
    BY <1>1, UnpairedType
  <1> HIDE DEF r
  <1>3. r \in Seq(Nat) /\ Len(r) \in Nat
    BY <1>1, <1>2, SeqMonotonic, LenProperties
  <1>4. Append(r, p) \in Seq(Nat) /\ Len(Append(r, p)) = Len(r) + 1 /\ Append(r, p)[Len(r) + 1] = p
    BY <1>3, AppendProperties
  <1>5. Len(r) + 1 \in DOMAIN Append(r, p)
    BY <1>3, <1>4, LenProperties
  <1>6. QED
    BY <1>4, <1>5 DEF Bad, Range, r

(* The tokens stay the same.                                               *)
LEMMA SameTokens ==
    ASSUME tokens' = tokens
    PROVE  /\ Unpaired' = Unpaired /\ TokensTyped' = TokensTyped
           /\ \A stk, p : Nested(stk, p)' = Nested(stk, p)
  <1>1. Unpaired' = Unpaired
    BY DEF Unpaired
  <1>2. TokensTyped' = TokensTyped
    BY DEF TokensTyped
  <1>3. QED
    BY <1>1, <1>2 DEF Nested, FrameTyped, MarksAt

(* The stack after a step that leaves the tokens alone.                    *)
LEMMA StandingThen ==
    ASSUME tokens' = tokens
    PROVE  /\ Standing(stack, pos)' <=> Standing(stack', pos')
           /\ ErrorTyped(error)' <=> ErrorTyped(error')
  <1>1. Unpaired' = Unpaired
    BY SameTokens
  <1>2. Nested(stack, pos)' <=> Nested(stack', pos')
    BY DEF Nested, FrameTyped, MarksAt, Behind, FormsAt
  <1>3. Opens(stack)' = Opens(stack')
    BY DEF Opens, FormsAt, Places
  <1>4. QED
    BY <1>1, <1>2, <1>3 DEF Standing, ErrorTyped

(* A step that leaves calls standing.                                      *)
LEMMA GoesOn ==
    ASSUME IInv, Reading, UNCHANGED <<text, tokens, forms, error>>,
           pos' \in 1 .. Len(tokens) + 1, Standing(stack', pos')
    PROVE  IInv'
  <1>1. TokensTyped' /\ (pos \in 1 .. Len(tokens) + 1)' /\ ErrorTyped(error)'
    BY StandingThen, SameTokens DEF IInv
  <1>2. (Reading => error = None /\ Standing(stack, pos))'
    BY StandingThen DEF IInv, None
  <1>3. BracketsAreMatched'
    <2>1. error' = None /\ stack' # <<>>
      BY DEF IInv, Standing, Nested
    <2>2. ~Bad(pos' - 1)
      BY StandingNotBad, TokenKinds DEF IInv
    <2>3. ~(Bad(pos - 1))'
      BY <2>2, SameTokens DEF Bad
    <2>4. ~Accepted'
      BY <2>1 DEF Accepted, Reading
    <2>5. QED
      BY <2>1, <2>3, <2>4 DEF BracketsAreMatched, None
  <1>4. QED
    BY <1>1, <1>2, <1>3 DEF IInv

(* A step that fails, and blames the right place.                          *)
LEMMA FailsRightly ==
    ASSUME IInv, Reading, NEW what, NEW at \in 0 .. Len(tokens), Fail(what, at),
           what \in {"unclosed", "unmatched", "odd map"},
           what = "unclosed" /\ tokens[at].kind = "open" => at = Last(Unpaired[Len(tokens)]),
           what = "unmatched" =>
               \/ Bad(at)
               \/ LET open == Unpaired[at - 1]
                  IN \E p \in (IF open = <<>> THEN 1 ELSE Last(open)) .. at : tokens[p].kind = "prefix"
    PROVE  IInv'
  <1>1. /\ error' = [what |-> what, at |-> at] /\ stack' = <<>>
        /\ text' = text /\ tokens' = tokens /\ pos' = pos /\ forms' = forms
    BY DEF Fail
  <1>2. error'.what = what /\ error'.at = at /\ error' # None
    BY <1>1 DEF None
  <1>3. TokensTyped' /\ (pos \in 1 .. Len(tokens) + 1)' /\ ErrorTyped(error)'
    BY <1>1, <1>2, SameTokens DEF IInv, ErrorTyped
  <1>4. ~Reading' /\ ~Accepted'
    BY <1>1, <1>2 DEF Reading, Accepted
  <1>5. Unpaired' = Unpaired /\ ~Bad(pos - 1)
    BY <1>1, SameTokens DEF IInv, BracketsAreMatched
  <1>6. BracketsAreMatched'
    <2>1. ~(Bad(pos - 1))'
      BY <1>1, <1>5 DEF Bad
    <2>2. (Bad(error.at))' <=> Bad(at)
      BY <1>1, <1>2, <1>5 DEF Bad
    <2>3. QED
      BY <1>1, <1>2, <1>4, <1>5, <2>1, <2>2 DEF BracketsAreMatched
  <1>7. QED
    BY <1>3, <1>4, <1>6 DEF IInv

-----------------------------------------------------------------------------
(* The steps.                                                              *)

(* Tokens that are no brackets pass.                                       *)
LEMMA Passed ==
    ASSUME TokensTyped, NEW p \in 1 .. Len(tokens) + 1, NEW q \in p .. Len(tokens) + 1,
           \A h \in p .. q - 1 : tokens[h].kind \notin {"open", "close"}
    PROVE  Unpaired[q - 1] = Unpaired[p - 1]
  <1>1. Len(tokens) \in Nat /\ p - 1 \in 0 .. Len(tokens) /\ q - 1 \in p - 1 .. Len(tokens)
    BY TokenKinds
  <1>2. \A h \in (p - 1) + 1 .. q - 1 : tokens[h].kind \notin {"open", "close"}
    OBVIOUS
  <1>3. QED
    BY <1>1, <1>2, UnpairedSame

(* The brackets that a stack is inside of are before p.                    *)
LEMMA OpensBefore ==
    ASSUME NEW stk, NEW p \in Nat, Nested(stk, p)
    PROVE  \A j \in FormsAt(stk) : stk[j].at \in 1 .. p - 1
  BY NestedLen DEF Nested, FormsAt

(* The comments and the `#_' before the next form.                         *)
LEMMA MarksRun ==
    ASSUME TokensTyped, NEW p \in 1 .. Len(tokens) + 1
    PROVE  LET q == After(tokens, p, CommentsAt \cup MarksAt)
           IN  /\ q \in p .. Len(tokens) + 1
               /\ \A h \in p .. q - 1 : tokens[h].kind \in {"comment", "prefix"}
               /\ DiscardMarks(p) \subseteq MarksAt \cap p .. q - 1
               /\ DiscardMarks(p) = {} => q = PeekNoComment(p)
  <1> DEFINE q == After(tokens, p, CommentsAt \cup MarksAt)
             c == PeekNoComment(p)
  <1>1. Len(tokens) \in Nat
    BY TokenKinds
  <1>2. /\ q \in p .. Len(tokens) + 1 /\ q \notin CommentsAt \cup MarksAt
        /\ p .. q - 1 \subseteq CommentsAt \cup MarksAt
    <2>1. CommentsAt \cup MarksAt \in SUBSET (1 .. Len(tokens))
      BY PlacesOfTokens
    <2>2. QED
      BY <1>1, <2>1, AfterRun
  <1>3. c \in p .. Len(tokens) + 1 /\ c \notin CommentsAt /\ p .. c - 1 \subseteq CommentsAt
    BY <1>1, PlacesOfTokens, AfterRun DEF PeekNoComment
  <1>4. DiscardMarks(p) = MarksAt \cap p .. q - 1
    BY DEF DiscardMarks
  <1> HIDE DEF q, c
  <1>5. \A h \in p .. q - 1 : tokens[h].kind \in {"comment", "prefix"}
    BY <1>2 DEF CommentsAt, MarksAt
  <1>6. ASSUME DiscardMarks(p) = {}
        PROVE  q = c
    <2>1. p .. q - 1 \subseteq CommentsAt
      BY <1>2, <1>4, <1>6
    <2>2. ~(q < c)
      <3>1. q < c => q \in p .. c - 1
        BY <1>1, <1>2, <1>3
      <3>2. QED
        BY <1>2, <1>3, <3>1
    <2>3. ~(c < q)
      <3>1. c < q => c \in p .. q - 1
        BY <1>1, <1>2, <1>3
      <3>2. QED
        BY <1>3, <2>1, <3>1
    <2>4. QED
      BY <1>1, <1>2, <1>3, <2>2, <2>3
  <1>7. QED
    BY <1>2, <1>4, <1>5, <1>6 DEF q, c

LEMMA FormCalledFor ==
    ASSUME IInv, read_forms_into
    PROVE  IInv' /\ pos' >= pos /\ stack'[Len(stack')].frame # "forms"
  <1> DEFINE n == Len(stack)
             p == PeekNoComment(pos)
             q == After(tokens, pos, CommentsAt \cup MarksAt)
             marks == DiscardMarks(pos)
             e == IF marks = {} THEN OneForm(drain_comments(pos))
                  ELSE Discards(marks, drain_comments(pos))
  <1>1. /\ Reading /\ Top.frame = "forms" /\ p <= Len(tokens) /\ tokens[p].kind # "close"
        /\ stack' = Append(stack, e) /\ pos' = q /\ UNCHANGED <<text, tokens, forms, error>>
    BY DEF read_forms_into
  <1>2. /\ TokensTyped /\ pos \in 1 .. Len(tokens) + 1 /\ Len(tokens) \in Nat
        /\ Standing(stack, pos) /\ Nested(stack, pos)
    BY <1>1, TokenKinds DEF IInv, Standing
  <1>3. /\ q \in pos .. Len(tokens) + 1
        /\ \A h \in pos .. q - 1 : tokens[h].kind \in {"comment", "prefix"}
        /\ marks \subseteq MarksAt \cap pos .. q - 1
        /\ marks = {} => q = p
    BY <1>2, MarksRun
  <1>4. tokens[p].kind # "comment"
    BY <1>1, <1>2, PeekedToken
  <1>5. /\ e.frame \in {"form", "discards"}
        /\ e.frame = "form" => marks = {}
        /\ e.frame = "discards" => marks # {} /\ e.marks = marks
    BY DEF OneForm, Discards
  <1> HIDE DEF p, q, marks, e
  <1>6. pos \in Nat /\ q \in Nat /\ pos <= q /\ q - 1 \in Nat
    BY <1>2, <1>3
  <1>7. FrameTyped(e, q)
    BY <1>2, <1>3, <1>5, <1>6 DEF FrameTyped
  <1>8. \A j \in FormsAt(stack) : Behind(e, stack[j].at)
    <2>1. TAKE j \in FormsAt(stack)
    <2>2. stack[j].at \in 1 .. pos - 1
      BY <1>2, <1>6, OpensBefore
    <2>3. \A m \in marks : m \in pos .. q - 1
      BY <1>3
    <2>4. \A m \in marks : stack[j].at < m
      BY <1>6, <2>2, <2>3
    <2>5. QED
      BY <1>5, <2>4 DEF Behind
  <1>9. stack[n].frame = "forms" /\ n \in Nat
    BY <1>1, <1>2, NestedLen DEF Top
  <1>10. /\ Nested(stack', q)
         /\ Len(stack') = n + 1 /\ stack'[n + 1] = e /\ Opens(stack') = Opens(stack)
    BY <1>1, <1>2, <1>5, <1>6, <1>7, <1>8, <1>9, NestedPush
  <1>11. Unpaired[q - 1] = Unpaired[pos - 1]
    BY <1>2, <1>3, Passed
  <1>12. Standing(stack', q)
    BY <1>1, <1>2, <1>3, <1>4, <1>5, <1>10, <1>11 DEF Standing
  <1>13. pos' \in 1 .. Len(tokens) + 1
    BY <1>1, <1>2, <1>3
  <1>14. IInv'
    BY <1>1, <1>12, <1>13, GoesOn
  <1>15. QED
    BY <1>1, <1>5, <1>6, <1>10, <1>14

(* A node that is complete leaves the calls standing that are under way.   *)
LEMMA ReturnStands ==
    ASSUME TokensTyped, NEW stk, NEW p \in 1 .. Len(tokens) + 1, Nested(stk, p),
           stk[Len(stk)].frame # "forms", Opens(stk) = Unpaired[p - 1], NEW node
    PROVE  /\ Return(node, stk, p).pos \in p .. Len(tokens) + 1
           /\ Standing(Return(node, stk, p).stack, Return(node, stk, p).pos)
  <1> DEFINE t == Return(node, stk, p).stack
             q == Return(node, stk, p).pos
  <1>1. /\ q \in p .. Len(tokens) + 1
        /\ \A h \in p .. q - 1 : tokens[h].kind \in {"atom", "comment"}
        /\ \E S : t \in Seq(S)
        /\ Len(t) \in 1 .. Len(stk)
        /\ \A i \in 1 .. Len(t) : Alike(stk[i], t[i])
        /\ \A i \in Len(t) + 1 .. Len(stk) : stk[i].frame # "forms"
        /\ t[Len(t)].frame \in {"forms", "discards"}
    BY ReturnShape
  <1> HIDE DEF t, q
  <1>2. Nested(t, p) /\ Opens(t) = Opens(stk)
    BY <1>1, NestedLower
  <1>3. Nested(t, q)
    BY <1>1, <1>2, TokenKinds, NestedLater
  <1>4. Unpaired[q - 1] = Unpaired[p - 1]
    BY <1>1, Passed
  <1>5. QED
    BY <1>1, <1>2, <1>3, <1>4 DEF Standing, t, q

(* An open token has no partner yet.                                       *)
LEMMA Opened ==
    ASSUME TokensTyped, NEW p \in 1 .. Len(tokens), tokens[p].kind = "open"
    PROVE  Unpaired[p] = Append(Unpaired[p - 1], p)
  BY TokenKinds, UnpairedDefined DEF Left

LEMMA FormStarted ==
    ASSUME IInv, dispatch
    PROVE  IInv' /\ pos' > pos
  <1> DEFINE n == Len(stack)
             p == PeekNoComment(pos)
  <1>1. /\ Reading /\ Top.frame # "forms" /\ p <= Len(tokens)
        /\ \/ tokens[p].kind = "atom" /\ Returned(Atom(tokens[p].v), stack, p + 1)
           \/ /\ tokens[p].kind = "open"
              /\ stack' = Append(stack, Forms(tokens[p].v[1], p))
              /\ pos' = p + 1
              /\ UNCHANGED <<text, tokens, forms, error>>
           \/ /\ tokens[p].kind = "prefix"
              /\ stack' = Append(stack, Prefixed(PrefixKind[tokens[p].v[1]], p))
              /\ pos' = p + 1
              /\ UNCHANGED <<text, tokens, forms, error>>
    BY DEF dispatch
  <1>2. /\ TokensTyped /\ pos \in 1 .. Len(tokens) + 1 /\ Len(tokens) \in Nat
        /\ Standing(stack, pos) /\ Nested(stack, pos)
    BY <1>1, TokenKinds DEF IInv, Standing
  <1>3. /\ p \in pos .. Len(tokens) + 1
        /\ \A h \in pos .. p - 1 : tokens[h].kind = "comment"
    BY <1>2, PeekedToken
  <1> HIDE DEF p
  <1>4. p \in 1 .. Len(tokens) /\ p \in Nat /\ p + 1 \in Nat /\ pos \in Nat /\ pos <= p + 1
    BY <1>1, <1>2, <1>3
  <1>5. n \in Nat \ {0} /\ stack[n].frame # "forms"
    BY <1>1, <1>2, NestedLen DEF Top
  <1>6. Opens(stack) = Unpaired[p - 1]
    BY <1>2, <1>3, Passed DEF Standing
  <1>7. CASE tokens[p].kind = "atom" /\ Returned(Atom(tokens[p].v), stack, p + 1)
    <2> DEFINE r == Return(Atom(tokens[p].v), stack, p + 1)
    <2>1. stack' = r.stack /\ pos' = r.pos /\ UNCHANGED <<text, tokens, forms, error>>
      BY <1>7 DEF Returned
    <2>2. Nested(stack, p + 1)
      BY <1>2, <1>4, NestedLater
    <2>3. Unpaired[p] = Unpaired[p - 1]
      BY <1>2, <1>4, <1>7, UnpairedDefined DEF Left
    <2>4. p + 1 \in 1 .. Len(tokens) + 1 /\ (p + 1) - 1 = p
      BY <1>2, <1>4
    <2>5. r.pos \in p + 1 .. Len(tokens) + 1 /\ Standing(r.stack, r.pos)
      BY <1>2, <1>5, <1>6, <2>2, <2>3, <2>4, ReturnStands
    <2> HIDE DEF r
    <2>6. IInv'
      <3>1. pos' \in 1 .. Len(tokens) + 1 /\ Standing(stack', pos')
        BY <1>2, <1>4, <2>1, <2>5
      <3>2. QED
        BY <1>1, <2>1, <3>1, GoesOn
    <2>7. QED
      BY <1>2, <1>3, <1>4, <2>1, <2>5, <2>6
  <1>8. CASE /\ tokens[p].kind = "open"
             /\ stack' = Append(stack, Forms(tokens[p].v[1], p))
             /\ pos' = p + 1
             /\ UNCHANGED <<text, tokens, forms, error>>
    <2> DEFINE e == Forms(tokens[p].v[1], p)
    <2>1. e.frame = "forms" /\ e.open = tokens[p].v[1] /\ e.at = p
          /\ {"frame", "open", "at"} \subseteq DOMAIN e
      BY DEF Forms
    <2>2. tokens[p].v = <<e.open>>
      BY <1>2, <1>4, <1>8, <2>1, TokenKinds
    <2> HIDE DEF e
    <2>3. FrameTyped(e, p + 1)
      BY <1>4, <2>1 DEF FrameTyped
    <2>4. \A j \in FormsAt(stack) : Behind(e, stack[j].at)
      BY <2>1 DEF Behind
    <2>5. /\ e.frame = "forms" =>
                /\ e.at \in 1 .. (p + 1) - 1
                /\ tokens[e.at].kind = "open" /\ tokens[e.at].v = <<e.open>>
          /\ e.frame \in {"form", "discards"} <=> stack[Len(stack)].frame = "forms"
      BY <1>4, <1>5, <1>8, <2>1, <2>2
    <2>6. /\ Nested(Append(stack, e), p + 1)
          /\ Len(Append(stack, e)) = n + 1 /\ Append(stack, e)[n + 1] = e
          /\ Opens(Append(stack, e)) = Append(Opens(stack), p)
      BY <1>2, <1>4, <2>1, <2>3, <2>4, <2>5, NestedPush
    <2>7. stack' = Append(stack, e)
      BY <1>8 DEF e
    <2>8. Unpaired[(p + 1) - 1] = Append(Unpaired[p - 1], p)
      <3>1. (p + 1) - 1 = p
        BY <1>4
      <3>2. QED
        BY <1>2, <1>4, <1>8, <3>1, Opened
    <2>9. Standing(stack', p + 1)
      BY <1>6, <2>1, <2>6, <2>7, <2>8 DEF Standing
    <2>10. pos' \in 1 .. Len(tokens) + 1 /\ pos' > pos
      BY <1>2, <1>3, <1>4, <1>8
    <2>11. QED
      BY <1>1, <1>8, <2>9, <2>10, GoesOn
  <1>9. CASE /\ tokens[p].kind = "prefix"
             /\ stack' = Append(stack, Prefixed(PrefixKind[tokens[p].v[1]], p))
             /\ pos' = p + 1
             /\ UNCHANGED <<text, tokens, forms, error>>
    <2> DEFINE e == Prefixed(PrefixKind[tokens[p].v[1]], p)
    <2>1. e.frame = "prefix" /\ e.at = p
      BY DEF Prefixed
    <2>2. stack' = Append(stack, e)
      BY <1>9
    <2> HIDE DEF e
    <2>3. FrameTyped(e, p + 1)
      BY <1>4, <1>9, <2>1 DEF FrameTyped
    <2>4. \A j \in FormsAt(stack) : Behind(e, stack[j].at)
      <3>1. TAKE j \in FormsAt(stack)
      <3>2. stack[j].at \in 1 .. pos - 1
        BY <1>2, <1>4, OpensBefore
      <3>3. stack[j].at < p
        BY <1>3, <1>4, <3>2
      <3>4. QED
        BY <2>1, <3>3 DEF Behind
    <2>5. /\ Nested(Append(stack, e), p + 1)
          /\ Len(Append(stack, e)) = n + 1 /\ Append(stack, e)[n + 1] = e
          /\ Opens(Append(stack, e)) = Opens(stack)
      BY <1>2, <1>4, <1>5, <2>1, <2>3, <2>4, NestedPush
    <2>6. Unpaired[(p + 1) - 1] = Unpaired[p - 1]
      <3>1. (p + 1) - 1 = p
        BY <1>4
      <3>2. QED
        BY <1>2, <1>4, <1>9, <3>1, UnpairedDefined DEF Left
    <2>7. Standing(stack', p + 1)
      BY <1>6, <2>1, <2>2, <2>5, <2>6 DEF Standing
    <2>8. pos' \in 1 .. Len(tokens) + 1 /\ pos' > pos
      BY <1>2, <1>3, <1>4, <1>9
    <2>9. QED
      BY <1>1, <1>9, <2>7, <2>8, GoesOn
  <1>10. QED
    BY <1>1, <1>7, <1>8, <1>9

LEMMA FirstOfMarks ==
    ASSUME NEW marks \in SUBSET Nat, marks # {}
    PROVE  First(marks) \in marks
  <1>1. \E i \in marks : \A j \in marks : i <= j
    BY LeastNumber
  <1>2. QED
    BY <1>1 DEF First

(* What is on top waits for a form after the last bracket that is open.    *)
LEMMA WaitsAfterOpen ==
    ASSUME TokensTyped, NEW stk, NEW p \in 1 .. Len(tokens) + 1, Nested(stk, p),
           stk[Len(stk)].frame \in {"discards", "prefix"}, Opens(stk) = Unpaired[p - 1]
    PROVE  LET top == stk[Len(stk)]
               at == IF top.frame = "prefix" THEN top.at ELSE First(top.marks)
           IN  /\ at \in 1 .. p - 1 /\ tokens[at].kind = "prefix"
               /\ Unpaired[p - 1] # <<>> => Last(Unpaired[p - 1]) <= at /\ Last(Unpaired[p - 1]) \in Nat
  <1> DEFINE n == Len(stk)
             top == stk[n]
             at == IF top.frame = "prefix" THEN top.at ELSE First(top.marks)
             open == Unpaired[p - 1]
  <1>1. n \in Nat \ {0} /\ n # 1
    BY NestedLen DEF Nested
  <1>2. FrameTyped(top, p) /\ \A j \in FormsAt(stk) : j < n => Behind(top, stk[j].at)
    BY <1>1 DEF Nested
  <1>3. Len(tokens) \in Nat /\ p \in Nat
    BY TokenKinds
  <1>4. /\ Opens(stk) \in Seq(Nat)
        /\ \A k \in 1 .. Len(Opens(stk)) : \E i \in FormsAt(stk) : Opens(stk)[k] = stk[i].at
    <2> HIDE DEF n, top, at, open
    <2> QED
      BY <1>3, OpensAreOpen
  <1>5. ASSUME top.frame = "discards"
        PROVE  /\ at \in 1 .. p - 1 /\ tokens[at].kind = "prefix"
               /\ \A j \in FormsAt(stk) : j < n => stk[j].at < at
    <2>1. top.marks # {} /\ top.marks \subseteq MarksAt \cap 1 .. p - 1
      BY <1>2, <1>5 DEF FrameTyped
    <2> HIDE DEF top
    <2>2. top.marks \in SUBSET Nat
      BY <1>3, <2>1
    <2>3. First(top.marks) \in top.marks
      BY <2>1, <2>2, FirstOfMarks
    <2>4. at \in top.marks
      BY <1>5, <2>3
    <2>5. at \in 1 .. p - 1 /\ tokens[at].kind = "prefix"
      BY <2>1, <2>4 DEF MarksAt
    <2>6. \A j \in FormsAt(stk) : j < n => stk[j].at < at
      BY <1>2, <1>5, <2>4 DEF Behind
    <2>7. QED
      BY <2>5, <2>6
  <1>6. ASSUME top.frame = "prefix"
        PROVE  /\ at \in 1 .. p - 1 /\ tokens[at].kind = "prefix"
               /\ \A j \in FormsAt(stk) : j < n => stk[j].at < at
    <2>1. at = top.at
      BY <1>6
    <2>2. at \in 1 .. p - 1 /\ tokens[at].kind = "prefix"
      BY <1>2, <1>6 DEF FrameTyped
    <2>3. \A j \in FormsAt(stk) : j < n => stk[j].at < at
      BY <1>2, <1>6 DEF Behind
    <2>4. QED
      BY <2>2, <2>3
  <1>7. /\ at \in 1 .. p - 1 /\ tokens[at].kind = "prefix"
        /\ \A j \in FormsAt(stk) : j < n => stk[j].at < at
    BY <1>5, <1>6
  <1> HIDE DEF at
  <1>8. ASSUME open # <<>>
        PROVE  Last(open) <= at /\ Last(open) \in Nat
    <2>1. open \in Seq(Nat) /\ \A k \in 1 .. Len(open) : \E i \in FormsAt(stk) : open[k] = stk[i].at
      BY <1>4
    <2> HIDE DEF open
    <2>2. Len(open) \in Nat \ {0} /\ Last(open) = open[Len(open)] /\ Last(open) \in Nat
      BY <1>8, <2>1, FrontAndLast
    <2>3. PICK i \in FormsAt(stk) : Last(open) = stk[i].at
      BY <2>1, <2>2
    <2>4. i \in 2 .. n /\ i # n
      BY <1>1, <2>3 DEF FormsAt
    <2>5. stk[i].at < at
      BY <1>1, <1>7, <2>4
    <2>6. QED
      BY <1>3, <1>7, <2>2, <2>3, <2>5
  <1>9. QED
    BY <1>7, <1>8 DEF at

LEMMA FormMissing ==
    ASSUME IInv, require_form
    PROVE  IInv' /\ ~Reading'
  <1> DEFINE n == Len(stack)
             p == PeekNoComment(pos)
             at == IF Top.frame = "prefix" THEN Top.at ELSE First(Top.marks)
  <1>1. /\ Reading /\ Top.frame # "forms"
        /\ \/ p > Len(tokens) /\ Fail("unclosed", at)
           \/ p <= Len(tokens) /\ tokens[p].kind = "close" /\ Fail("unmatched", p)
    BY DEF require_form
  <1>2. /\ TokensTyped /\ pos \in 1 .. Len(tokens) + 1 /\ Len(tokens) \in Nat
        /\ Standing(stack, pos) /\ Nested(stack, pos)
    BY <1>1, TokenKinds DEF IInv, Standing
  <1>3. /\ p \in pos .. Len(tokens) + 1
        /\ \A h \in pos .. p - 1 : tokens[h].kind = "comment"
        /\ p > Len(tokens) => \A h \in pos .. Len(tokens) : tokens[h].kind = "comment"
    BY <1>2, PeekedToken
  <1> HIDE DEF p
  <1>4. n \in Nat \ {0} /\ Top = stack[n] /\ FrameTyped(stack[n], pos)
    <2>1. n \in Nat \ {0} /\ Top = stack[n]
      BY <1>2, NestedLen DEF Top
    <2>2. QED
      BY <1>2, <2>1 DEF Nested
  <1>5. ASSUME Top.frame = "form"
        PROVE  FALSE
    <2>1. pos <= Len(tokens) /\ tokens[pos].kind \notin {"comment", "close"}
      BY <1>2, <1>4, <1>5 DEF Standing
    <2>2. p = pos
      <3>1. p > pos => pos \in pos .. p - 1
        BY <1>2, <1>3
      <3>2. QED
        BY <1>2, <1>3, <2>1, <3>1
    <2>3. QED
      BY <1>1, <1>2, <2>1, <2>2
  <1>6. Top.frame \in {"discards", "prefix"}
    BY <1>1, <1>4, <1>5 DEF FrameTyped
  <1>7. /\ at \in 1 .. pos - 1 /\ tokens[at].kind = "prefix"
        /\ Unpaired[pos - 1] # <<>> =>
              Last(Unpaired[pos - 1]) <= at /\ Last(Unpaired[pos - 1]) \in Nat
    BY <1>2, <1>4, <1>6, WaitsAfterOpen DEF Standing
  <1> HIDE DEF at
  <1>8. CASE Fail("unclosed", at)
    <2>1. at \in 0 .. Len(tokens)
      BY <1>2, <1>7
    <2>2. IInv'
      BY <1>1, <1>7, <1>8, <2>1, FailsRightly
    <2>3. QED
      BY <1>8, <2>2 DEF Fail, Reading
  <1>9. CASE p <= Len(tokens) /\ Fail("unmatched", p)
    <2>1. p \in 0 .. Len(tokens)
      BY <1>2, <1>3, <1>9
    <2>2. Unpaired[p - 1] = Unpaired[pos - 1]
      BY <1>2, <1>3, Passed
    <2> DEFINE open == Unpaired[p - 1]
    <2>3. at \in (IF open = <<>> THEN 1 ELSE Last(open)) .. p
      BY <1>2, <1>3, <1>7, <2>2
    <2>4. \E h \in (IF open = <<>> THEN 1 ELSE Last(open)) .. p : tokens[h].kind = "prefix"
      BY <1>7, <2>3
    <2>5. IInv'
      <3> HIDE DEF open
      <3>1. LET o == Unpaired[p - 1]
            IN \E h \in (IF o = <<>> THEN 1 ELSE Last(o)) .. p : tokens[h].kind = "prefix"
        BY <2>4 DEF open
      <3>2. QED
        BY <1>1, <1>9, <2>1, <3>1, FailsRightly
    <2>6. QED
      BY <1>9, <2>5 DEF Fail, Reading
  <1>10. QED
    BY <1>1, <1>8, <1>9

(* The bracket of a sequence of forms on top is the innermost that is open.*)
LEMMA Innermost ==
    ASSUME NEW stk, NEW p \in Nat, Nested(stk, p), stk[Len(stk)].frame = "forms", stk[Len(stk)].open # "top"
    PROVE  /\ Len(stk) > 1
           /\ Nested(Front(stk), p)
           /\ Front(stk)[Len(Front(stk))].frame # "forms"
           /\ Opens(stk) = Append(Opens(Front(stk)), stk[Len(stk)].at)
           /\ Opens(Front(stk)) \in Seq(Nat)
           /\ stk[Len(stk)].at \in 1 .. p - 1
           /\ tokens[stk[Len(stk)].at].kind = "open"
           /\ tokens[stk[Len(stk)].at].v = <<stk[Len(stk)].open>>
  <1> DEFINE n == Len(stk)
             t == Front(stk)
  <1>1. n \in Nat \ {0} /\ n # 1
    BY NestedLen DEF Nested
  <1>2. /\ stk[n].at \in 1 .. p - 1
        /\ tokens[stk[n].at].kind = "open" /\ tokens[stk[n].at].v = <<stk[n].open>>
        /\ stk[n - 1].frame # "forms"
    BY <1>1 DEF Nested
  <1>3. PICK S : stk \in Seq(S) /\ stk # <<>>
    BY DEF Nested
  <1>4. t \in Seq(S) /\ Len(t) = n - 1 /\ \A i \in 1 .. n - 1 : t[i] = stk[i]
    BY <1>3, FrontAndLast
  <1> HIDE DEF t
  <1>5. Len(t) \in 1 .. Len(stk) /\ \A i \in 1 .. Len(t) : Alike(stk[i], t[i])
    BY <1>1, <1>4 DEF Alike
  <1>6. Nested(t, p) /\ FormsAt(t) = {i \in FormsAt(stk) : i <= Len(t)}
    BY <1>4, <1>5, NestedLower
  <1>7. FormsAt(stk) = FormsAt(t) \cup {n}
    BY <1>1, <1>4, <1>6 DEF FormsAt
  <1>8. \A i \in FormsAt(t) : t[i].at \in Nat /\ t[i].at = stk[i].at
    <2>1. \A i \in FormsAt(t) : t[i].at \in Nat
      BY <1>6, OpensAreOpen
    <2>2. \A i \in FormsAt(t) : i \in 1 .. n - 1
      BY <1>1, <1>4 DEF FormsAt
    <2>3. QED
      BY <1>4, <2>1, <2>2
  <1>9. Opens(stk) = Append(Opens(t), stk[n].at)
    <2>1. /\ Len(t) \in Nat \ {0} /\ Len(stk) = Len(t) + 1
          /\ stk[Len(stk)].at \in Nat
          /\ FormsAt(stk) = FormsAt(t) \cup {Len(stk)}
      BY <1>1, <1>2, <1>4, <1>7
    <2>2. QED
      BY <1>8, <2>1, OpensPush
  <1>10. Opens(t) \in Seq(Nat)
    BY <1>6, OpensAreOpen
  <1>11. t[Len(t)].frame # "forms"
    BY <1>1, <1>2, <1>4
  <1>12. n > 1
    <2> HIDE DEF n
    <2> QED
      BY <1>1
  <1>13. QED
    BY <1>2, <1>6, <1>9, <1>10, <1>11, <1>12 DEF t

(* No bracket opens the sequence of read_all, which is alone at the bottom.*)
LEMMA Outermost ==
    ASSUME TokensTyped, NEW stk, NEW p \in 1 .. Len(tokens) + 1, Nested(stk, p),
           stk[Len(stk)].frame = "forms", stk[Len(stk)].open = "top"
    PROVE  Opens(stk) = <<>>
  <1> DEFINE n == Len(stk)
  <1>1. n \in Nat \ {0} /\ Len(tokens) \in Nat
    BY NestedLen, TokenKinds
  <1>2. n = 1
    <2>1. SUFFICES ASSUME n # 1
                   PROVE  FALSE
      OBVIOUS
    <2>2. /\ stk[n].at \in 1 .. p - 1
          /\ tokens[stk[n].at].kind = "open" /\ tokens[stk[n].at].v = <<"top">>
      <3>1. n = Len(stk) /\ stk[n].frame = "forms" /\ stk[n].open = "top"
        OBVIOUS
      <3> HIDE DEF n
      <3>2. n \in 2 .. Len(stk)
        BY <1>1, <2>1, <3>1
      <3>3. QED
        BY <3>1, <3>2 DEF Nested
    <2>3. stk[n].at \in 1 .. Len(tokens)
      BY <1>1, <2>2
    <2>4. PICK o \in DOMAIN Closer : tokens[stk[n].at].v = <<o>>
      BY <2>2, <2>3, TokenKinds
    <2>5. QED
      BY <2>2, <2>4, TopIsNoBracket
  <1>3. FormsAt(stk) = {}
    BY <1>2 DEF FormsAt
  <1>4. QED
    BY <1>1, <1>3, OpensRange

(* A sequence that was appended to ends with what was appended.            *)
LEMMA Appended ==
    ASSUME NEW S, NEW r \in Seq(S), NEW e \in S
    PROVE  /\ Append(r, e) # <<>> /\ Last(Append(r, e)) = e /\ Front(Append(r, e)) = r
  <1> DEFINE u == Append(r, e)
  <1>1. Len(r) \in Nat
    BY LenProperties
  <1>2. /\ u \in Seq(S) /\ u # <<>> /\ Len(u) = Len(r) + 1
        /\ \A i \in 1 .. Len(r) : u[i] = r[i]
        /\ u[Len(r) + 1] = e
    BY AppendProperties
  <1> HIDE DEF u
  <1>3. /\ Front(u) \in Seq(S) /\ Len(Front(u)) = Len(u) - 1
        /\ \A i \in 1 .. Len(u) - 1 : Front(u)[i] = u[i]
        /\ Last(u) = u[Len(u)]
    BY <1>2, FrontAndLast
  <1>4. Len(Front(u)) = Len(r) /\ \A i \in 1 .. Len(r) : Front(u)[i] = r[i]
    BY <1>1, <1>2, <1>3
  <1>5. Front(u) = r
    BY <1>3, <1>4, SeqEqual
  <1>6. QED
    BY <1>2, <1>3, <1>5 DEF u

LEMMA BracketClosed ==
    ASSUME IInv, read_close
    PROVE  IInv' /\ (~Reading' \/ pos' > pos)
  <1> DEFINE n == Len(stack)
             p == PeekNoComment(pos)
             node == Node(Bracketed[Top.open], <<>>, Top.items)
  <1>1. Reading /\ Top.frame = "forms" /\ p <= Len(tokens) /\ tokens[p].kind = "close"
    BY DEF read_close
  <1>2. \/ Top.open = "top" /\ Fail("unmatched", p)
        \/ Top.open # "top" /\ tokens[p].v # <<Closer[Top.open]>> /\ Fail("unmatched", p)
        \/ Top.open # "top" /\ Fail("odd map", Top.at)
        \/ /\ Top.open # "top" /\ tokens[p].v = <<Closer[Top.open]>>
           /\ Returned(node, Front(stack), p + 1)
    BY DEF read_close
  <1>3. /\ TokensTyped /\ pos \in 1 .. Len(tokens) + 1 /\ Len(tokens) \in Nat
        /\ Standing(stack, pos) /\ Nested(stack, pos)
    BY <1>1, TokenKinds DEF IInv, Standing
  <1>4. /\ p \in pos .. Len(tokens) + 1
        /\ \A h \in pos .. p - 1 : tokens[h].kind = "comment"
    BY <1>3, PeekedToken
  <1> HIDE DEF p, node
  <1>5. /\ p \in 1 .. Len(tokens) /\ p \in 0 .. Len(tokens) /\ p \in Nat /\ p + 1 \in Nat
        /\ pos \in Nat /\ pos <= p + 1
    BY <1>1, <1>3, <1>4
  <1>6. Bad(p) \/ Unpaired[p] # Append(Unpaired[p - 1], p)
    BY <1>1, <1>3, <1>5, LeftOver
  <1>7. n \in Nat \ {0} /\ Top = stack[n] /\ stack[n].frame = "forms"
    BY <1>1, <1>3, NestedLen DEF Top
  <1>8. Opens(stack) = Unpaired[p - 1]
    BY <1>3, <1>4, Passed DEF Standing
  <1>9. Unpaired[p] = Left(Unpaired[p - 1], p)
    BY <1>3, <1>5, UnpairedDefined
  <1>10. CASE Top.open = "top" /\ Fail("unmatched", p)
    <2>1. Unpaired[p - 1] = <<>>
      BY <1>3, <1>7, <1>8, <1>10, Outermost
    <2>2. Unpaired[p] = Append(Unpaired[p - 1], p)
      BY <1>1, <1>9, <2>1 DEF Left
    <2>3. Bad(p)
      BY <1>6, <2>2
    <2>4. IInv'
      BY <1>1, <1>5, <1>10, <2>3, FailsRightly
    <2>5. QED
      BY <1>10, <2>4 DEF Fail, Reading
  <1>11. ASSUME Top.open # "top"
        PROVE  /\ Nested(Front(stack), pos)
               /\ Front(stack)[Len(Front(stack))].frame # "forms"
               /\ Top.at \in 1 .. pos - 1
               /\ tokens[Top.at].kind = "open" /\ tokens[Top.at].v = <<Top.open>>
               /\ Opens(Front(stack)) \in Seq(Nat)
               /\ Unpaired[p - 1] = Append(Opens(Front(stack)), Top.at)
               /\ Unpaired[p - 1] # <<>> /\ Last(Unpaired[p - 1]) = Top.at
               /\ Front(Unpaired[p - 1]) = Opens(Front(stack))
    <2>1. /\ Nested(Front(stack), pos)
          /\ Front(stack)[Len(Front(stack))].frame # "forms"
          /\ Top.at \in 1 .. pos - 1
          /\ tokens[Top.at].kind = "open" /\ tokens[Top.at].v = <<Top.open>>
          /\ Opens(Front(stack)) \in Seq(Nat)
          /\ Opens(stack) = Append(Opens(Front(stack)), Top.at)
      BY <1>3, <1>5, <1>7, <1>11, Innermost
    <2>2. Top.at \in Nat
      BY <1>5, <2>1
    <2>3. QED
      BY <1>8, <2>1, <2>2, Appended
  <1>12. CASE Top.open # "top" /\ tokens[p].v # <<Closer[Top.open]>> /\ Fail("unmatched", p)
    <2>1. tokens[Last(Unpaired[p - 1])].v[1] = Top.open
      BY <1>11, <1>12
    <2>2. Unpaired[p] = Append(Unpaired[p - 1], p)
      BY <1>1, <1>9, <1>12, <2>1 DEF Left
    <2>3. Bad(p)
      BY <1>6, <2>2
    <2>4. IInv'
      BY <1>1, <1>5, <1>12, <2>3, FailsRightly
    <2>5. QED
      BY <1>12, <2>4 DEF Fail, Reading
  <1>13. CASE Top.open # "top" /\ Fail("odd map", Top.at)
    <2>1. Top.at \in 0 .. Len(tokens)
      <3>1. Top.at \in 1 .. pos - 1
        BY <1>11, <1>13
      <3>2. QED
        BY <1>3, <3>1
    <2>2. IInv'
      BY <1>1, <1>13, <2>1, FailsRightly
    <2>3. QED
      BY <1>13, <2>2 DEF Fail, Reading
  <1>14. CASE /\ Top.open # "top" /\ tokens[p].v = <<Closer[Top.open]>>
              /\ Returned(node, Front(stack), p + 1)
    <2> DEFINE t == Front(stack)
               r == Return(node, t, p + 1)
    <2>1. stack' = r.stack /\ pos' = r.pos /\ UNCHANGED <<text, tokens, forms, error>>
      BY <1>14 DEF Returned
    <2>2. tokens[Last(Unpaired[p - 1])].v[1] = Top.open
      BY <1>11, <1>14
    <2>3. Unpaired[p] = Opens(t)
      BY <1>1, <1>9, <1>11, <1>14, <2>2 DEF Left
    <2>4. Nested(t, pos) /\ t[Len(t)].frame # "forms"
      BY <1>11, <1>14
    <2> HIDE DEF t
    <2>5. Nested(t, p + 1)
      BY <1>5, <2>4, NestedLater
    <2>6. p + 1 \in 1 .. Len(tokens) + 1 /\ (p + 1) - 1 = p
      BY <1>3, <1>5
    <2>7. r.pos \in p + 1 .. Len(tokens) + 1 /\ Standing(r.stack, r.pos)
      BY <1>3, <2>3, <2>4, <2>5, <2>6, ReturnStands
    <2> HIDE DEF r
    <2>8. pos' \in 1 .. Len(tokens) + 1 /\ Standing(stack', pos') /\ pos' > pos
      BY <1>3, <1>4, <1>5, <2>1, <2>7
    <2>9. QED
      BY <1>1, <2>1, <2>8, GoesOn
  <1>15. QED
    BY <1>2, <1>10, <1>12, <1>13, <1>14

LEMMA EndReached ==
    ASSUME IInv, read_end
    PROVE  IInv' /\ ~Reading'
  <1> DEFINE n == Len(stack)
             p == PeekNoComment(pos)
  <1>1. /\ Reading /\ Top.frame = "forms" /\ p > Len(tokens)
        /\ \/ Top.open # "top" /\ Fail("unclosed", Top.at)
           \/ /\ Top.open = "top" /\ stack' = <<>> /\ pos' = Len(tokens) + 1
              /\ UNCHANGED <<text, tokens, error>>
    BY DEF read_end
  <1>2. /\ TokensTyped /\ pos \in 1 .. Len(tokens) + 1 /\ Len(tokens) \in Nat
        /\ Standing(stack, pos) /\ Nested(stack, pos) /\ error = None
    BY <1>1, TokenKinds DEF IInv, Standing
  <1>3. \A h \in pos .. (Len(tokens) + 1) - 1 : tokens[h].kind = "comment"
    BY <1>1, <1>2, PeekedToken
  <1> HIDE DEF p
  <1>4. n \in Nat \ {0} /\ Top = stack[n] /\ stack[n].frame = "forms"
    BY <1>1, <1>2, NestedLen DEF Top
  <1>5. Opens(stack) = Unpaired[Len(tokens)]
    <2>1. /\ Len(tokens) + 1 \in pos .. Len(tokens) + 1
          /\ \A h \in pos .. (Len(tokens) + 1) - 1 : tokens[h].kind \notin {"open", "close"}
      BY <1>2, <1>3
    <2>2. Unpaired[(Len(tokens) + 1) - 1] = Unpaired[pos - 1]
      BY <1>2, <2>1, Passed
    <2>3. (Len(tokens) + 1) - 1 = Len(tokens)
      BY <1>2
    <2>4. Opens(stack) = Unpaired[pos - 1]
      BY <1>2 DEF Standing
    <2>5. QED
      BY <2>2, <2>3, <2>4
  <1>6. CASE Top.open # "top" /\ Fail("unclosed", Top.at)
    <2>1. /\ Opens(Front(stack)) \in Seq(Nat) /\ Top.at \in 1 .. pos - 1
          /\ Opens(stack) = Append(Opens(Front(stack)), Top.at)
      <3>1. pos \in Nat /\ stack[Len(stack)].open # "top" /\ Top = stack[Len(stack)]
        BY <1>2, <1>4, <1>6
      <3> HIDE DEF n
      <3>2. QED
        BY <1>2, <1>4, <3>1, Innermost DEF n
    <2>2. Top.at \in 0 .. Len(tokens) /\ Top.at \in Nat
      BY <1>2, <2>1
    <2>3. Top.at = Last(Unpaired[Len(tokens)])
      BY <1>5, <2>1, <2>2, Appended
    <2>4. IInv'
      BY <1>1, <1>6, <2>2, <2>3, FailsRightly
    <2>5. QED
      BY <1>6, <2>4 DEF Fail, Reading
  <1>7. CASE /\ Top.open = "top" /\ stack' = <<>> /\ pos' = Len(tokens) + 1
             /\ UNCHANGED <<text, tokens, error>>
    <2>1. Unpaired[Len(tokens)] = <<>>
      BY <1>2, <1>4, <1>5, <1>7, Outermost
    <2>2. Unpaired' = Unpaired /\ TokensTyped' /\ ErrorTyped(error)'
      BY <1>2, <1>7, SameTokens DEF IInv, ErrorTyped
    <2>3. (pos \in 1 .. Len(tokens) + 1)' /\ ~Reading'
      BY <1>2, <1>7 DEF Reading
    <2>4. (pos - 1)' = Len(tokens)
      BY <1>2, <1>7
    <2>5. ~(Bad(pos - 1))'
      <3>1. (Bad(pos - 1))' <=> Bad(Len(tokens))
        BY <1>7, <2>2, <2>4 DEF Bad
      <3>2. Range(<<>>) = {}
        BY DEF Range
      <3>3. QED
        BY <2>1, <3>1, <3>2 DEF Bad
    <2>6. BracketsAreMatched'
      BY <1>2, <1>7, <2>1, <2>2, <2>5 DEF BracketsAreMatched, None
    <2>7. QED
      BY <2>2, <2>3, <2>6 DEF IInv
  <1>8. QED
    BY <1>1, <1>6, <1>7

-----------------------------------------------------------------------------
(* The lexer.                                                              *)

(* The token that starts at i is what the lexeme at i starts.              *)
LEMMA LexTokenCases ==
    ASSUME NEW s, NEW i
    PROVE  LET Run(S) == After(s, i + 1, {h \in DOMAIN s : s[h] \in S})
               Upto(e, kind) == [kind |-> kind, v |-> SubSeq(s, i, e - 1), at |-> i, end |-> e]
           IN  \/ lex_token(s, i) = Upto(Run(Lexeme \ {"\n"}), "comment")
               \/ lex_token(s, i) = Upto(Run(Names), "atom")
               \/ lex_token(s, i) = Upto(i + 1, "atom")
               \/ s[i] \in DOMAIN Closer /\ lex_token(s, i) = Upto(i + 1, "open")
               \/ s[i] \in Closers /\ lex_token(s, i) = Upto(i + 1, "close")
               \/ i < Len(s) /\ lex_token(s, i) = [Upto(i + 2, "prefix") EXCEPT !.v = <<"~@">>]
               \/ /\ s[i] \notin Comments \cup Names \cup Keys \cup Literals \cup DOMAIN Closer \cup Closers
                  /\ lex_token(s, i) = Upto(i + 1, "prefix")
  BY SMT DEF lex_token

(* A token that starts at i, in a text of n lexemes.                       *)
TokenAt(t, i, n) == t \in Token /\ t.at = i /\ t.end \in i + 1 .. n + 1

LEMMA SignToken ==
    ASSUME NEW n \in Nat, NEW i \in 1 .. n, NEW e \in i + 1 .. n + 1, NEW kind, NEW x,
           \/ kind = "open" /\ x \in DOMAIN Closer
           \/ kind = "close" /\ x \in Closers
           \/ kind = "prefix" /\ x \in DOMAIN PrefixKind
    PROVE  TokenAt([kind |-> kind, v |-> <<x>>, at |-> i, end |-> e], i, n)
  BY DEF Token, TokenAt

LEMMA SpelledToken ==
    ASSUME NEW n \in Nat, NEW i \in 1 .. n, NEW e \in i + 1 .. n + 1, NEW kind \in {"comment", "atom"},
           NEW v \in Seq(Lexeme)
    PROVE  TokenAt([kind |-> kind, v |-> v, at |-> i, end |-> e], i, n)
  BY DEF Token, TokenAt

LEMMA LexTokenType ==
    ASSUME NEW s \in Seq(Lexeme), NEW i \in 1 .. Len(s), s[i] \notin Space
    PROVE  TokenAt(lex_token(s, i), i, Len(s))
  <1> DEFINE t == lex_token(s, i)
             Run(S) == After(s, i + 1, {h \in DOMAIN s : s[h] \in S})
             Upto(e, kind) == [kind |-> kind, v |-> SubSeq(s, i, e - 1), at |-> i, end |-> e]
  <1>1. /\ Len(s) \in Nat /\ DOMAIN s = 1 .. Len(s) /\ i \in Nat
        /\ \A h \in 1 .. Len(s) : s[h] \in Lexeme
    BY LenProperties, ElementOfSeq
  <1>2. ASSUME NEW S
        PROVE  Run(S) \in i + 1 .. Len(s) + 1
    <2> DEFINE K == {h \in DOMAIN s : s[h] \in S}
    <2>1. K \in SUBSET (1 .. Len(s)) /\ i + 1 \in 1 .. Len(s) + 1
      BY <1>1
    <2> HIDE DEF K
    <2>2. After(s, i + 1, K) \in i + 1 .. Len(s) + 1
      BY <1>1, <2>1, AfterRun
    <2>3. QED
      BY <2>2 DEF K
  <1>3. ASSUME NEW e \in i + 1 .. Len(s) + 1
        PROVE  /\ SubSeq(s, i, e - 1) \in Seq(Lexeme)
               /\ e = i + 1 => SubSeq(s, i, e - 1) = <<s[i]>>
    <2>1. i \in Int /\ e - 1 \in Int /\ \A h \in i .. e - 1 : s[h] \in Lexeme
      BY <1>1
    <2>2. /\ SubSeq(s, i, e - 1) \in Seq(Lexeme)
          /\ Len(SubSeq(s, i, e - 1)) = IF i <= e - 1 THEN e - 1 - i + 1 ELSE 0
          /\ \A h \in 1 .. e - 1 - i + 1 : SubSeq(s, i, e - 1)[h] = s[i + h - 1]
      BY <2>1, SubSeqProperties
    <2>3. ASSUME e = i + 1
          PROVE  SubSeq(s, i, e - 1) = <<s[i]>>
      <3> DEFINE u == SubSeq(s, i, e - 1)
      <3>1. u \in Seq(Lexeme) /\ Len(u) = 1 /\ u[1] = s[i]
        <4>1. i <= e - 1 /\ e - 1 - i + 1 = 1 /\ 1 \in 1 .. e - 1 - i + 1 /\ i + 1 - 1 = i
          BY <1>1, <2>3
        <4>2. QED
          BY <2>2, <4>1
      <3> HIDE DEF u
      <3>2. <<s[i]>> \in Seq(Lexeme) /\ Len(<<s[i]>>) = 1 /\ <<s[i]>>[1] = s[i]
        BY <1>1
      <3>3. \A h \in 1 .. Len(u) : u[h] = <<s[i]>>[h]
        BY <3>1, <3>2
      <3>4. u = <<s[i]>>
        BY <3>1, <3>2, <3>3, SeqEqual
      <3>5. QED
        BY <3>4 DEF u
    <2>4. QED
      BY <2>2, <2>3
  <1>4. i + 1 \in i + 1 .. Len(s) + 1 /\ SubSeq(s, i, (i + 1) - 1) = <<s[i]>>
    <2>1. i + 1 \in i + 1 .. Len(s) + 1
      BY <1>1
    <2>2. QED
      BY <1>3, <2>1
  <1> HIDE DEF t, Run
  <1>5. ASSUME NEW e \in i + 1 .. Len(s) + 1, NEW kind \in {"comment", "atom"}, t = Upto(e, kind)
        PROVE  TokenAt(t, i, Len(s))
    <2>1. SubSeq(s, i, e - 1) \in Seq(Lexeme)
      BY <1>3
    <2>2. TokenAt(Upto(e, kind), i, Len(s))
      BY <1>1, <2>1, SpelledToken
    <2>3. QED
      BY <1>5, <2>2
  <1>6. ASSUME NEW kind, t = Upto(i + 1, kind),
               \/ kind = "open" /\ s[i] \in DOMAIN Closer
               \/ kind = "close" /\ s[i] \in Closers
               \/ kind = "prefix" /\ s[i] \in DOMAIN PrefixKind
        PROVE  TokenAt(t, i, Len(s))
    <2>1. t = [kind |-> kind, v |-> <<s[i]>>, at |-> i, end |-> i + 1]
      BY <1>4, <1>6
    <2>2. TokenAt([kind |-> kind, v |-> <<s[i]>>, at |-> i, end |-> i + 1], i, Len(s))
      BY <1>1, <1>4, <1>6, SignToken
    <2>3. QED
      BY <2>1, <2>2
  <1>7. /\ t = Upto(Run(Lexeme \ {"\n"}), "comment") => TokenAt(t, i, Len(s))
        /\ t = Upto(Run(Names), "atom") => TokenAt(t, i, Len(s))
        /\ t = Upto(i + 1, "atom") => TokenAt(t, i, Len(s))
    <2> HIDE DEF Upto
    <2>1. Run(Lexeme \ {"\n"}) \in i + 1 .. Len(s) + 1 /\ Run(Names) \in i + 1 .. Len(s) + 1
      BY <1>2
    <2>2. QED
      BY <1>4, <1>5, <2>1
  <1>8. /\ s[i] \in DOMAIN Closer /\ t = Upto(i + 1, "open") => TokenAt(t, i, Len(s))
        /\ s[i] \in Closers /\ t = Upto(i + 1, "close") => TokenAt(t, i, Len(s))
    <2> HIDE DEF Upto
    <2> QED
      BY <1>6
  <1>9. ASSUME i < Len(s), t = [Upto(i + 2, "prefix") EXCEPT !.v = <<"~@">>]
        PROVE  TokenAt(t, i, Len(s))
    <2>1. t = [kind |-> "prefix", v |-> <<"~@">>, at |-> i, end |-> i + 2]
      BY <1>9
    <2>2. "~@" \in DOMAIN PrefixKind
      BY DEF PrefixKind
    <2>3. i + 2 \in i + 1 .. Len(s) + 1
      BY <1>1, <1>9
    <2>4. TokenAt([kind |-> "prefix", v |-> <<"~@">>, at |-> i, end |-> i + 2], i, Len(s))
      BY <1>1, <2>2, <2>3, SignToken
    <2>5. QED
      BY <2>1, <2>4
  <1>10. ASSUME s[i] \notin Comments \cup Names \cup Keys \cup Literals \cup DOMAIN Closer \cup Closers,
                t = Upto(i + 1, "prefix")
         PROVE  TokenAt(t, i, Len(s))
    <2>1. s[i] \in DOMAIN PrefixKind
      BY <1>1, <1>10 DEF Lexeme
    <2>2. QED
      BY <1>6, <1>10, <2>1
  <1>11. \/ t = Upto(Run(Lexeme \ {"\n"}), "comment")
         \/ t = Upto(Run(Names), "atom")
         \/ t = Upto(i + 1, "atom")
         \/ s[i] \in DOMAIN Closer /\ t = Upto(i + 1, "open")
         \/ s[i] \in Closers /\ t = Upto(i + 1, "close")
         \/ i < Len(s) /\ t = [Upto(i + 2, "prefix") EXCEPT !.v = <<"~@">>]
         \/ /\ s[i] \notin Comments \cup Names \cup Keys \cup Literals \cup DOMAIN Closer \cup Closers
            /\ t = Upto(i + 1, "prefix")
    BY LexTokenCases DEF t, Run
  <1>12. TokenAt(t, i, Len(s))
    <2> HIDE DEF Upto
    <2> QED
      BY <1>7, <1>8, <1>9, <1>10, <1>11, Zenon
  <1>13. QED
    BY <1>12 DEF t

(* The tokens ts are those of the text s from place i on.                  *)
Covering(s, i, ts) ==
    /\ ts \in Seq(Token)
    /\ \A j \in 1 .. Len(ts) : ts[j].at \in i .. ts[j].end - 1 /\ ts[j].end \in 1 .. Len(s) + 1
    /\ \A j, k \in 1 .. Len(ts) : j < k => ts[j].end <= ts[k].at
    /\ \A h \in i .. Len(s) :
           s[h] \in Space \/ \E j \in 1 .. Len(ts) : h \in ts[j].at .. ts[j].end - 1

LEMMA CoveringEnd ==
    ASSUME NEW s, Len(s) \in Nat
    PROVE  Covering(s, Len(s) + 1, <<>>)
  <1>1. <<>> \in Seq(Token) /\ Len(<<>>) = 0
    BY EmptySeq
  <1>2. QED
    BY <1>1 DEF Covering

LEMMA CoveringSkip ==
    ASSUME NEW s, Len(s) \in Nat, NEW i \in 1 .. Len(s), s[i] \in Space, NEW ts,
           Covering(s, i + 1, ts)
    PROVE  Covering(s, i, ts)
  <1>1. Len(ts) \in Nat
    BY LenProperties DEF Covering
  <1>2. \A j \in 1 .. Len(ts) : ts[j].at \in i .. ts[j].end - 1
    BY DEF Covering
  <1>3. \A h \in i .. Len(s) : h = i \/ h \in i + 1 .. Len(s)
    OBVIOUS
  <1>4. QED
    BY <1>2, <1>3 DEF Covering

LEMMA CoveringMore ==
    ASSUME NEW s, Len(s) \in Nat, NEW i \in 1 .. Len(s), NEW t, TokenAt(t, i, Len(s)),
           NEW ts, Covering(s, t.end, ts)
    PROVE  Covering(s, i, <<t>> \o ts)
  <1> DEFINE u == <<t>> \o ts
             n == Len(ts)
             e == t.end
  <1>1. /\ t \in Token /\ t.at = i /\ e \in i + 1 .. Len(s) + 1
        /\ ts \in Seq(Token) /\ n \in Nat
    BY LenProperties DEF Covering, TokenAt
  <1>2. <<t>> \in Seq(Token) /\ Len(<<t>>) = 1 /\ <<t>>[1] = t
    BY <1>1
  <1>3. /\ u \in Seq(Token) /\ Len(u) = 1 + n
        /\ \A k \in 1 .. 1 + n : u[k] = IF k <= 1 THEN <<t>>[k] ELSE ts[k - 1]
    <2> DEFINE o == <<t>>
    <2>1. o \in Seq(Token) /\ Len(o) = 1
      BY <1>2
    <2> HIDE DEF o
    <2> HIDE DEF n, e
    <2>2. /\ o \o ts \in Seq(Token) /\ Len(o \o ts) = Len(o) + Len(ts)
          /\ \A k \in 1 .. Len(o) + Len(ts) :
                (o \o ts)[k] = IF k <= Len(o) THEN o[k] ELSE ts[k - Len(o)]
      BY <1>1, <2>1, ConcatProperties
    <2>3. /\ o \o ts \in Seq(Token) /\ Len(o \o ts) = 1 + n
          /\ \A k \in 1 .. 1 + n : (o \o ts)[k] = IF k <= 1 THEN o[k] ELSE ts[k - 1]
      BY <2>1, <2>2 DEF n
    <2>4. QED
      BY <2>3 DEF o
  <1> HIDE DEF u, n, e
  <1>4. u[1] = t /\ \A j \in 1 .. n : u[j + 1] = ts[j] /\ j + 1 \in 1 .. 1 + n
    <2>1. u[1] = t
      BY <1>1, <1>2, <1>3
    <2>2. ASSUME NEW j \in 1 .. n
          PROVE  u[j + 1] = ts[j] /\ j + 1 \in 1 .. 1 + n
      <3>1. j + 1 \in 1 .. 1 + n /\ ~(j + 1 <= 1) /\ (j + 1) - 1 = j
        BY <1>1
      <3>2. QED
        BY <1>3, <3>1
    <2>3. QED
      BY <2>1, <2>2
  <1>5. /\ \A j \in 1 .. n : ts[j].at \in e .. ts[j].end - 1 /\ ts[j].end \in 1 .. Len(s) + 1
        /\ \A j, k \in 1 .. n : j < k => ts[j].end <= ts[k].at
        /\ \A h \in e .. Len(s) :
              s[h] \in Space \/ \E j \in 1 .. n : h \in ts[j].at .. ts[j].end - 1
    BY DEF Covering, n, e
  <1>6. \A k \in 1 .. 1 + n : k = 1 \/ (k - 1 \in 1 .. n /\ u[k] = ts[k - 1])
    BY <1>1, <1>3
  <1>7. \A k \in 1 .. 1 + n : u[k].at \in i .. u[k].end - 1 /\ u[k].end \in 1 .. Len(s) + 1
    <2>1. TAKE k \in 1 .. 1 + n
    <2>2. CASE k = 1
      BY <1>1, <1>4, <2>2 DEF e
    <2>3. CASE k - 1 \in 1 .. n /\ u[k] = ts[k - 1]
      <3>1. ts[k - 1].at \in e .. ts[k - 1].end - 1 /\ ts[k - 1].end \in 1 .. Len(s) + 1
        BY <1>5, <2>3
      <3>2. QED
        BY <1>1, <2>3, <3>1
    <2>4. QED
      BY <1>6, <2>2, <2>3
  <1>8. ASSUME NEW j \in 1 .. 1 + n, NEW k \in 1 .. 1 + n, j < k
        PROVE  u[j].end <= u[k].at
    <2>1. k # 1 /\ k - 1 \in 1 .. n /\ u[k] = ts[k - 1]
      BY <1>1, <1>6, <1>8
    <2>2. CASE j = 1
      BY <1>1, <1>4, <1>5, <2>1, <2>2 DEF e
    <2>3. CASE j - 1 \in 1 .. n /\ u[j] = ts[j - 1]
      <3>1. j - 1 < k - 1
        BY <1>8
      <3>2. QED
        BY <1>5, <2>1, <2>3, <3>1
    <2>4. QED
      BY <1>6, <2>2, <2>3
  <1>9. ASSUME NEW h \in i .. Len(s)
        PROVE  s[h] \in Space \/ \E k \in 1 .. 1 + n : h \in u[k].at .. u[k].end - 1
    <2>1. CASE h < e
      <3>1. h \in u[1].at .. u[1].end - 1 /\ 1 \in 1 .. 1 + n
        BY <1>1, <1>4, <2>1 DEF e
      <3>2. QED
        BY <3>1
    <2>2. CASE h >= e
      <3>1. s[h] \in Space \/ \E j \in 1 .. n : h \in ts[j].at .. ts[j].end - 1
        BY <1>1, <1>5, <2>2
      <3>2. QED
        BY <1>4, <3>1
    <2>3. QED
      BY <1>1, <2>1, <2>2
  <1>10. QED
    BY <1>3, <1>7, <1>8, <1>9 DEF Covering, u

(* What tokenize makes of the text from i on, when f is what it makes of   *)
(* the text after.                                                         *)
Lexed(s, f, i) ==
    IF i > Len(s) THEN <<>>
    ELSE IF s[i] \in Space THEN f[i + 1]
    ELSE <<lex_token(s, i)>> \o f[lex_token(s, i).end]

(* There is a function that is defined as the one of tokenize is.          *)
LEMMA TokensDefined ==
    ASSUME NEW s \in Seq(Lexeme)
    PROVE  \E f : f = [i \in 1 .. Len(s) + 1 |-> Lexed(s, f, i)]
  <1> DEFINE n == Len(s)
             From(f, b) == f = [i \in b .. n + 1 |-> Lexed(s, f, i)]
             S == {k \in Nat : \E f : From(f, n + 1 - k)}
  <1>1. n \in Nat
    BY LenProperties
  <1>2. 0 \in S
    <2> DEFINE f == [i \in n + 1 .. n + 1 |-> <<>>]
    <2>1. ASSUME NEW i \in n + 1 .. n + 1
          PROVE  f[i] = Lexed(s, f, i)
      <3>1. i > Len(s)
        BY <1>1
      <3>2. QED
        BY <3>1 DEF Lexed
    <2>2. From(f, n + 1)
      BY <2>1
    <2> HIDE DEF f, From
    <2>3. n + 1 - 0 = n + 1
      BY <1>1
    <2>4. QED
      BY <2>2, <2>3
  <1>3. ASSUME NEW k \in 0 .. n - 1, k \in S
        PROVE  k + 1 \in S
    <2> DEFINE b == n - k
    <2>1. b \in 1 .. n /\ n + 1 - k = b + 1 /\ n + 1 - (k + 1) = b
      BY <1>1
    <2>2. PICK f : From(f, b + 1)
      BY <1>3, <2>1
    <2> HIDE DEF b
    <2> DEFINE g == [i \in b .. n + 1 |-> IF i = b THEN Lexed(s, f, b) ELSE f[i]]
    <2>3. ASSUME NEW i \in b .. n + 1
          PROVE  g[i] = Lexed(s, g, i)
      <3>1. \A h \in b + 1 .. n + 1 : g[h] = f[h]
        BY <1>1, <2>1
      <3>2. i <= n /\ s[i] \notin Space => lex_token(s, i).end \in b + 1 .. n + 1
        <4>1. i <= n /\ s[i] \notin Space => i \in 1 .. n /\ TokenAt(lex_token(s, i), i, n)
          BY <1>1, <2>1, LexTokenType
        <4>2. QED
          BY <1>1, <2>1, <4>1 DEF TokenAt
      <3>3. i <= n => i + 1 \in b + 1 .. n + 1
        BY <1>1, <2>1
      <3>4. Lexed(s, g, i) = Lexed(s, f, i)
        <4>1. CASE i > n
          BY <4>1 DEF Lexed
        <4>2. CASE i <= n /\ s[i] \in Space
          <5> HIDE DEF g
          <5>1. g[i + 1] = f[i + 1]
            BY <3>1, <3>3, <4>2
          <5>2. QED
            BY <4>2, <5>1 DEF Lexed
        <4>3. CASE i <= n /\ s[i] \notin Space
          <5> HIDE DEF g
          <5>1. g[lex_token(s, i).end] = f[lex_token(s, i).end]
            BY <3>1, <3>2, <4>3
          <5>2. QED
            BY <4>3, <5>1 DEF Lexed
        <4>4. QED
          BY <1>1, <2>1, <4>1, <4>2, <4>3
      <3>5. CASE i = b
        <4> HIDE DEF From
        <4>1. g[i] = Lexed(s, f, b)
          BY <3>5
        <4>2. QED
          BY <3>4, <3>5, <4>1
      <3>6. CASE i # b
        <4>1. i \in b + 1 .. n + 1
          BY <1>1, <2>1, <3>6
        <4>2. f[i] = Lexed(s, f, i)
          BY <2>2, <4>1
        <4>3. QED
          BY <3>1, <3>4, <4>1, <4>2
      <3>7. QED
        BY <3>5, <3>6
    <2>4. From(g, b)
      BY <2>3
    <2> HIDE DEF g, From
    <2>5. \E h : From(h, n + 1 - (k + 1))
      BY <2>1, <2>4
    <2>6. QED
      BY <1>3, <2>5
  <1>4. n \in S
    <2> HIDE DEF S, n
    <2>1. \A k \in 0 .. n : k \in S
      BY <1>1, <1>2, <1>3, Reached
    <2>2. QED
      BY <1>1, <2>1
  <1>5. \E f : From(f, 1)
    <2> HIDE DEF From
    <2>1. n + 1 - n = 1
      BY <1>1
    <2>2. QED
      BY <1>4, <2>1
  <1>6. QED
    BY <1>5

(* The tokens of a text cover it.                                          *)
LEMMA TokenizeCovers ==
    ASSUME NEW s \in Seq(Lexeme)
    PROVE  Covering(s, 1, tokenize(s))
  <1> DEFINE n == Len(s)
             f == CHOOSE g : g = [i \in 1 .. Len(s) + 1 |-> Lexed(s, g, i)]
             S == {k \in Nat : k <= n /\ \A m \in 0 .. k : Covering(s, n + 1 - m, f[n + 1 - m])}
  <1>1. n \in Nat
    BY LenProperties
  <1>2. f = [i \in 1 .. n + 1 |-> Lexed(s, f, i)]
    BY TokensDefined
  <1>3. tokenize(s) = f[1]
    BY Zenon DEF tokenize, Lexed
  <1> HIDE DEF f
  <1>4. \A i \in 1 .. n + 1 : f[i] = Lexed(s, f, i)
    BY <1>2
  <1>5. 0 \in S
    <2>1. n + 1 \in 1 .. n + 1 /\ n + 1 > Len(s)
      BY <1>1
    <2>2. f[n + 1] = <<>>
      BY <1>4, <2>1 DEF Lexed
    <2>3. Covering(s, n + 1, f[n + 1])
      BY <1>1, <2>2, CoveringEnd
    <2>4. \A m \in 0 .. 0 : n + 1 - m = n + 1
      BY <1>1
    <2>5. QED
      BY <1>1, <2>3, <2>4
  <1>6. ASSUME NEW k \in 0 .. n - 1, k \in S
        PROVE  k + 1 \in S
    <2> DEFINE i == n - k
    <2>1. i \in 1 .. n /\ n + 1 - (k + 1) = i /\ k + 1 <= n /\ k + 1 \in Nat /\ i \in 1 .. n + 1 /\ ~(i > n)
      BY <1>1
    <2>2. \A h \in i + 1 .. n + 1 : Covering(s, h, f[h])
      <3>1. TAKE h \in i + 1 .. n + 1
      <3>2. n + 1 - h \in 0 .. k /\ n + 1 - (n + 1 - h) = h
        BY <1>1
      <3>3. \A m \in 0 .. k : Covering(s, n + 1 - m, f[n + 1 - m])
        BY <1>6
      <3>4. Covering(s, n + 1 - (n + 1 - h), f[n + 1 - (n + 1 - h)])
        <4> HIDE DEF n
        <4> QED
          BY <3>2, <3>3
      <3>5. QED
        BY <3>2, <3>4
    <2> HIDE DEF i
    <2>3. f[i] = Lexed(s, f, i)
      BY <1>4, <2>1
    <2>4. ASSUME s[i] \in Space
          PROVE  Covering(s, i, f[i])
      <3>1. f[i] = f[i + 1] /\ Covering(s, i + 1, f[i + 1])
        BY <1>1, <2>1, <2>2, <2>3, <2>4 DEF Lexed
      <3>2. Covering(s, i, f[i])
        BY <1>1, <2>1, <2>4, <3>1, CoveringSkip
      <3>3. QED
        BY <3>2
    <2>5. ASSUME s[i] \notin Space
          PROVE  Covering(s, i, f[i])
      <3> DEFINE t == lex_token(s, i)
      <3>1. TokenAt(t, i, n)
        BY <2>1, <2>5, LexTokenType
      <3>2. t.end \in i + 1 .. n + 1
        BY <3>1 DEF TokenAt
      <3>3. f[i] = <<t>> \o f[t.end]
        BY <1>1, <2>1, <2>3, <2>5 DEF Lexed
      <3> HIDE DEF t
      <3>4. Covering(s, i, f[i])
        BY <1>1, <2>1, <2>2, <3>1, <3>2, <3>3, CoveringMore
      <3>5. QED
        BY <3>4
    <2>6. Covering(s, i, f[i])
      BY <2>4, <2>5
    <2>7. QED
      BY <1>6, <2>1, <2>6
  <1>7. n \in S
    <2> HIDE DEF S, n
    <2>1. \A k \in 0 .. n : k \in S
      BY <1>1, <1>5, <1>6, Reached
    <2>2. QED
      BY <1>1, <2>1
  <1>8. Covering(s, n + 1 - n, f[n + 1 - n])
    <2>1. n \in 0 .. n
      BY <1>1
    <2> HIDE DEF n
    <2>2. QED
      BY <1>7, <2>1
  <1>9. n + 1 - n = 1
    BY <1>1
  <1>10. QED
    BY <1>3, <1>8, <1>9

-----------------------------------------------------------------------------
(* The reader.                                                             *)

LEMMA ReadingStarts ==
    ASSUME text \in Seq(Lexeme), Unread
    PROVE  IInv /\ TokensCoverText
  <1>1. /\ tokens = tokenize(text) /\ pos = 1 /\ stack = <<Forms("top", 0)>>
        /\ forms = <<>> /\ error = None
    BY DEF Unread
  <1>2. Covering(text, 1, tokens) /\ Len(text) \in Nat /\ DOMAIN text = 1 .. Len(text)
    BY <1>1, TokenizeCovers, LenProperties
  <1>3. TokensTyped
    BY <1>2 DEF TokensTyped, Covering
  <1>4. Len(tokens) \in Nat /\ DOMAIN tokens = 1 .. Len(tokens)
    BY <1>3, TokenKinds
  <1>5. TokensCoverText
    <2>1. /\ \A j \in 1 .. Len(tokens) :
                tokens[j].at \in 1 .. tokens[j].end - 1 /\ tokens[j].end \in 1 .. Len(text) + 1
          /\ \A j, k \in 1 .. Len(tokens) : j < k => tokens[j].end <= tokens[k].at
          /\ \A h \in 1 .. Len(text) : text[h] \in Space
                \/ \E j \in 1 .. Len(tokens) : h \in tokens[j].at .. tokens[j].end - 1
      BY <1>2 DEF Covering
    <2>2. \A j \in DOMAIN tokens : tokens[j].end <= Len(text) + 1
      BY <1>2, <1>4, <2>1
    <2>3. QED
      BY <1>2, <1>4, <2>1, <2>2 DEF TokensCoverText
  <1>6. Standing(stack, 1)
    <2> DEFINE e == Forms("top", 0)
    <2>1. e.frame = "forms" /\ e.open = "top" /\ e.at = 0
          /\ {"frame", "open", "at"} \subseteq DOMAIN e
      BY DEF Forms
    <2>2. FrameTyped(e, 1)
      BY <2>1 DEF FrameTyped
    <2>3. stack = <<e>>
      BY <1>1
    <2> HIDE DEF e
    <2>4. stack \in Seq({e}) /\ stack # <<>> /\ Len(stack) = 1 /\ stack[1] = e
      BY <2>3
    <2>5. FormsAt(stack) = {}
      BY <2>4 DEF FormsAt
    <2>6. Nested(stack, 1)
      BY <2>1, <2>2, <2>4 DEF Nested
    <2>7. Opens(stack) = <<>>
      BY <2>4, <2>5, OpensRange
    <2>8. Unpaired[1 - 1] = <<>>
      BY <1>4, UnpairedDefined
    <2>9. QED
      BY <2>1, <2>4, <2>6, <2>7, <2>8 DEF Standing
  <1>7. BracketsAreMatched
    <2>1. ~Bad(pos - 1)
      BY <1>1, <1>6, StandingNotBad
    <2>2. ~Accepted /\ error.what = "none"
      BY <1>1 DEF Accepted, Reading, None
    <2>3. QED
      BY <2>1, <2>2 DEF BracketsAreMatched
  <1>8. ErrorTyped(error) /\ pos \in 1 .. Len(tokens) + 1
    BY <1>1, <1>4 DEF ErrorTyped, None
  <1>9. QED
    BY <1>1, <1>3, <1>5, <1>6, <1>7, <1>8 DEF IInv

LEMMA StutterKeeps ==
    ASSUME IInv, UNCHANGED readerVars
    PROVE  IInv'
  <1>1. text' = text /\ tokens' = tokens /\ pos' = pos /\ stack' = stack /\ error' = error
    BY DEF readerVars
  <1>2. Unpaired' = Unpaired /\ (TokensTyped' <=> TokensTyped)
    BY <1>1, SameTokens
  <1>3. Standing(stack, pos)' <=> Standing(stack, pos)
    BY <1>1, StandingThen
  <1>4. BracketsAreMatched' <=> BracketsAreMatched
    BY <1>1, <1>2 DEF BracketsAreMatched, Bad, Accepted, Reading
  <1>5. QED
    BY <1>1, <1>2, <1>3, <1>4 DEF IInv, ErrorTyped, Reading

(* Every step keeps the invariant, and brings the reader nearer to the end.*)
LEMMA StepKeeps ==
    ASSUME IInv, [ReadStep]_readerVars
    PROVE  IInv'
  <1>1. CASE read_forms_into
    BY <1>1, FormCalledFor
  <1>2. CASE dispatch
    BY <1>2, FormStarted
  <1>3. CASE require_form
    BY <1>3, FormMissing
  <1>4. CASE read_close
    BY <1>4, BracketClosed
  <1>5. CASE read_end
    BY <1>5, EndReached
  <1>6. CASE UNCHANGED readerVars
    BY <1>6, StutterKeeps
  <1>7. QED
    BY <1>1, <1>2, <1>3, <1>4, <1>5, <1>6 DEF ReadStep

LEMMA StepAdvances ==
    ASSUME IInv, ReadStep
    PROVE  \/ ~Reading'
           \/ pos' > pos
           \/ pos' = pos /\ Top.frame = "forms" /\ Top'.frame # "forms"
  <1>1. CASE read_forms_into
    <2>1. pos' >= pos /\ Top'.frame # "forms" /\ Top.frame = "forms"
      BY <1>1, FormCalledFor DEF Top, Last, read_forms_into
    <2>2. Len(tokens) \in Nat /\ pos \in Nat /\ IInv'
      BY <1>1, FormCalledFor, TokenKinds DEF IInv
    <2>3. pos' \in Int
      BY <1>1, <2>2, TokenKinds DEF IInv, TokensTyped, read_forms_into
    <2>4. QED
      BY <2>1, <2>2, <2>3
  <1>2. CASE dispatch
    BY <1>2, FormStarted
  <1>3. CASE require_form
    BY <1>3, FormMissing
  <1>4. CASE read_close
    BY <1>4, BracketClosed
  <1>5. CASE read_end
    BY <1>5, EndReached
  <1>6. QED
    BY <1>1, <1>2, <1>3, <1>4, <1>5 DEF ReadStep

LEMMA TextIsKept ==
    ASSUME [ReadStep]_readerVars
    PROVE  text' = text /\ tokens' = tokens
  BY DEF ReadStep, readerVars, read_forms_into, dispatch, require_form, read_close, read_end,
         Returned, Fail

(* For every text, reading it keeps the invariant.                         *)
THEOREM IndInv == ReaderSpec => []IInv
  <1>1. text \in Seq(Lexeme) /\ Unread => IInv
    BY ReadingStarts
  <1>2. IInv /\ [ReadStep]_readerVars => IInv'
    BY StepKeeps
  <1>3. QED
    BY <1>1, <1>2, PTL DEF ReaderSpec

(* The frames of the reader nest as its calls do, whatever the text: the   *)
(* stack of calls is one that read_forms_into, dispatch and require_form   *)
(* can build, and positions stay in the text.                              *)
THEOREM TypeCorrect == ReaderSpec => []ReaderTypeOK
  <1>1. text \in Seq(Lexeme) /\ IInv => ReaderTypeOK
    <2>1. SUFFICES ASSUME text \in Seq(Lexeme), IInv
                   PROVE  ReaderTypeOK
      OBVIOUS
    <2>2. CASE stack = <<>>
      <3>1. \A i \in 2 .. Len(stack) : FALSE
        BY <2>2, EmptySeq
      <3>2. QED
        BY <2>1, <2>2, <3>1 DEF ReaderTypeOK, IInv, TokensTyped, ErrorTyped, Reading
    <2>3. CASE stack # <<>>
      <3>1. Nested(stack, pos) /\ error = None
        BY <2>1, <2>3 DEF IInv, Standing, Reading
      <3>2. Len(stack) \in Nat \ {0} /\ Top = stack[Len(stack)]
        BY <3>1, NestedLen DEF Top
      <3>3. /\ stack[1].frame = "forms" /\ stack[1].open = "top"
            /\ \A i \in 1 .. Len(stack) : FrameTyped(stack[i], pos)
        BY <3>1 DEF Nested
      <3>4. Top.frame \in {"forms", "form", "discards", "prefix"}
        BY <3>2, <3>3 DEF FrameTyped
      <3>5. ASSUME NEW i \in 2 .. Len(stack)
            PROVE  /\ stack[i].frame \in {"form", "discards"} <=> stack[i - 1].frame = "forms"
                   /\ stack[i].frame = "forms" =>
                          tokens[stack[i].at].kind = "open" /\ tokens[stack[i].at].v = <<stack[i].open>>
                   /\ stack[i].frame = "discards" =>
                          stack[i].marks # {} /\ stack[i].marks \subseteq MarksAt \cap 1 .. pos - 1
                   /\ stack[i].frame \in {"forms", "prefix"} => stack[i].at \in 1 .. pos - 1
        <4>1. FrameTyped(stack[i], pos)
          BY <3>2, <3>3
        <4>2. QED
          BY <3>1, <4>1 DEF Nested, FrameTyped
      <3>6. QED
        BY <2>1, <3>1, <3>3, <3>4, <3>5 DEF ReaderTypeOK, IInv, TokensTyped, ErrorTyped
    <2>4. QED
      BY <2>2, <2>3
  <1>2. text \in Seq(Lexeme) /\ [ReadStep]_readerVars => (text \in Seq(Lexeme))'
    BY TextIsKept
  <1>3. QED
    BY <1>1, <1>2, IndInv, PTL DEF ReaderSpec

(* Whatever the text: the reader stops at the first closing bracket that   *)
(* has no partner, or at a bracket that a prefix lacks a form by, blames   *)
(* the innermost bracket that is left open, and accepts only what is       *)
(* balanced.                                                               *)
THEOREM BracketsMatched == ReaderSpec => []BracketsAreMatched
  <1>1. IInv => BracketsAreMatched
    BY DEF IInv
  <1>2. QED
    BY <1>1, IndInv, PTL

(* The tokens of a text, whatever it is, are in its order and cover it but *)
(* for its spaces, and the reader does not change them.                    *)
THEOREM TextCovered == ReaderSpec => []TokensCoverText
  <1>1. text \in Seq(Lexeme) /\ Unread => TokensCoverText
    BY ReadingStarts
  <1>2. TokensCoverText /\ [ReadStep]_readerVars => TokensCoverText'
    BY TextIsKept DEF TokensCoverText
  <1>3. QED
    BY <1>1, <1>2, PTL DEF ReaderSpec

(* Every step of the reader takes tokens, or turns from a sequence of      *)
(* forms to the next form in it, or is its last: the loops of reader.rs    *)
(* end, and its recursion never re-enters where it is.                     *)
THEOREM Advances == ReaderSpec => ReadingAdvances
  <1>1. IInv /\ ReadStep =>
            \/ ~Reading'
            \/ pos' > pos
            \/ pos' = pos /\ Top.frame = "forms" /\ Top'.frame # "forms"
    BY StepAdvances
  <1>2. IInv /\ [ReadStep]_readerVars =>
            [\/ ~Reading'
             \/ pos' > pos
             \/ pos' = pos /\ Top.frame = "forms" /\ Top'.frame # "forms"]_readerVars
    BY <1>1
  <1>3. QED
    BY <1>2, IndInv, PTL DEF ReaderSpec, ReadingAdvances
===============================================================================
