-------------------------- MODULE ExprFactory_proofs --------------------------
(***************************************************************************)
(* Proofs about ExprFactory, for every set of nodes and every well-formed  *)
(* graph over them, shared nodes and any depth included.                   *)
(***************************************************************************)
EXTENDS ExprFactory, SequenceTheorems, FiniteSetTheorems, TLAPS

-----------------------------------------------------------------------------
(* Facts about sequences.                                                  *)
LEMMA FrontFacts ==
  ASSUME NEW S, NEW s \in Seq(S), s # <<>>
  PROVE  /\ Front(s) \in Seq(S)
         /\ Len(s) \in Nat \ {0}
         /\ Len(Front(s)) = Len(s) - 1
         /\ \A i \in 1..(Len(s) - 1) : Front(s)[i] = s[i]
<1>1. Len(s) \in Nat \ {0}
  BY EmptySeq
<1>2. \A i \in 1..(Len(s) - 1) : s[i] \in S
  BY <1>1, ElementOfSeq
<1> DEFINE m == Len(s) - 1
<1>3. m \in Int /\ 1 \in Int /\ m - 1 + 1 = m
  BY <1>1
<1>4. /\ SubSeq(s, 1, m) \in Seq(S)
      /\ Len(SubSeq(s, 1, m)) = IF 1 <= m THEN m - 1 + 1 ELSE 0
      /\ \A i \in 1..(m - 1 + 1) : SubSeq(s, 1, m)[i] = s[1 + i - 1]
  <2> HIDE DEF m
  <2>1. \A i \in 1..m : s[i] \in S
    BY <1>2 DEF m
  <2>2. QED
    BY <1>3, <2>1, SubSeqProperties
<1>5. QED
  BY <1>1, <1>3, <1>4 DEF Front

LEMMA ConcatAfter ==
  \A s, t, u \in Seq(Node) : (s \o t) \o u = s \o (t \o u)
BY ConcatAssociative

LEMMA AppendAfter ==
  \A s, t \in Seq(Node), x \in Node : Append(s \o t, x) = s \o Append(t, x)
<1> SUFFICES ASSUME NEW s \in Seq(Node), NEW t \in Seq(Node), NEW x \in Node
             PROVE  Append(s \o t, x) = s \o Append(t, x)
  OBVIOUS
<1>1. Append(s \o t, x) = (s \o t) \o <<x>>
  BY ConcatProperties, AppendIsConcat
<1>2. Append(t, x) = t \o <<x>>
  BY AppendIsConcat
<1>3. <<x>> \in Seq(Node)
  OBVIOUS
<1>4. QED
  BY <1>1, <1>2, <1>3, ConcatAssociative

(* A prefix, and the prefix that is one longer.                            *)
LEMMA PrefixFacts ==
  ASSUME NEW s \in Seq(Node), NEW k \in Nat, k <= Len(s)
  PROVE  /\ SubSeq(s, 1, k) \in Seq(Node)
         /\ k < Len(s) => /\ s[k + 1] \in Node
                          /\ SubSeq(s, 1, k + 1) = Append(SubSeq(s, 1, k), s[k + 1])
<1>1. Len(s) \in Nat /\ \A j \in 1..Len(s) : s[j] \in Node
  BY ElementOfSeq
<1>2. SubSeq(s, 1, k) \in Seq(Node)
  BY <1>1, SubSeqProperties
<1>3. ASSUME k < Len(s)
      PROVE  SubSeq(s, 1, k + 1) = Append(SubSeq(s, 1, k), s[k + 1])
  <2>1. 1 \in 1..Len(s) /\ k + 1 \in 1..Len(s) /\ k + 1 - 1 = k
    BY <1>1, <1>3
  <2>2. SubSeq(s, 1, k + 1) = SubSeq(s, 1, k + 1 - 1) \o << s[k + 1] >>
    BY <2>1, SubSeqRecursiveSecond
  <2>3. Append(SubSeq(s, 1, k), s[k + 1]) = SubSeq(s, 1, k) \o << s[k + 1] >>
    BY <1>1, <1>2, <2>1, AppendIsConcat
  <2>4. QED
    BY <2>1, <2>2, <2>3
<1>4. QED
  BY <1>1, <1>2, <1>3

(* A set of numbers that is not empty has a smallest.                      *)
LEMMA LeastNumber ==
  ASSUME NEW A \in SUBSET Nat, A # {}
  PROVE  \E least \in A : \A k \in A : least <= k
<1> DEFINE Below(n) == {k \in Nat : k < n}
           Belows   == {Below(n) : n \in A}
           R        == StrictSubsetOrdering(Nat)
<1>1. \A n \in Nat : Below(n) \in FiniteSubsetsOf(Nat)
  <2>1. SUFFICES ASSUME NEW n \in Nat PROVE IsFiniteSet(Below(n))
    BY DEF FiniteSubsetsOf
  <2>2. Below(n) \in SUBSET Nat /\ \A s \in Below(n) : s <= n
    OBVIOUS
  <2> HIDE DEF Below
  <2>3. QED
    BY <2>2, FS_BoundedSetOfNaturals
<1>2. Belows \subseteq FiniteSubsetsOf(Nat) /\ Belows # {}
  BY <1>1
<1>3. PICK x \in Belows : \A y \in Belows : <<y, x>> \notin R
  <2> HIDE DEF Belows, R
  <2>1. IsWellFoundedOn(R, FiniteSubsetsOf(Nat))
    BY FS_StrictSubsetOrderingWellFounded DEF R
  <2>2. QED
    BY <1>2, <2>1, WFMin
<1>4. PICK least \in A : x = Below(least)
  BY <1>3
<1>5. ASSUME NEW k \in A, k < least PROVE FALSE
  <2>1. Below(k) \subseteq Below(least) /\ k \in Below(least) /\ k \notin Below(k)
    BY <1>5
  <2>2. Below(k) \in SUBSET Nat /\ Below(least) \in SUBSET Nat
    OBVIOUS
  <2>3. <<Below(k), Below(least)>> \in R
    <3> HIDE DEF Below
    <3>1. QED
      BY <2>1, <2>2 DEF StrictSubsetOrdering
  <2>4. QED
    BY <1>3, <1>4, <2>3
<1>6. QED
  BY <1>5

-----------------------------------------------------------------------------
(* The first len of the parts, one after the other, are s.                 *)
Extends(f, parts, k) == f[k] = f[k - 1] \o parts[k]

Flattens(parts, len, s) ==
  \E f \in [0..len -> Seq(Node)] :
     /\ f[0] = <<>> /\ f[len] = s
     /\ \A k \in 1..len : Extends(f, parts, k)

LEMMA FlattenNone ==
  ASSUME NEW parts
  PROVE  Flattens(parts, 0, <<>>)
<1> DEFINE f == [i \in 0..0 |-> <<>>]
<1>1. f \in [0..0 -> Seq(Node)] /\ f[0] = <<>>
  BY EmptySeq
<1>2. 1..0 = {}
  OBVIOUS
<1> HIDE DEF f
<1>3. QED
  BY <1>1, <1>2 DEF Flattens

LEMMA FlattenShorter ==
  ASSUME NEW parts, NEW len \in Nat, len > 0, NEW s, Flattens(parts, len, s)
  PROVE  \E front \in Seq(Node) :
            Flattens(parts, len - 1, front) /\ s = front \o parts[len]
<1>1. PICK f \in [0..len -> Seq(Node)] :
        /\ f[0] = <<>> /\ f[len] = s
        /\ \A i \in 1..len : Extends(f, parts, i)
  BY DEF Flattens
<1> DEFINE g == [i \in 0..(len - 1) |-> f[i]]
<1>2. /\ g \in [0..(len - 1) -> Seq(Node)]
      /\ g[0] = <<>>
      /\ g[len - 1] = f[len - 1]
      /\ \A i \in 0..(len - 1) : g[i] = f[i]
  BY <1>1
<1> HIDE DEF g
<1>3. ASSUME NEW i \in 1..(len - 1) PROVE Extends(g, parts, i)
  <2>1. Extends(f, parts, i) /\ g[i] = f[i] /\ g[i - 1] = f[i - 1]
    BY <1>1, <1>2
  <2>2. QED
    BY <2>1 DEF Extends
<1>4. Flattens(parts, len - 1, f[len - 1])
  BY <1>2, <1>3 DEF Flattens
<1>5. Extends(f, parts, len)
  BY <1>1
<1>6. f[len - 1] \in Seq(Node)
  BY <1>1
<1>7. s = f[len - 1] \o parts[len]
  BY <1>1, <1>5 DEF Extends
<1>8. QED
  BY <1>4, <1>6, <1>7

LEMMA FlattenLonger ==
  ASSUME NEW parts, NEW more, NEW len \in Nat, NEW s, Flattens(parts, len, s),
         \A i \in 1..len : more[i] = parts[i], more[len + 1] \in Seq(Node)
  PROVE  Flattens(more, len + 1, s \o more[len + 1])
<1>1. PICK f \in [0..len -> Seq(Node)] :
        /\ f[0] = <<>> /\ f[len] = s
        /\ \A i \in 1..len : Extends(f, parts, i)
  BY DEF Flattens
<1> DEFINE longer == s \o more[len + 1]
           g == [i \in 0..(len + 1) |-> IF i = len + 1 THEN longer ELSE f[i]]
<1>2. longer \in Seq(Node)
  BY <1>1, ConcatProperties
<1> HIDE DEF longer
<1>3. /\ g \in [0..(len + 1) -> Seq(Node)]
      /\ g[0] = <<>>
      /\ g[len + 1] = longer
      /\ \A i \in 0..len : g[i] = f[i]
  BY <1>1, <1>2
<1> HIDE DEF g
<1>4. ASSUME NEW i \in 1..(len + 1) PROVE Extends(g, more, i)
  <2>1. CASE i = len + 1
    <3>1. g[i - 1] = s /\ g[i] = longer
      BY <1>1, <1>3, <2>1
    <3>2. QED
      BY <2>1, <3>1 DEF Extends, longer
  <2>2. CASE i # len + 1
    <3>1. i \in 1..len
      BY <2>2
    <3>2. g[i] = f[i] /\ g[i - 1] = f[i - 1] /\ Extends(f, parts, i) /\ more[i] = parts[i]
      BY <1>1, <1>3, <3>1
    <3>3. QED
      BY <3>2 DEF Extends
  <2>3. QED
    BY <2>1, <2>2
<1>5. Flattens(more, len + 1, longer)
  BY <1>3, <1>4 DEF Flattens
<1>6. QED
  BY <1>5 DEF longer

LEMMA FlattenEmpty ==
  ASSUME NEW parts, parts[1] = <<>>
  PROVE  Flattens(parts, 1, <<>>)
<1>1. PICK zero \in Nat : zero = 0
  OBVIOUS
<1>2. /\ Flattens(parts, zero, <<>>) /\ parts[zero + 1] = <<>>
      /\ zero + 1 = 1 /\ 1..zero = {} /\ <<>> \in Seq(Node)
  BY <1>1, FlattenNone, EmptySeq
<1>3. parts[zero + 1] \in Seq(Node)
  BY <1>2
<1>4. Flattens(parts, zero + 1, <<>> \o parts[zero + 1])
  BY <1>2, <1>3, FlattenLonger
<1>5. <<>> \o <<>> = <<>>
  OBVIOUS
<1>6. QED
  BY <1>2, <1>4, <1>5

(* The library's concatenation of a sequence of sequences is what it says. *)
LEMMA FlattenSeqIs ==
  ASSUME NEW parts \in Seq(Seq(Node)), parts # <<>>, NEW s, Flattens(parts, Len(parts), s)
  PROVE  FlattenSeq(parts) = s
<1> DEFINE len == Len(parts)
           Eq(g, k) == g[k] = IF k = 1 THEN parts[k] ELSE g[k - 1] \o parts[k]
           Solves(g) == g = [k \in 1..len |->
                               IF k = 1 THEN parts[k] ELSE g[k - 1] \o parts[k]]
<1>1. len \in Nat \ {0}
  BY EmptySeq
<1>2. PICK f \in [0..len -> Seq(Node)] :
        /\ f[0] = <<>> /\ f[len] = s
        /\ \A k \in 1..len : Extends(f, parts, k)
  BY DEF Flattens
<1>3. FlattenSeq(parts) = (CHOOSE g : Solves(g))[len]
  BY <1>1 DEF FlattenSeq
<1> DEFINE h == [k \in 1..len |-> f[k]]
<1>4. f[1] = parts[1]
  <2>1. Extends(f, parts, 1) /\ parts[1] \in Seq(Node)
    BY <1>1, <1>2, ElementOfSeq
  <2>2. f[1] = <<>> \o parts[1]
    <3>1. f[1 - 1] = <<>> /\ f[1] = f[1 - 1] \o parts[1]
      <4>1. 1 - 1 = 0
        OBVIOUS
      <4>2. f[1 - 1] = <<>>
        BY <1>2, <4>1, Zenon
      <4>3. QED
        BY <2>1, <4>2 DEF Extends
    <3>2. QED
      BY <3>1
  <2>3. <<>> \o parts[1] = parts[1]
    BY <2>1, ConcatEmptySeq
  <2>4. QED
    BY <2>2, <2>3
<1>5. Solves(h)
  <2>1. SUFFICES ASSUME NEW k \in 1..len
                 PROVE  f[k] = IF k = 1 THEN parts[k] ELSE h[k - 1] \o parts[k]
    OBVIOUS
  <2>2. Extends(f, parts, k)
    BY <1>2
  <2>3. CASE k = 1
    BY <1>4, <2>3
  <2>4. CASE k # 1
    <3>1. h[k - 1] = f[k - 1]
      BY <1>1, <2>4
    <3>2. QED
      BY <2>2, <2>4, <3>1 DEF Extends
  <2>5. QED
    BY <2>3, <2>4
<1>6. ASSUME NEW g, Solves(g) PROVE \A k \in 1..len : g[k] = f[k]
  <2>1. \A k \in 1..len : Eq(g, k)
    BY <1>6
  <2> HIDE DEF Solves
  <2> DEFINE Bad == {k \in 1..len : g[k] # f[k]}
  <2>2. SUFFICES ASSUME Bad # {} PROVE FALSE
    OBVIOUS
  <2>3. PICK k \in Bad : \A l \in Bad : k <= l
    <3>1. Bad \in SUBSET Nat
      BY <1>1
    <3> HIDE DEF Bad
    <3>2. QED
      BY <2>2, <3>1, LeastNumber
  <2>4. k \in 1..len /\ g[k] # f[k]
    BY <2>3
  <2>5. CASE k = 1
    BY <1>4, <2>1, <2>4, <2>5
  <2>6. CASE k # 1
    <3>1. k - 1 \in 1..len /\ ~(k <= k - 1)
      BY <1>1, <2>4, <2>6
    <3>2. g[k - 1] = f[k - 1]
      BY <2>3, <3>1
    <3>3. Extends(f, parts, k)
      BY <1>2, <2>4
    <3>4. QED
      BY <2>1, <2>4, <2>6, <3>2, <3>3 DEF Extends
  <2>7. QED
    BY <2>5, <2>6
<1>7. Solves(CHOOSE g : Solves(g))
  <2> HIDE DEF Solves
  <2>1. QED
    BY <1>5
<1>8. (CHOOSE g : Solves(g))[len] = f[len]
  <2> HIDE DEF Solves
  <2>1. QED
    BY <1>1, <1>6, <1>7
<1>9. QED
  BY <1>2, <1>3, <1>8

-----------------------------------------------------------------------------
(* What the state's types say of its elements.                             *)
Visits(r)    == [obj : Node, ref : 0..r]
Nodes(r, n)  == [obj : Node, ref : 0..r, args : Seq(1..n)]

LEMMA NodeFacts ==
  ASSUME WellFormed(tree), NEW n \in Node
  PROVE  /\ tree.args[n] \in Seq(Node)
         /\ tree.kind[n] \in TerminalKind => tree.args[n] = <<>>
         /\ tree.kind[n] \notin TerminalKind => Len(tree.args[n]) \in 1..2
<1>1. /\ tree.args[n] \in Seq(Node)
      /\ tree.kind[n] \in Kind
      /\ Len(tree.args[n]) = NArgs(tree.kind[n])
  BY DEF WellFormed, TreeShape
<1>2. tree.kind[n] \in TerminalKind => NArgs(tree.kind[n]) = 0
  BY DEF NArgs
<1>3. tree.kind[n] \notin TerminalKind => NArgs(tree.kind[n]) \in 1..2
  BY DEF NArgs
<1>4. tree.kind[n] \in TerminalKind => tree.args[n] = <<>>
  BY <1>1, <1>2, EmptySeq
<1>5. QED
  BY <1>1, <1>3, <1>4

LEMMA TypeFacts ==
  ASSUME TypeOK
  PROVE  /\ workJexprs \in Seq(Visits(lastRef)) /\ Len(workJexprs) \in Nat
         /\ \A k \in 1..Len(workJexprs) :
              workJexprs[k].obj \in Node /\ workJexprs[k].ref \in 0..lastRef
         /\ argPos \in Seq(Nat) /\ Len(argPos) = Len(workJexprs)
         /\ \A k \in 1..Len(workJexprs) : argPos[k] \in Nat
         /\ built \in Seq(Nodes(lastRef, Len(built))) /\ Len(built) \in Nat
         /\ \A t \in 1..Len(built) :
              /\ built[t].obj \in Node /\ built[t].ref \in 0..lastRef
              /\ built[t].args \in Seq(1..Len(built))
         /\ exprStack \in Seq(1..Len(built)) /\ Len(exprStack) \in Nat
         /\ \A k \in 1..Len(exprStack) : exprStack[k] \in 1..Len(built)
<1>1. workJexprs \in Seq(Visits(lastRef)) /\ built \in Seq(Nodes(lastRef, Len(built)))
  BY DEF TypeOK, Visits, Nodes
<1>2. /\ \A k \in 1..Len(workJexprs) : workJexprs[k] \in Visits(lastRef)
      /\ \A t \in 1..Len(built) : built[t] \in Nodes(lastRef, Len(built))
  BY <1>1, ElementOfSeq
<1>3. \A k \in 1..Len(workJexprs) :
         workJexprs[k].obj \in Node /\ workJexprs[k].ref \in 0..lastRef
  BY <1>2 DEF Visits
<1>4. \A t \in 1..Len(built) :
         /\ built[t].obj \in Node /\ built[t].ref \in 0..lastRef
         /\ built[t].args \in Seq(1..Len(built))
  BY <1>2 DEF Nodes
<1>5. /\ argPos \in Seq(Nat) /\ Len(argPos) = Len(workJexprs)
      /\ exprStack \in Seq(1..Len(built))
  BY DEF TypeOK
<1>6. /\ \A k \in 1..Len(workJexprs) : argPos[k] \in Nat
      /\ \A k \in 1..Len(exprStack) : exprStack[k] \in 1..Len(built)
  BY <1>5, ElementOfSeq
<1>7. Len(workJexprs) \in Nat /\ Len(built) \in Nat /\ Len(exprStack) \in Nat
  BY <1>1, <1>5, LenProperties
<1>8. QED
  BY <1>1, <1>3, <1>4, <1>5, <1>6, <1>7

(* Later references and more nodes take nothing out of the types.          *)
LEMMA TypesGrow ==
  ASSUME NEW r \in Nat, NEW q \in Nat, r <= q, NEW n \in Nat, NEW m \in Nat, n <= m
  PROVE  Visits(r) \subseteq Visits(q) /\ Nodes(r, n) \subseteq Nodes(q, m)
<1>1. 0..r \subseteq 0..q /\ 1..n \subseteq 1..m
  OBVIOUS
<1>2. \A s \in Seq(1..n) : s \in Seq(1..m)
  BY <1>1, SeqMonotonic
<1>3. QED
  BY <1>1, <1>2 DEF Visits, Nodes

-----------------------------------------------------------------------------
(* What the three kinds of change do: a finished object leaves the path, a *)
(* node is made, an argument is gone down to.                              *)
LEMMA PopFacts ==
  ASSUME TypeOK, workJexprs # <<>>, Pop
  PROVE  /\ Len(workJexprs) \in Nat \ {0}
         /\ Current = workJexprs[Len(workJexprs)]
         /\ Last(argPos) = argPos[Len(workJexprs)]
         /\ workJexprs' \in Seq(Visits(lastRef))
         /\ Len(workJexprs') = Len(workJexprs) - 1
         /\ argPos' \in Seq(Nat) /\ Len(argPos') = Len(workJexprs) - 1
         /\ \A k \in 1..(Len(workJexprs) - 1) :
              workJexprs'[k] = workJexprs[k] /\ argPos'[k] = argPos[k]
<1>1. /\ workJexprs \in Seq(Visits(lastRef)) /\ Len(workJexprs) \in Nat
      /\ argPos \in Seq(Nat) /\ Len(argPos) = Len(workJexprs)
  BY TypeFacts
<1>2. Len(workJexprs) \in Nat \ {0} /\ argPos # <<>>
  BY <1>1, EmptySeq
<1>3. /\ workJexprs' = Front(workJexprs) /\ argPos' = Front(argPos)
  BY DEF Pop
<1>4. /\ workJexprs' \in Seq(Visits(lastRef))
      /\ Len(workJexprs') = Len(workJexprs) - 1
      /\ \A k \in 1..(Len(workJexprs) - 1) : workJexprs'[k] = workJexprs[k]
  BY <1>1, <1>3, FrontFacts
<1>5. /\ argPos' \in Seq(Nat) /\ Len(argPos') = Len(argPos) - 1
      /\ \A k \in 1..(Len(argPos) - 1) : argPos'[k] = argPos[k]
  BY <1>1, <1>2, <1>3, FrontFacts
<1>6. QED
  BY <1>1, <1>2, <1>4, <1>5 DEF Current, Last

LEMMA MakeFacts ==
  ASSUME TypeOK, NEW node \in Nodes(lastRef, Len(built)),
         NEW waiting \in Seq(1..Len(built)), Make(node, waiting)
  PROVE  /\ Len(built) \in Nat /\ Len(waiting) \in Nat
         /\ built' \in Seq(Nodes(lastRef, Len(built')))
         /\ Len(built') = Len(built) + 1
         /\ built'[Len(built) + 1] = node
         /\ \A t \in 1..Len(built) : built'[t] = built[t]
         /\ exprStack' \in Seq(1..Len(built'))
         /\ Len(exprStack') = Len(waiting) + 1
         /\ exprStack'[Len(waiting) + 1] = Len(built) + 1
         /\ \A k \in 1..Len(waiting) : exprStack'[k] = waiting[k]
<1>1. /\ built \in Seq(Nodes(lastRef, Len(built))) /\ Len(built) \in Nat
      /\ lastRef \in Nat
  BY TypeFacts DEF TypeOK
<1>2. /\ built' = Append(built, node)
      /\ exprStack' = Append(waiting, Len(built'))
  BY DEF Make
<1>3. /\ built' \in Seq(Nodes(lastRef, Len(built)))
      /\ Len(built') = Len(built) + 1
      /\ built'[Len(built) + 1] = node
      /\ \A t \in 1..Len(built) : built'[t] = built[t]
  BY <1>1, <1>2, AppendProperties
<1>4. built' \in Seq(Nodes(lastRef, Len(built')))
  <2>1. Nodes(lastRef, Len(built)) \subseteq Nodes(lastRef, Len(built'))
    BY <1>1, <1>3, TypesGrow
  <2>2. QED
    BY <1>3, <2>1, SeqMonotonic
<1>5. waiting \in Seq(1..Len(built')) /\ Len(built') \in 1..Len(built')
  <2>1. 1..Len(built) \subseteq 1..Len(built')
    BY <1>1, <1>3
  <2>2. QED
    BY <1>1, <1>3, <2>1, SeqMonotonic
<1>6. /\ exprStack' \in Seq(1..Len(built'))
      /\ Len(exprStack') = Len(waiting) + 1
      /\ exprStack'[Len(waiting) + 1] = Len(built')
      /\ \A k \in 1..Len(waiting) : exprStack'[k] = waiting[k]
  BY <1>2, <1>5, AppendProperties
<1>7. Len(waiting) \in Nat
  BY LenProperties
<1>8. QED
  BY <1>1, <1>3, <1>4, <1>6, <1>7

LEMMA CurrentFacts ==
  ASSUME TypeOK, workJexprs # <<>>
  PROVE  /\ Len(workJexprs) \in Nat \ {0}
         /\ Current = workJexprs[Len(workJexprs)]
         /\ Last(argPos) = argPos[Len(workJexprs)] /\ Last(argPos) \in Nat
         /\ Current.obj \in Node /\ Current.ref \in 0..lastRef
         /\ Args \in Seq(Node) /\ Len(Args) \in Nat
         /\ AtTerminal => Args = <<>>
         /\ ~AtTerminal => Len(Args) \in 1..2
<1>1. Len(workJexprs) \in Nat \ {0} /\ Len(argPos) = Len(workJexprs)
  BY TypeFacts, EmptySeq
<1>2. Current = workJexprs[Len(workJexprs)] /\ Last(argPos) = argPos[Len(workJexprs)]
  BY <1>1 DEF Current, Last
<1>3. Last(argPos) \in Nat /\ Current.obj \in Node /\ Current.ref \in 0..lastRef
  BY <1>1, <1>2, TypeFacts
<1>4. WellFormed(tree)
  BY DEF TypeOK
<1>5. Args \in Seq(Node) /\ (AtTerminal => Args = <<>>)
      /\ (~AtTerminal => Len(Args) \in 1..2)
  BY <1>3, <1>4, NodeFacts DEF Args, AtTerminal
<1>6. Len(Args) \in Nat
  BY <1>5, LenProperties
<1>7. QED
  BY <1>1, <1>2, <1>3, <1>5, <1>6

(* What is pushed is on top, and nothing else changes.                     *)
LEMMA PushFacts ==
  ASSUME NEW S, NEW w \in Seq(S), NEW e \in S
  PROVE  /\ Append(w, e) \in Seq(S)
         /\ Append(w, e) # <<>>
         /\ Len(Append(w, e)) = Len(w) + 1
         /\ \A k \in 1..Len(w) : Append(w, e)[k] = w[k]
         /\ Append(w, e)[Len(w) + 1] = e
<1>1. Append(w, e) \in Seq(S) /\ Len(Append(w, e)) = Len(w) + 1 /\ Append(w, e) # <<>>
  BY AppendProperties
<1>2. \A k \in 1..Len(w) : Append(w, e)[k] = w[k]
  BY AppendProperties
<1>3. Append(w, e)[Len(w) + 1] = e
  BY AppendProperties
<1>4. QED
  BY <1>1, <1>2, <1>3

LEMMA DownFacts ==
  ASSUME TypeOK, workJexprs # <<>>, ~AtTerminal, NEW pos \in Nat, pos < Len(Args),
         NEW positions \in Seq(Nat), Len(positions) = Len(argPos),
         Down(pos, positions)
  PROVE  /\ TypeOK' /\ Len(workJexprs) \in Nat \ {0}
         /\ workJexprs' # <<>>
         /\ Len(workJexprs') = Len(workJexprs) + 1
         /\ \A k \in 1..Len(workJexprs) :
              workJexprs'[k] = workJexprs[k] /\ argPos'[k] = positions[k]
         /\ workJexprs'[Len(workJexprs) + 1] = Visit(Args[pos + 1], lastRef')
         /\ argPos'[Len(workJexprs) + 1] = 0
         /\ Len(argPos') = Len(workJexprs) + 1
<1>1. /\ lastRef' = lastRef + 1
      /\ live' = live \cup {lastRef'}
      /\ workJexprs' = Append(workJexprs, Visit(Args[pos + 1], lastRef'))
      /\ argPos' = Append(positions, 0)
      /\ dir' = "DOWN"
      /\ UNCHANGED <<tree, built, exprStack, outcome>>
  BY DEF Down
<1>2. /\ workJexprs \in Seq(Visits(lastRef)) /\ Len(workJexprs) \in Nat \ {0}
      /\ Len(argPos) = Len(workJexprs)
      /\ lastRef \in Nat /\ lastRef' \in Nat /\ lastRef <= lastRef'
      /\ Len(built) \in Nat /\ built \in Seq(Nodes(lastRef, Len(built)))
  <2>1. lastRef \in Nat
    BY DEF TypeOK
  <2>2. QED
    BY <1>1, <2>1, TypeFacts, CurrentFacts
<1>3. Args[pos + 1] \in Node
  <2>1. pos + 1 \in 1..Len(Args)
    BY CurrentFacts
  <2>2. QED
    BY <2>1, CurrentFacts, ElementOfSeq
<1>4. Visit(Args[pos + 1], lastRef') \in Visits(lastRef')
  BY <1>2, <1>3 DEF Visit, Visits
<1>5. workJexprs \in Seq(Visits(lastRef'))
  BY <1>2, TypesGrow, SeqMonotonic
<1>6. built \in Seq(Nodes(lastRef', Len(built)))
  BY <1>2, TypesGrow, SeqMonotonic
<1>7. /\ workJexprs' \in Seq(Visits(lastRef'))
      /\ workJexprs' # <<>>
      /\ Len(workJexprs') = Len(workJexprs) + 1
      /\ \A k \in 1..Len(workJexprs) : workJexprs'[k] = workJexprs[k]
      /\ workJexprs'[Len(workJexprs) + 1] = Visit(Args[pos + 1], lastRef')
  <2> DEFINE e == Visit(Args[pos + 1], lastRef')
             V == Visits(lastRef')
  <2>1. e \in V /\ workJexprs \in Seq(V) /\ workJexprs' = Append(workJexprs, e)
    BY <1>1, <1>4, <1>5
  <2>2. /\ Append(workJexprs, e) \in Seq(V) /\ Append(workJexprs, e) # <<>>
        /\ Len(Append(workJexprs, e)) = Len(workJexprs) + 1
        /\ \A k \in 1..Len(workJexprs) : Append(workJexprs, e)[k] = workJexprs[k]
        /\ Append(workJexprs, e)[Len(workJexprs) + 1] = e
    <3> HIDE DEF e, V
    <3>1. QED
      BY <2>1, PushFacts
  <2>3. QED
    BY <2>1, <2>2
<1>8. /\ argPos' \in Seq(Nat)
      /\ Len(argPos') = Len(workJexprs) + 1
      /\ \A k \in 1..Len(workJexprs) : argPos'[k] = positions[k]
      /\ argPos'[Len(workJexprs) + 1] = 0
  BY <1>1, <1>2, PushFacts
<1>9. live' \subseteq 0..lastRef'
  BY <1>1, <1>2 DEF TypeOK
<1>10. TypeOK'
  BY <1>1, <1>2, <1>6, <1>7, <1>8, <1>9 DEF TypeOK, Visits, Nodes
<1>11. QED
  BY <1>2, <1>7, <1>8, <1>10

(* The objects visited stay a path.                                        *)
LEMMA PopKeepsPath ==
  ASSUME TypeOK, VisitsArePath, workJexprs # <<>>, Pop, tree' = tree, dir' = "UP"
  PROVE  VisitsArePath' /\ TopIsConsistent'
<1> DEFINE len == Len(workJexprs)
<1>1. /\ len \in Nat \ {0}
      /\ workJexprs' \in Seq(Visits(lastRef))
      /\ Len(workJexprs') = len - 1
      /\ Len(argPos') = len - 1
      /\ \A k \in 1..(len - 1) :
           workJexprs'[k] = workJexprs[k] /\ argPos'[k] = argPos[k]
  BY PopFacts
<1>2. VisitsArePath'
  <2>1. SUFFICES ASSUME NEW k \in 1..(len - 2)
                 PROVE  /\ tree.kind[workJexprs'[k].obj] \notin TerminalKind
                        /\ argPos'[k] < Len(tree.args[workJexprs'[k].obj])
                        /\ workJexprs'[k + 1].obj =
                             tree.args[workJexprs'[k].obj][argPos'[k] + 1]
    BY <1>1 DEF VisitsArePath
  <2>2. k \in 1..(len - 1) /\ k + 1 \in 1..(len - 1)
    BY <1>1
  <2>3. /\ workJexprs'[k] = workJexprs[k] /\ workJexprs'[k + 1] = workJexprs[k + 1]
        /\ argPos'[k] = argPos[k]
    BY <1>1, <2>2
  <2>4. QED
    BY <2>2, <2>3 DEF VisitsArePath
<1>3. TopIsConsistent'
  <2>1. SUFFICES ASSUME workJexprs' # <<>>
                 PROVE  /\ ~AtTerminal'
                        /\ (Last(argPos) < Len(Args))'
    BY DEF TopIsConsistent
  <2>2. len - 1 \in 1..(len - 1)
    BY <1>1, <2>1, EmptySeq
  <2>3. Current' = workJexprs[len - 1] /\ Last(argPos)' = argPos[len - 1]
    BY <1>1, <2>2 DEF Current, Last
  <2>4. /\ tree.kind[workJexprs[len - 1].obj] \notin TerminalKind
        /\ argPos[len - 1] < Len(tree.args[workJexprs[len - 1].obj])
    BY <2>2 DEF VisitsArePath
  <2>5. QED
    BY <2>3, <2>4 DEF AtTerminal, Args
<1>4. QED
  BY <1>2, <1>3

LEMMA DownKeepsPath ==
  ASSUME TypeOK, VisitsArePath, workJexprs # <<>>, ~AtTerminal,
         NEW pos \in Nat, pos < Len(Args),
         NEW positions \in Seq(Nat), Len(positions) = Len(argPos),
         \A k \in 1..(Len(workJexprs) - 1) : positions[k] = argPos[k],
         positions[Len(workJexprs)] = pos,
         Down(pos, positions)
  PROVE  VisitsArePath' /\ TopIsConsistent'
<1> DEFINE len == Len(workJexprs)
<1>1. /\ len \in Nat \ {0}
      /\ Len(workJexprs') = len + 1
      /\ \A k \in 1..len : workJexprs'[k] = workJexprs[k] /\ argPos'[k] = positions[k]
      /\ workJexprs'[len + 1] = Visit(Args[pos + 1], lastRef')
      /\ argPos'[len + 1] = 0
      /\ Len(argPos') = len + 1
  BY DownFacts
<1>2. tree' = tree /\ dir' = "DOWN"
  BY DEF Down
<1>3. /\ Current = workJexprs[len]
      /\ workJexprs'[len] = workJexprs[len] /\ argPos'[len] = pos
      /\ workJexprs'[len + 1].obj = Args[pos + 1]
  BY <1>1, CurrentFacts DEF Visit
<1>4. VisitsArePath'
  <2>1. SUFFICES ASSUME NEW k \in 1..len
                 PROVE  /\ tree.kind[workJexprs'[k].obj] \notin TerminalKind
                        /\ argPos'[k] < Len(tree.args[workJexprs'[k].obj])
                        /\ workJexprs'[k + 1].obj =
                             tree.args[workJexprs'[k].obj][argPos'[k] + 1]
    BY <1>1, <1>2 DEF VisitsArePath
  <2>2. CASE k = len
    BY <1>3, <2>2 DEF Args, AtTerminal
  <2>3. CASE k # len
    <3>1. k \in 1..(len - 1) /\ k + 1 \in 1..len
      BY <1>1, <2>3
    <3>2. /\ workJexprs'[k] = workJexprs[k] /\ workJexprs'[k + 1] = workJexprs[k + 1]
          /\ argPos'[k] = argPos[k]
      BY <1>1, <3>1
    <3>3. QED
      BY <3>1, <3>2 DEF VisitsArePath
  <2>4. QED
    BY <2>2, <2>3
<1>5. TopIsConsistent'
  BY <1>1, <1>2 DEF TopIsConsistent, Last
<1>6. QED
  BY <1>4, <1>5

-----------------------------------------------------------------------------
(* The references held.                                                    *)
Held    == {workJexprs[k].ref : k \in 1..Len(workJexprs)}
Backing == {built[t].ref : t \in Terminals}

LEMMA PopHolds ==
  ASSUME TypeOK, RefsHeld, workJexprs # <<>>, Pop
  PROVE  /\ Held' = Held \ {Current.ref} /\ Current.ref \in Held
         /\ \A k, l \in 1..Len(workJexprs') :
              workJexprs'[k].ref = workJexprs'[l].ref => k = l
<1> DEFINE len == Len(workJexprs)
<1>1. /\ len \in Nat \ {0}
      /\ Current = workJexprs[len]
      /\ Len(workJexprs') = len - 1
      /\ \A k \in 1..(len - 1) : workJexprs'[k] = workJexprs[k]
  BY PopFacts
<1>2. \A k, l \in 1..len : workJexprs[k].ref = workJexprs[l].ref => k = l
  BY DEF RefsHeld
<1>3. \A k, l \in 1..Len(workJexprs') :
         workJexprs'[k].ref = workJexprs'[l].ref => k = l
  BY <1>1, <1>2
<1>4. Current.ref \in Held
  BY <1>1 DEF Held
<1>5. ASSUME NEW r \in Held, r # Current.ref PROVE r \in Held'
  <2>1. PICK k \in 1..len : r = workJexprs[k].ref
    BY <1>5 DEF Held
  <2>2. k \in 1..(len - 1)
    BY <1>1, <1>5, <2>1
  <2>3. QED
    BY <1>1, <2>1, <2>2 DEF Held
<1>6. ASSUME NEW r \in Held' PROVE r \in Held /\ r # Current.ref
  <2>1. PICK k \in 1..(len - 1) : r = workJexprs'[k].ref
    BY <1>1, <1>6 DEF Held
  <2>2. r = workJexprs[k].ref /\ k \in 1..len /\ len \in 1..len /\ k # len
    BY <1>1, <2>1
  <2>3. QED
    BY <1>1, <1>2, <2>2 DEF Held
<1>7. Held' = Held \ {Current.ref}
  BY <1>5, <1>6
<1>8. QED
  BY <1>3, <1>4, <1>7

LEMMA MakeBacks ==
  ASSUME TypeOK, NEW node \in Nodes(lastRef, Len(built)),
         NEW waiting \in Seq(1..Len(built)), Make(node, waiting)
  PROVE  /\ Terminals' = Terminals \cup (IF node.args = <<>> THEN {Len(built) + 1} ELSE {})
         /\ Backing' = Backing \cup (IF node.args = <<>> THEN {node.ref} ELSE {})
<1>1. /\ Len(built) \in Nat /\ Len(built') = Len(built) + 1
      /\ built'[Len(built) + 1] = node
      /\ \A t \in 1..Len(built) : built'[t] = built[t]
  BY MakeFacts
<1>2. Terminals' = Terminals \cup (IF node.args = <<>> THEN {Len(built) + 1} ELSE {})
  <2>1. \A t \in 1..Len(built) : t \in Terminals' <=> t \in Terminals
    BY <1>1 DEF Terminals
  <2>2. Len(built) + 1 \in Terminals' <=> node.args = <<>>
    BY <1>1 DEF Terminals
  <2>3. Terminals' \subseteq 1..(Len(built) + 1) /\ Terminals \subseteq 1..Len(built)
    BY <1>1 DEF Terminals
  <2>4. \A t \in 1..(Len(built) + 1) : t \in 1..Len(built) \/ t = Len(built) + 1
    BY <1>1
  <2>5. CASE node.args = <<>>
    BY <2>1, <2>2, <2>3, <2>4, <2>5
  <2>6. CASE node.args # <<>>
    BY <2>1, <2>2, <2>3, <2>4, <2>6
  <2>7. QED
    BY <2>5, <2>6
<1>3. \A t \in Terminals : built'[t] = built[t]
  BY <1>1 DEF Terminals
<1>4. Backing' = {built'[t].ref : t \in Terminals'}
  BY DEF Backing
<1>5. CASE node.args = <<>>
  BY <1>1, <1>2, <1>3, <1>4, <1>5 DEF Backing
<1>6. CASE node.args # <<>>
  BY <1>2, <1>3, <1>4, <1>6 DEF Backing
<1>7. QED
  BY <1>2, <1>5, <1>6

(* The three facts about references, as sets.                              *)
LEMMA RefsAreSets ==
  RefsHeld <=>
    /\ outcome = "working" => live = Held \cup Backing
    /\ \A k, l \in 1..Len(workJexprs) :
         workJexprs[k].ref = workJexprs[l].ref => k = l
    /\ Held \cap Backing = {}
<1>1. (Held \cap Backing = {}) <=>
        \A k \in 1..Len(workJexprs) : \A t \in Terminals :
          workJexprs[k].ref # built[t].ref
  BY DEF Held, Backing
<1>2. QED
  BY <1>1 DEF RefsHeld, Held, Backing

LEMMA TerminalNode ==
  ASSUME TypeOK, workJexprs # <<>>
  PROVE  Made(Current.obj, Current.ref, <<>>) \in Nodes(lastRef, Len(built))
<1>1. <<>> \in Seq(1..Len(built))
  BY EmptySeq
<1>2. QED
  BY <1>1, CurrentFacts DEF Made, Nodes

LEMMA TerminalKeepsRefs ==
  ASSUME TypeOK, RefsHeld, BackingRefsLive, outcome = "working",
         workJexprs # <<>>, Pop,
         Make(Made(Current.obj, Current.ref, <<>>), exprStack),
         UNCHANGED <<live, outcome>>
  PROVE  RefsHeld' /\ BackingRefsLive'
<1> DEFINE node == Made(Current.obj, Current.ref, <<>>)
<1>1. /\ node \in Nodes(lastRef, Len(built)) /\ exprStack \in Seq(1..Len(built))
      /\ node.args = <<>> /\ node.ref = Current.ref
  BY TerminalNode, TypeFacts DEF Made
<1> HIDE DEF node
<1>2. Make(node, exprStack)
  BY DEF node
<1>3. /\ Len(built) \in Nat
      /\ built'[Len(built) + 1] = node
      /\ \A t \in 1..Len(built) : built'[t] = built[t]
  BY <1>1, <1>2, MakeFacts
<1>4. /\ Terminals' = Terminals \cup {Len(built) + 1}
      /\ Backing' = Backing \cup {Current.ref}
  BY <1>1, <1>2, MakeBacks
<1>5. /\ Held' = Held \ {Current.ref} /\ Current.ref \in Held
      /\ \A k, l \in 1..Len(workJexprs') :
           workJexprs'[k].ref = workJexprs'[l].ref => k = l
  BY PopHolds
<1>6. live = Held \cup Backing /\ Held \cap Backing = {}
  BY RefsAreSets
<1>7. live' = Held' \cup Backing' /\ Held' \cap Backing' = {}
  BY <1>4, <1>5, <1>6
<1>8. RefsHeld'
  BY <1>5, <1>7 DEF RefsHeld, Held, Backing
<1>9. \A t \in Terminals : t \in 1..Len(built) /\ built'[t] = built[t]
  BY <1>3 DEF Terminals
<1>10. \A t \in Terminals' : built'[t].ref \in live'
  BY <1>7 DEF Backing
<1>11. \A t \in Terminals : built'[t].ref # Current.ref
  BY <1>5, <1>6, <1>9 DEF Backing
<1>12. \A t, u \in Terminals' : built'[t].ref = built'[u].ref => t = u
  <2>1. \A t, u \in Terminals : built'[t].ref = built'[u].ref => t = u
    BY <1>9 DEF BackingRefsLive
  <2>2. built'[Len(built) + 1].ref = Current.ref
    BY <1>1, <1>3
  <2>3. QED
    BY <1>4, <1>11, <2>1, <2>2
<1>13. QED
  BY <1>8, <1>10, <1>12 DEF BackingRefsLive

LEMMA ExprKeepsRefs ==
  ASSUME TypeOK, RefsHeld, BackingRefsLive, outcome = "working",
         workJexprs # <<>>, Pop,
         NEW node \in Nodes(lastRef, Len(built)), node.args # <<>>,
         NEW waiting \in Seq(1..Len(built)), Make(node, waiting),
         live' = live \ {Current.ref}, outcome' = outcome
  PROVE  RefsHeld' /\ BackingRefsLive'
<1>1. \A t \in 1..Len(built) : built'[t] = built[t]
  BY MakeFacts
<1>2. Terminals' = Terminals /\ Backing' = Backing
  BY MakeBacks
<1>3. /\ Held' = Held \ {Current.ref} /\ Current.ref \in Held
      /\ \A k, l \in 1..Len(workJexprs') :
           workJexprs'[k].ref = workJexprs'[l].ref => k = l
  BY PopHolds
<1>4. live = Held \cup Backing /\ Held \cap Backing = {}
  BY RefsAreSets
<1>5. live' = Held' \cup Backing' /\ Held' \cap Backing' = {}
  BY <1>2, <1>3, <1>4
<1>6. RefsHeld'
  <2>1. \A k \in 1..Len(workJexprs') : \A t \in Terminals' :
          workJexprs'[k].ref # built'[t].ref
    BY <1>5 DEF Held, Backing
  <2>2. live' = {workJexprs'[k].ref : k \in 1..Len(workJexprs')}
                  \cup {built'[t].ref : t \in Terminals'}
    BY <1>5 DEF Held, Backing
  <2>3. QED
    BY <1>3, <2>1, <2>2 DEF RefsHeld
<1>7. \A t \in Terminals' : built'[t].ref \in live'
  BY <1>5 DEF Backing
<1>8. \A t, u \in Terminals' : built'[t].ref = built'[u].ref => t = u
  BY <1>1, <1>2 DEF BackingRefsLive, Terminals
<1>9. QED
  BY <1>6, <1>7, <1>8 DEF BackingRefsLive

LEMMA DownKeepsRefs ==
  ASSUME TypeOK, RefsHeld, BackingRefsLive, outcome = "working",
         workJexprs # <<>>, ~AtTerminal, NEW pos \in Nat, pos < Len(Args),
         NEW positions \in Seq(Nat), Len(positions) = Len(argPos),
         Down(pos, positions)
  PROVE  RefsHeld' /\ BackingRefsLive'
<1> DEFINE len == Len(workJexprs)
<1>1. /\ len \in Nat \ {0}
      /\ Len(workJexprs') = len + 1
      /\ \A k \in 1..len : workJexprs'[k] = workJexprs[k]
      /\ workJexprs'[len + 1] = Visit(Args[pos + 1], lastRef')
  BY DownFacts
<1>2. /\ lastRef' = lastRef + 1 /\ live' = live \cup {lastRef'}
      /\ UNCHANGED <<built, outcome>>
  BY DEF Down
<1>3. Terminals' = Terminals /\ Backing' = Backing
  BY <1>2 DEF Terminals, Backing
<1>4. lastRef \in Nat /\ workJexprs'[len + 1].ref = lastRef'
  BY <1>1 DEF TypeOK, Visit
<1>5. \A k \in 1..len : workJexprs[k].ref # lastRef'
  BY <1>2, <1>4, TypeFacts
<1>6. lastRef' \notin Backing
  <2>1. ASSUME NEW t \in Terminals PROVE built[t].ref # lastRef'
    <3>1. t \in 1..Len(built)
      BY DEF Terminals
    <3>2. built[t].ref \in 0..lastRef
      BY <3>1, TypeFacts
    <3>3. QED
      BY <1>2, <1>4, <3>2
  <2>2. QED
    BY <2>1 DEF Backing
<1>7. Held' = Held \cup {lastRef'}
  <2>1. Held' = {workJexprs'[k].ref : k \in 1..(len + 1)}
    BY <1>1 DEF Held
  <2>2. \A k : k \in 1..(len + 1) <=> k \in 1..len \/ k = len + 1
    BY <1>1
  <2>3. QED
    BY <1>1, <1>4, <2>1, <2>2 DEF Held
<1>8. \A k, l \in 1..Len(workJexprs') :
         workJexprs'[k].ref = workJexprs'[l].ref => k = l
  <2>1. \A k, l \in 1..len : workJexprs[k].ref = workJexprs[l].ref => k = l
    BY DEF RefsHeld
  <2>2. \A k \in 1..Len(workJexprs') : k \in 1..len \/ k = len + 1
    BY <1>1
  <2>3. QED
    BY <1>1, <1>4, <1>5, <2>1, <2>2
<1>9. live = Held \cup Backing /\ Held \cap Backing = {}
  BY RefsAreSets
<1>10. live' = Held' \cup Backing' /\ Held' \cap Backing' = {}
  BY <1>2, <1>3, <1>6, <1>7, <1>9
<1>11. RefsHeld'
  BY <1>8, <1>10 DEF RefsHeld, Held, Backing
<1>12. BackingRefsLive'
  BY <1>2, <1>3 DEF BackingRefsLive
<1>13. QED
  BY <1>11, <1>12

-----------------------------------------------------------------------------
(* The objects of the nodes on the operand stack.                          *)
LEMMA ObjsFacts ==
  ASSUME TypeOK, NEW s \in Seq(1..Len(built))
  PROVE  /\ Objs(s) \in Seq(Node) /\ Len(s) \in Nat /\ Len(Objs(s)) = Len(s)
         /\ \A k \in 1..Len(s) : s[k] \in 1..Len(built) /\ Objs(s)[k] = built[s[k]].obj
<1>1. Len(s) \in Nat /\ \A k \in 1..Len(s) : s[k] \in 1..Len(built)
  BY ElementOfSeq, LenProperties
<1>2. \A k \in 1..Len(s) : built[s[k]].obj \in Node
  BY <1>1, TypeFacts
<1>3. Objs(s) \in [1..Len(s) -> Node]
  BY <1>2 DEF Objs
<1>4. Objs(s) \in Seq(Node) /\ Len(Objs(s)) = Len(s)
  <2>1. \A n \in Nat : \A f : f \in [1..n -> Node] => f \in Seq(Node) /\ Len(f) = n
    OBVIOUS
  <2>2. QED
    BY <1>1, <1>3, <2>1
<1>5. QED
  BY <1>1, <1>4 DEF Objs

LEMMA MakeObjs ==
  ASSUME TypeOK, NEW node \in Nodes(lastRef, Len(built)),
         NEW waiting \in Seq(1..Len(built)), Make(node, waiting)
  PROVE  /\ Objs(exprStack)' = Append(Objs(waiting), node.obj)
         /\ \A s \in Seq(1..Len(built)) :
              [k \in 1..Len(s) |-> built'[s[k]].obj] = Objs(s)
<1>1. /\ Len(built) \in Nat /\ Len(waiting) \in Nat
      /\ Len(built') = Len(built) + 1
      /\ built'[Len(built) + 1] = node
      /\ \A t \in 1..Len(built) : built'[t] = built[t]
      /\ Len(exprStack') = Len(waiting) + 1
      /\ exprStack'[Len(waiting) + 1] = Len(built) + 1
      /\ \A k \in 1..Len(waiting) : exprStack'[k] = waiting[k]
  BY MakeFacts
<1>2. /\ Objs(waiting) \in Seq(Node) /\ Len(Objs(waiting)) = Len(waiting)
      /\ \A k \in 1..Len(waiting) :
           waiting[k] \in 1..Len(built) /\ Objs(waiting)[k] = built[waiting[k]].obj
  BY ObjsFacts
<1>3. node.obj \in Node
  BY DEF Nodes
<1> DEFINE new == Append(Objs(waiting), node.obj)
           now == [k \in 1..(Len(waiting) + 1) |-> built'[exprStack'[k]].obj]
<1>4. /\ new \in Seq(Node) /\ Len(new) = Len(waiting) + 1
      /\ \A k \in 1..Len(waiting) : new[k] = Objs(waiting)[k]
      /\ new[Len(waiting) + 1] = node.obj
  BY <1>2, <1>3, AppendProperties
<1> HIDE DEF new
<1>5. \A k \in 1..(Len(waiting) + 1) : built'[exprStack'[k]].obj = new[k]
  <2>1. ASSUME NEW k \in 1..Len(waiting) PROVE built'[exprStack'[k]].obj = new[k]
    BY <1>1, <1>2, <1>4
  <2>2. built'[exprStack'[Len(waiting) + 1]].obj = new[Len(waiting) + 1]
    BY <1>1, <1>4
  <2>3. \A k \in 1..(Len(waiting) + 1) : k \in 1..Len(waiting) \/ k = Len(waiting) + 1
    BY <1>1
  <2>4. QED
    BY <2>1, <2>2, <2>3
<1>6. now = new
  <2>1. new = [k \in 1..(Len(waiting) + 1) |-> new[k]]
    BY <1>4, LenProperties
  <2>2. QED
    BY <1>5, <2>1
<1>7. Objs(exprStack)' = new
  BY <1>1, <1>6 DEF Objs
<1>8. ASSUME NEW s \in Seq(1..Len(built))
      PROVE  [k \in 1..Len(s) |-> built'[s[k]].obj] = Objs(s)
  <2>1. \A k \in 1..Len(s) : built'[s[k]] = built[s[k]]
    BY <1>1, ObjsFacts
  <2>2. QED
    BY <2>1 DEF Objs
<1>9. QED
  BY <1>7, <1>8 DEF new

LEMMA MakeKeepsFaithful ==
  ASSUME TypeOK, Faithful, NEW node \in Nodes(lastRef, Len(built)),
         NEW waiting \in Seq(1..Len(built)), Make(node, waiting), tree' = tree,
         Objs(node.args) = tree.args[node.obj]
  PROVE  Faithful'
<1>1. /\ Len(built) \in Nat
      /\ Len(built') = Len(built) + 1
      /\ built'[Len(built) + 1] = node
      /\ \A t \in 1..Len(built) : built'[t] = built[t]
  BY MakeFacts
<1>2. \A s \in Seq(1..Len(built)) : [k \in 1..Len(s) |-> built'[s[k]].obj] = Objs(s)
  BY MakeObjs
<1>3. node.args \in Seq(1..Len(built))
  BY DEF Nodes
<1>4. SUFFICES ASSUME NEW t \in 1..(Len(built) + 1)
               PROVE  [k \in 1..Len(built'[t].args) |-> built'[built'[t].args[k]].obj]
                        = tree.args[built'[t].obj]
  BY <1>1 DEF Faithful, Objs
<1>5. CASE t = Len(built) + 1
  BY <1>1, <1>2, <1>3, <1>5
<1>6. CASE t \in 1..Len(built)
  <2>1. built[t].args \in Seq(1..Len(built))
    BY <1>6, TypeFacts
  <2>2. Objs(built[t].args) = tree.args[built[t].obj]
    BY <1>6 DEF Faithful
  <2>3. QED
    BY <1>1, <1>2, <1>6, <2>1, <2>2
<1>7. QED
  BY <1>1, <1>5, <1>6

(* Where the objects on the stack end with the arguments, the operands are *)
(* those the arguments were translated to.                                 *)
LEMMA OperandsFound ==
  ASSUME TypeOK, workJexprs # <<>>, NEW front \in Seq(Node),
         Objs(exprStack) = front \o Args
  PROVE  /\ Operands \in Seq(1..Len(built)) /\ Len(Operands) = Len(Args)
         /\ Objs(Operands) = Args
         /\ \A a \in 1..Len(Args) : Operands[a] = exprStack[Len(front) + a]
         /\ WithoutOperands \in Seq(1..Len(built))
         /\ Len(WithoutOperands) = Len(front)
         /\ Objs(WithoutOperands) = front
         /\ \A k \in 1..Len(front) : WithoutOperands[k] = exprStack[k]
         /\ Len(front) \in Nat /\ Len(Args) \in Nat
         /\ Len(exprStack) = Len(front) + Len(Args)
<1> DEFINE f == Len(front)
           n == Len(Args)
<1>1. /\ Args \in Seq(Node) /\ n \in Nat /\ f \in Nat
      /\ exprStack \in Seq(1..Len(built))
  BY CurrentFacts, TypeFacts, LenProperties
<1>2. /\ Len(Objs(exprStack)) = Len(exprStack)
      /\ \A k \in 1..Len(exprStack) :
           exprStack[k] \in 1..Len(built) /\ Objs(exprStack)[k] = built[exprStack[k]].obj
  BY <1>1, ObjsFacts
<1>3. /\ Len(Objs(exprStack)) = f + n
      /\ \A k \in 1..(f + n) :
           Objs(exprStack)[k] = IF k <= f THEN front[k] ELSE Args[k - f]
  BY <1>1, ConcatProperties
<1>4. Len(exprStack) = f + n
  BY <1>2, <1>3
<1> HIDE DEF f, n
<1>5. f + n - n + 1 = f + 1 /\ f + n - n = f
  BY <1>1
<1>6. Operands = SubSeq(exprStack, f + 1, f + n) /\ WithoutOperands = SubSeq(exprStack, 1, f)
  <2>1. Len(exprStack) - Len(Args) = f
    BY <1>1, <1>4 DEF n
  <2>2. /\ Operands = SubSeq(exprStack, f + 1, Len(exprStack))
        /\ WithoutOperands = SubSeq(exprStack, 1, f)
    BY <2>1, Zenon DEF Operands, WithoutOperands
  <2>3. QED
    BY <1>4, <2>2, Zenon
<1>7. /\ Operands \in Seq(1..Len(built)) /\ Len(Operands) = n
      /\ \A a \in 1..n : Operands[a] = exprStack[f + a]
  <2>1. \A k \in (f + 1)..(f + n) : exprStack[k] \in 1..Len(built)
    BY <1>1, <1>2, <1>4
  <2>2. PICK first \in Int : first = f + 1
    BY <1>1
  <2>3. PICK last \in Int : last = f + n
    BY <1>1
  <2>4. Operands = SubSeq(exprStack, first, last)
    BY <1>6, <2>2, <2>3, Zenon
  <2>5. /\ Operands \in Seq(1..Len(built))
        /\ Len(Operands) = IF first <= last THEN last - first + 1 ELSE 0
        /\ \A k \in 1..(last - first + 1) : Operands[k] = exprStack[first + k - 1]
    <3>1. \A k \in first..last : exprStack[k] \in 1..Len(built)
      BY <2>1, <2>2, <2>3, Zenon
    <3>2. QED
      BY <2>4, <3>1, SubSeqProperties
  <2>6. /\ last - first + 1 = n /\ \A a \in 1..n : first + a - 1 = f + a
        /\ ~(first <= last) => n = 0
    BY <1>1, <2>2, <2>3
  <2>7. Len(Operands) = n
    BY <2>5, <2>6
  <2>8. ASSUME NEW a \in 1..n PROVE Operands[a] = exprStack[f + a]
    <3>1. Operands[a] = exprStack[first + a - 1]
      BY <2>5, <2>6
    <3>2. QED
      BY <2>6, <3>1, Zenon
  <2>9. QED
    BY <2>5, <2>7, <2>8
<1>8. /\ WithoutOperands \in Seq(1..Len(built)) /\ Len(WithoutOperands) = f
      /\ \A k \in 1..f : WithoutOperands[k] = exprStack[k]
  <2>1. \A k \in 1..f : exprStack[k] \in 1..Len(built)
    BY <1>1, <1>2, <1>4
  <2>2. /\ SubSeq(exprStack, 1, f) \in Seq(1..Len(built))
        /\ Len(SubSeq(exprStack, 1, f)) = IF 1 <= f THEN f - 1 + 1 ELSE 0
        /\ \A k \in 1..(f - 1 + 1) : SubSeq(exprStack, 1, f)[k] = exprStack[1 + k - 1]
    BY <1>1, <2>1, SubSeqProperties
  <2>3. f - 1 + 1 = f /\ (\A k \in 1..f : 1 + k - 1 = k) /\ (~(1 <= f) => f = 0)
    BY <1>1
  <2>4. QED
    BY <1>6, <2>2, <2>3
<1>9. Objs(Operands) = Args
  <2>1. \A a \in 1..n : built[Operands[a]].obj = Args[a]
    <3>1. ASSUME NEW a \in 1..n PROVE built[exprStack[f + a]].obj = Args[a]
      <4>1. PICK k \in 1..(f + n) : k = f + a
        BY <1>1
      <4>2. ~(k <= f) /\ k - f = a
        BY <1>1, <4>1
      <4>3. Objs(exprStack)[k] = Args[a]
        BY <1>3, <4>2
      <4>4. Objs(exprStack)[k] = built[exprStack[k]].obj
        BY <1>2, <1>4
      <4>5. QED
        BY <4>1, <4>3, <4>4, Zenon
    <3>2. QED
      BY <1>7, <3>1
  <2>2. Args = [a \in 1..n |-> Args[a]]
    BY <1>1, LenProperties DEF n
  <2>3. QED
    BY <1>7, <2>1, <2>2 DEF Objs
<1>10. Objs(WithoutOperands) = front
  <2>1. \A k \in 1..f : built[WithoutOperands[k]].obj = front[k]
    <3>1. ASSUME NEW k \in 1..f PROVE built[exprStack[k]].obj = front[k]
      <4>1. k \in 1..(f + n) /\ k <= f
        BY <1>1
      <4>2. QED
        BY <1>2, <1>3, <1>4, <4>1
    <3>2. QED
      BY <1>8, <3>1
  <2>2. front = [k \in 1..f |-> front[k]]
    BY LenProperties DEF f
  <2>3. QED
    BY <1>8, <2>1, <2>2 DEF Objs
<1>11. QED
  BY <1>1, <1>4, <1>7, <1>8, <1>9, <1>10 DEF f, n

-----------------------------------------------------------------------------
(* Every object visited has contributed the arguments it is done with.     *)
Parts == [k \in 1..Len(workJexprs) |->
            SubSeq(tree.args[workJexprs[k].obj], 1, ArgsDone(k))]

StackSoFar ==
  workJexprs # <<>> => Flattens(Parts, Len(workJexprs), Objs(exprStack))

LEMMA PartsFacts ==
  ASSUME TypeOK, VisitsArePath, TopIsConsistent, NEW k \in 1..Len(workJexprs)
  PROVE  /\ ArgsDone(k) \in Nat /\ ArgsDone(k) <= Len(tree.args[workJexprs[k].obj])
         /\ tree.args[workJexprs[k].obj] \in Seq(Node)
         /\ Parts[k] = SubSeq(tree.args[workJexprs[k].obj], 1, ArgsDone(k))
         /\ Parts[k] \in Seq(Node)
<1>1. /\ Len(workJexprs) \in Nat /\ workJexprs[k].obj \in Node /\ argPos[k] \in Nat
      /\ WellFormed(tree)
  BY TypeFacts DEF TypeOK
<1>2. tree.args[workJexprs[k].obj] \in Seq(Node)
  BY <1>1, NodeFacts
<1>3. Len(tree.args[workJexprs[k].obj]) \in Nat
  BY <1>2, LenProperties
<1>4. ArgsDone(k) \in Nat /\ ArgsDone(k) <= Len(tree.args[workJexprs[k].obj])
  <2>1. CASE k = Len(workJexprs)
    <3>1. workJexprs # <<>>
      BY <1>1, EmptySeq
    <3>2. /\ Current = workJexprs[k] /\ Last(argPos) = argPos[k]
      BY <2>1, <3>1, CurrentFacts
    <3>3. IF dir = "UP" THEN argPos[k] < Len(tree.args[workJexprs[k].obj])
          ELSE argPos[k] = 0
      BY <3>1, <3>2 DEF TopIsConsistent, Args
    <3>4. QED
      BY <1>1, <1>3, <2>1, <3>3 DEF ArgsDone
  <2>2. CASE k # Len(workJexprs)
    <3>1. k \in 1..(Len(workJexprs) - 1)
      BY <1>1, <2>2
    <3>2. argPos[k] < Len(tree.args[workJexprs[k].obj])
      BY <3>1 DEF VisitsArePath
    <3>3. QED
      BY <1>1, <1>3, <2>2, <3>2 DEF ArgsDone
  <2>3. QED
    BY <2>1, <2>2
<1>5. Parts[k] = SubSeq(tree.args[workJexprs[k].obj], 1, ArgsDone(k))
  BY DEF Parts
<1>6. QED
  BY <1>2, <1>4, <1>5, PrefixFacts

(* A finished object gives its translation to the object above it.         *)
LEMMA PopKeepsStack ==
  ASSUME TypeOK, VisitsArePath, TopIsConsistent, workJexprs # <<>>, Pop,
         tree' = tree, dir' = "UP", NEW front \in Seq(Node),
         Flattens(Parts, Len(workJexprs) - 1, front),
         Objs(exprStack)' = Append(front, Current.obj)
  PROVE  StackSoFar' /\ (workJexprs' = <<>> => front = <<>>)
<1>1. PICK len \in Nat \ {0} : len = Len(workJexprs)
  BY CurrentFacts
<1>2. /\ Current = workJexprs[len]
      /\ workJexprs' \in Seq(Visits(lastRef))
      /\ Len(workJexprs') = len - 1
      /\ Len(argPos') = len - 1
      /\ \A k \in 1..(len - 1) :
           workJexprs'[k] = workJexprs[k] /\ argPos'[k] = argPos[k]
  BY <1>1, PopFacts
<1>3. Flattens(Parts, len - 1, front)
  BY <1>1
<1>4. CASE len = 1
  <2>1. workJexprs' = <<>>
    BY <1>2, <1>4, EmptySeq
  <2>2. front = <<>>
    BY <1>3, <1>4 DEF Flattens
  <2>3. QED
    BY <2>1, <2>2 DEF StackSoFar
<1>5. CASE len # 1
  <2>1. PICK m \in Nat : m = len - 2
    BY <1>5
  <2>2. /\ len - 1 = m + 1 /\ m + 1 \in Nat /\ m + 1 > 0 /\ m + 1 - 1 = m
        /\ m + 1 \in 1..(len - 1) /\ m + 1 \in 1..len /\ m + 1 # len
        /\ m + 1 + 1 = len
    BY <1>5, <2>1
  <2>3. workJexprs' # <<>>
    BY <1>2, <2>2, EmptySeq
  <2>4. PICK before \in Seq(Node) :
          Flattens(Parts, m, before) /\ front = before \o Parts[m + 1]
    <3> DEFINE was == Parts
    <3>1. Flattens(was, m + 1, front)
      BY <1>3, <2>2, Zenon
    <3> HIDE DEF was
    <3>2. PICK n \in Nat : n = m + 1
      BY <2>2
    <3>3. n > 0 /\ Flattens(was, n, front) /\ n - 1 = m
      BY <2>2, <3>1, <3>2
    <3>4. \E before \in Seq(Node) :
            Flattens(was, n - 1, before) /\ front = before \o was[n]
      BY <3>3, FlattenShorter
    <3>5. QED
      BY <3>2, <3>3, <3>4, Zenon DEF was
  <2>5. PICK up \in Node : up = workJexprs[m + 1].obj
    BY <1>1, <2>2, TypeFacts
  <2>6. PICK done \in Nat : done = argPos[m + 1]
    BY <1>1, <2>2, TypeFacts
  <2>7. /\ tree.args[up] \in Seq(Node) /\ Len(tree.args[up]) \in Nat
        /\ done < Len(tree.args[up])
        /\ Current.obj = tree.args[up][done + 1]
        /\ Parts[m + 1] = SubSeq(tree.args[up], 1, done)
        /\ Parts[m + 1] \in Seq(Node)
    <3>1. ArgsDone(m + 1) = done
      BY <1>1, <2>2, <2>6 DEF ArgsDone
    <3>2. /\ tree.args[up] \in Seq(Node)
          /\ Parts[m + 1] = SubSeq(tree.args[up], 1, done)
          /\ Parts[m + 1] \in Seq(Node)
      BY <1>1, <2>2, <2>5, <3>1, PartsFacts
    <3>3. /\ argPos[m + 1] < Len(tree.args[workJexprs[m + 1].obj])
          /\ workJexprs[m + 1 + 1].obj =
               tree.args[workJexprs[m + 1].obj][argPos[m + 1] + 1]
      BY <1>1, <2>2 DEF VisitsArePath
    <3>4. done < Len(tree.args[up]) /\ Current.obj = tree.args[up][done + 1]
      BY <1>2, <2>2, <2>5, <2>6, <3>3
    <3>5. QED
      BY <3>2, <3>4, LenProperties
  <2>8. /\ Current.obj \in Node
        /\ SubSeq(tree.args[up], 1, done + 1) = Append(Parts[m + 1], Current.obj)
    <3>1. done <= Len(tree.args[up])
      BY <2>7
    <3>2. /\ tree.args[up][done + 1] \in Node
          /\ SubSeq(tree.args[up], 1, done + 1) =
               Append(SubSeq(tree.args[up], 1, done), tree.args[up][done + 1])
      BY <2>7, <3>1, PrefixFacts
    <3>3. QED
      BY <2>7, <3>2
  <2>9. /\ \A k \in 1..m : Parts'[k] = Parts[k]
        /\ Parts'[m + 1] = Append(Parts[m + 1], Current.obj)
    <3>1. ASSUME NEW k \in 1..m PROVE Parts'[k] = Parts[k]
      <4>1. k \in 1..(len - 1) /\ k \in 1..len /\ k # len - 1 /\ k # len
        BY <2>2
      <4>2. ArgsDone(k)' = argPos[k] /\ ArgsDone(k) = argPos[k]
        BY <1>1, <1>2, <4>1 DEF ArgsDone
      <4>3. Parts'[k] = SubSeq(tree.args[workJexprs[k].obj], 1, argPos[k])
        BY <1>2, <4>1, <4>2 DEF Parts
      <4>4. Parts[k] = SubSeq(tree.args[workJexprs[k].obj], 1, argPos[k])
        BY <1>1, <4>1, <4>2 DEF Parts
      <4>5. QED
        BY <4>3, <4>4
    <3>2. ArgsDone(m + 1)' = done + 1
      BY <1>2, <2>2, <2>6 DEF ArgsDone
    <3>3. Parts'[m + 1] = SubSeq(tree.args[up], 1, done + 1)
      BY <1>2, <2>2, <2>5, <3>2 DEF Parts
    <3>4. QED
      BY <2>8, <3>1, <3>3
  <2>10. Parts'[m + 1] \in Seq(Node)
    BY <2>7, <2>8, <2>9, AppendProperties
  <2>11. Flattens(Parts', m + 1, before \o Parts'[m + 1])
    <3> DEFINE now == Parts'
               was == Parts
    <3>1. /\ Flattens(was, m, before)
          /\ \A k \in 1..m : now[k] = was[k]
          /\ now[m + 1] \in Seq(Node)
      BY <2>4, <2>9, <2>10
    <3> HIDE DEF now, was
    <3>2. Flattens(now, m + 1, before \o now[m + 1])
      BY <3>1, FlattenLonger
    <3>3. QED
      BY <3>2 DEF now
  <2>12. before \o Parts'[m + 1] = Append(front, Current.obj)
    <3>1. PICK part \in Seq(Node) : part = Parts[m + 1]
      BY <2>7
    <3>2. Append(before \o part, Current.obj) = before \o Append(part, Current.obj)
      BY <2>8, AppendAfter
    <3>3. QED
      BY <2>4, <2>9, <3>1, <3>2
  <2>13. Flattens(Parts', Len(workJexprs'), Objs(exprStack)')
    BY <1>2, <2>2, <2>11, <2>12, Zenon
  <2>14. StackSoFar'
    BY <2>13, Zenon DEF StackSoFar
  <2>15. QED
    BY <2>3, <2>14
<1>6. QED
  BY <1>4, <1>5

(* Going down takes nothing off the stack and puts nothing on it.          *)
LEMMA DownKeepsStack ==
  ASSUME TypeOK, VisitsArePath, TopIsConsistent, StackSoFar,
         workJexprs # <<>>, ~AtTerminal,
         NEW pos \in Nat, pos < Len(Args), pos = ArgsDone(Len(workJexprs)),
         NEW positions \in Seq(Nat), Len(positions) = Len(argPos),
         \A k \in 1..(Len(workJexprs) - 1) : positions[k] = argPos[k],
         positions[Len(workJexprs)] = pos,
         Down(pos, positions)
  PROVE  StackSoFar'
<1>0. PICK len \in Nat \ {0} : len = Len(workJexprs)
  BY CurrentFacts
<1>1. /\ Len(workJexprs') = len + 1
      /\ \A k \in 1..len : workJexprs'[k] = workJexprs[k] /\ argPos'[k] = positions[k]
      /\ workJexprs'[len + 1] = Visit(Args[pos + 1], lastRef')
      /\ argPos'[len + 1] = 0
      /\ Len(argPos') = len + 1
      /\ TypeOK'
  BY <1>0, DownFacts
<1>2. tree' = tree /\ dir' = "DOWN" /\ built' = built /\ exprStack' = exprStack
  BY DEF Down
<1>3. ASSUME NEW k \in 1..len PROVE Parts'[k] = Parts[k]
  <2>1. ArgsDone(k)' = ArgsDone(k)
    <3>1. ArgsDone(k)' = positions[k]
      BY <1>1, <1>2 DEF ArgsDone
    <3>2. CASE k = len
      BY <1>0, <3>1, <3>2
    <3>3. CASE k # len
      <4>1. k \in 1..(len - 1)
        BY <3>3
      <4>2. ArgsDone(k) = argPos[k]
        BY <1>0, <3>3 DEF ArgsDone
      <4>3. QED
        BY <1>0, <3>1, <4>1, <4>2
    <3>4. QED
      BY <3>2, <3>3
  <2>2. Parts'[k] = SubSeq(tree.args[workJexprs[k].obj], 1, ArgsDone(k)')
    <3>1. k \in 1..Len(workJexprs') /\ workJexprs'[k] = workJexprs[k] /\ tree' = tree
      BY <1>1, <1>2
    <3>2. Parts'[k] = SubSeq(tree'.args[workJexprs'[k].obj], 1, ArgsDone(k)')
      BY <3>1, Zenon DEF Parts
    <3>3. QED
      BY <3>1, <3>2, Zenon
  <2>3. Parts[k] = SubSeq(tree.args[workJexprs[k].obj], 1, ArgsDone(k))
    BY <1>0 DEF Parts
  <2>4. QED
    BY <2>1, <2>2, <2>3
<1>4. Parts'[len + 1] = <<>>
  <2>1. ArgsDone(len + 1)' = 0
    BY <1>1, <1>2 DEF ArgsDone
  <2>2. Parts'[len + 1] = SubSeq(tree.args[workJexprs'[len + 1].obj], 1, 0)
    BY <1>1, <1>2, <2>1 DEF Parts
  <2>3. QED
    BY <2>2, SubSeqEmpty
<1>5. Objs(exprStack) \in Seq(Node) /\ <<>> \in Seq(Node)
  BY ObjsFacts, TypeFacts, EmptySeq
<1>6. Flattens(Parts', len + 1, Objs(exprStack) \o Parts'[len + 1])
  <2> DEFINE now == Parts'
             was == Parts
             objs == Objs(exprStack)
  <2>1. /\ len \in Nat /\ Flattens(was, len, objs)
        /\ \A k \in 1..len : now[k] = was[k]
        /\ now[len + 1] \in Seq(Node)
    BY <1>0, <1>3, <1>4, <1>5 DEF StackSoFar
  <2> HIDE DEF now, was, objs
  <2>2. Flattens(now, len + 1, objs \o now[len + 1])
    BY <2>1, FlattenLonger
  <2>3. QED
    BY <2>2 DEF now, objs
<1>7. Objs(exprStack) \o Parts'[len + 1] = Objs(exprStack)
  BY <1>4, <1>5, ConcatEmptySeq
<1>8. Objs(exprStack)' = Objs(exprStack)
  BY <1>2 DEF Objs
<1>9. Flattens(Parts', Len(workJexprs'), Objs(exprStack)')
  BY <1>1, <1>6, <1>7, <1>8, Zenon
<1>10. QED
  BY <1>9, Zenon DEF StackSoFar

-----------------------------------------------------------------------------
(* A node is used once: the operands leave the stack for the node made.    *)
LEMMA MakeKeepsOwned ==
  ASSUME TypeOK, Owned, NEW node \in Nodes(lastRef, Len(built)),
         NEW waiting \in Seq(1..Len(built)), Make(node, waiting),
         NEW f \in Nat, NEW n \in Nat, Len(exprStack) = f + n,
         Len(waiting) = f, \A k \in 1..f : waiting[k] = exprStack[k],
         Len(node.args) = n, \A a \in 1..n : node.args[a] = exprStack[f + a]
  PROVE  Owned'
<1>1. PICK nb \in Nat : nb = Len(built)
  BY TypeFacts
<1>2. /\ Len(built') = nb + 1 /\ built'[nb + 1] = node
      /\ \A t \in 1..nb : built'[t] = built[t]
      /\ Len(exprStack') = f + 1 /\ exprStack'[f + 1] = nb + 1
      /\ \A k \in 1..f : exprStack'[k] = exprStack[k]
  BY <1>1, MakeFacts
<1>3. \A k \in 1..(f + n) : exprStack[k] \in 1..nb
  BY <1>1, TypeFacts
<1>4. \A u \in 1..nb : \A a \in Uses(u) : built[u].args[a] \in 1..nb
  <2>1. SUFFICES ASSUME NEW u \in 1..nb, NEW a \in Uses(u)
                 PROVE  built[u].args[a] \in 1..nb
    OBVIOUS
  <2>2. built[u].args \in Seq(1..nb)
    BY <1>1, TypeFacts
  <2>3. QED
    BY <2>2, ElementOfSeq DEF Uses
<1>5. /\ \A k, l \in 1..(f + n) : exprStack[k] = exprStack[l] => k = l
      /\ \A u \in 1..nb : \A a \in Uses(u) : \A k \in 1..(f + n) :
           built[u].args[a] # exprStack[k]
      /\ \A u, v \in 1..nb : \A a \in Uses(u) : \A b \in Uses(v) :
           built[u].args[a] = built[v].args[b] => u = v /\ a = b
      /\ \A t \in 1..nb :
           \/ \E k \in 1..(f + n) : exprStack[k] = t
           \/ \E u \in 1..nb : \E a \in Uses(u) : built[u].args[a] = t
  BY <1>1 DEF Owned
<1>6. /\ \A u \in 1..nb : Uses(u)' = Uses(u)
      /\ Uses(nb + 1)' = 1..n
  BY <1>2 DEF Uses
<1>7. /\ \A u \in 1..(nb + 1) : u \in 1..nb \/ u = nb + 1
      /\ \A k \in 1..(f + 1) : k \in 1..f \/ k = f + 1
      /\ \A k \in 1..f : k \in 1..(f + n)
      /\ \A a \in 1..n : f + a \in 1..(f + n) /\ f + a \notin 1..f
      /\ nb + 1 \notin 1..nb /\ nb + 1 \in 1..(nb + 1)
      /\ \A u \in 1..nb : u \in 1..(nb + 1)
      /\ f + 1 \in 1..(f + 1) /\ \A k \in 1..f : k \in 1..(f + 1)
      /\ \A a, b \in 1..n : f + a = f + b => a = b
      /\ \A k \in 1..(f + n) : k \in 1..f \/ \E a \in 1..n : k = f + a
  <2>1. ASSUME NEW k \in 1..(f + n), k \notin 1..f
        PROVE  \E a \in 1..n : k = f + a
    <3>1. k - f \in 1..n /\ k = f + (k - f)
      BY <2>1
    <3>2. QED
      BY <3>1
  <2>2. QED
    BY <2>1
<1>8. \A k, l \in 1..Len(exprStack') : exprStack'[k] = exprStack'[l] => k = l
  <2>1. \A k, l \in 1..f : exprStack'[k] = exprStack'[l] => k = l
    BY <1>2, <1>5, <1>7
  <2>2. \A k \in 1..f : exprStack'[k] # exprStack'[f + 1]
    BY <1>2, <1>3, <1>7
  <2>3. QED
    BY <1>2, <1>7, <2>1, <2>2
<1>9. \A u \in 1..Len(built') : \A a \in Uses(u)' : \A k \in 1..Len(exprStack') :
         built'[u].args[a] # exprStack'[k]
  <2>1. SUFFICES ASSUME NEW u \in 1..(nb + 1), NEW a \in Uses(u)',
                        NEW k \in 1..(f + 1)
                 PROVE  built'[u].args[a] # exprStack'[k]
    BY <1>2
  <2>2. CASE u \in 1..nb
    <3>1. built'[u] = built[u] /\ a \in Uses(u)
      BY <1>2, <1>6, <2>2
    <3>2. CASE k \in 1..f
      BY <1>2, <1>5, <1>7, <2>2, <3>1, <3>2
    <3>3. CASE k = f + 1
      BY <1>2, <1>4, <1>7, <2>2, <3>1, <3>3
    <3>4. QED
      BY <1>7, <3>2, <3>3
  <2>3. CASE u = nb + 1
    <3>1. a \in 1..n /\ built'[u].args[a] = exprStack[f + a]
      BY <1>2, <1>6, <2>3
    <3>2. CASE k \in 1..f
      BY <1>2, <1>5, <1>7, <3>1, <3>2
    <3>3. CASE k = f + 1
      BY <1>2, <1>3, <1>7, <3>1, <3>3
    <3>4. QED
      BY <1>7, <3>2, <3>3
  <2>4. QED
    BY <1>7, <2>2, <2>3
<1>10. \A u, v \in 1..Len(built') : \A a \in Uses(u)' : \A b \in Uses(v)' :
         built'[u].args[a] = built'[v].args[b] => u = v /\ a = b
  <2>1. SUFFICES ASSUME NEW u \in 1..(nb + 1), NEW v \in 1..(nb + 1),
                        NEW a \in Uses(u)', NEW b \in Uses(v)',
                        built'[u].args[a] = built'[v].args[b]
                 PROVE  u = v /\ a = b
    BY <1>2
  <2>2. ASSUME NEW w \in 1..nb, NEW c \in Uses(w)', NEW d \in 1..n
        PROVE  built'[w].args[c] # node.args[d]
    <3>1. built'[w] = built[w] /\ c \in Uses(w)
      BY <1>2, <1>6, <2>2
    <3>2. node.args[d] = exprStack[f + d] /\ f + d \in 1..(f + n)
      BY <1>7
    <3>3. built[w].args[c] # exprStack[f + d]
      BY <1>5, <3>1, <3>2
    <3>4. QED
      BY <3>1, <3>2, <3>3
  <2>3. CASE u \in 1..nb /\ v \in 1..nb
    <3>1. /\ built'[u] = built[u] /\ built'[v] = built[v]
          /\ a \in Uses(u) /\ b \in Uses(v)
      BY <1>2, <1>6, <2>3
    <3>2. built[u].args[a] = built[v].args[b]
      BY <2>1, <3>1
    <3>3. QED
      BY <1>5, <2>3, <3>1, <3>2
  <2>4. CASE u \in 1..nb /\ v = nb + 1
    BY <1>2, <1>6, <2>1, <2>2, <2>4
  <2>5. CASE u = nb + 1 /\ v \in 1..nb
    BY <1>2, <1>6, <2>1, <2>2, <2>5
  <2>6. CASE u = nb + 1 /\ v = nb + 1
    <3>1. a \in 1..n /\ b \in 1..n /\ exprStack[f + a] = exprStack[f + b]
      BY <1>2, <1>6, <2>1, <2>6
    <3>2. f + a = f + b
      BY <1>5, <1>7, <3>1
    <3>3. QED
      BY <1>7, <2>6, <3>1, <3>2
  <2>7. QED
    BY <1>7, <2>3, <2>4, <2>5, <2>6
<1>11. \A t \in 1..Len(built') :
         \/ \E k \in 1..Len(exprStack') : exprStack'[k] = t
         \/ \E u \in 1..Len(built') : \E a \in Uses(u)' : built'[u].args[a] = t
  <2>1. SUFFICES ASSUME NEW t \in 1..(nb + 1)
                 PROVE  \/ \E k \in 1..(f + 1) : exprStack'[k] = t
                        \/ \E u \in 1..(nb + 1) : \E a \in Uses(u)' : built'[u].args[a] = t
    BY <1>2
  <2>2. CASE t = nb + 1
    BY <1>2, <1>7, <2>2
  <2>3. ASSUME t \in 1..nb, NEW k \in 1..(f + n), exprStack[k] = t
        PROVE  \/ \E l \in 1..(f + 1) : exprStack'[l] = t
               \/ \E a \in 1..n : node.args[a] = t
    <3>1. CASE k \in 1..f
      BY <1>2, <1>7, <2>3, <3>1
    <3>2. CASE k \notin 1..f
      <4>1. PICK a \in 1..n : k = f + a
        BY <1>7, <3>2
      <4>2. node.args[a] = t
        BY <2>3, <4>1
      <4>3. QED
        BY <4>2
    <3>3. QED
      BY <3>1, <3>2
  <2>4. ASSUME t \in 1..nb, NEW u \in 1..nb, NEW a \in Uses(u), built[u].args[a] = t
        PROVE  \E w \in 1..(nb + 1) : \E b \in Uses(w)' : built'[w].args[b] = t
    <3>1. u \in 1..(nb + 1) /\ a \in Uses(u)' /\ built'[u].args[a] = t
      BY <1>2, <1>6, <1>7, <2>4
    <3>2. QED
      BY <3>1, Zenon
  <2>5. ASSUME NEW a \in 1..n, node.args[a] = t
        PROVE  \E w \in 1..(nb + 1) : \E b \in Uses(w)' : built'[w].args[b] = t
    <3>1. nb + 1 \in 1..(nb + 1) /\ a \in Uses(nb + 1)' /\ built'[nb + 1].args[a] = t
      BY <1>2, <1>6, <1>7, <2>5
    <3>2. QED
      BY <3>1, Zenon
  <2>6. QED
    BY <1>5, <1>7, <2>2, <2>3, <2>4, <2>5
<1>12. QED
  BY <1>8, <1>9, <1>10, <1>11 DEF Owned

LEMMA OwnedUnchanged ==
  ASSUME Owned, built' = built, exprStack' = exprStack
  PROVE  Owned'
<1>1. \A u : Uses(u)' = Uses(u)
  BY DEF Uses
<1>2. \A k, l \in 1..Len(exprStack') : exprStack'[k] = exprStack'[l] => k = l
  BY DEF Owned
<1>3. \A u \in 1..Len(built') : \A a \in Uses(u)' : \A k \in 1..Len(exprStack') :
         built'[u].args[a] # exprStack'[k]
  BY <1>1 DEF Owned
<1>4. \A u, v \in 1..Len(built') : \A a \in Uses(u)' : \A b \in Uses(v)' :
         built'[u].args[a] = built'[v].args[b] => u = v /\ a = b
  BY <1>1 DEF Owned
<1>5. \A t \in 1..Len(built') :
         \/ \E k \in 1..Len(exprStack') : exprStack'[k] = t
         \/ \E u \in 1..Len(built') : \E a \in Uses(u)' : built'[u].args[a] = t
  BY <1>1 DEF Owned
<1>6. QED
  BY <1>2, <1>3, <1>4, <1>5 DEF Owned

LEMMA OwnedOnceIsForest ==
  ASSUME TypeOK, Owned, Faithful
  PROVE  IsForest
<1>1. SUFFICES ASSUME NEW t \in 1..Len(built)
               PROVE  Cardinality(Users(t)) + Cardinality(Places(t)) = 1
  BY DEF IsForest
<1>2. ASSUME NEW u \in 1..Len(built) PROVE Uses(u) \subseteq 1..2
  <2>1. built[u].args \in Seq(1..Len(built)) /\ built[u].obj \in Node /\ WellFormed(tree)
    BY TypeFacts DEF TypeOK
  <2>2. Objs(built[u].args) = tree.args[built[u].obj]
    BY DEF Faithful
  <2>3. Len(built[u].args) = Len(tree.args[built[u].obj]) /\ Len(built[u].args) \in Nat
    BY <2>1, <2>2, ObjsFacts
  <2>4. Len(<<>>) = 0
    OBVIOUS
  <2>5. Len(built[u].args) = 0 \/ Len(built[u].args) \in 1..2
    BY <2>1, <2>3, <2>4, NodeFacts
  <2>6. \A m \in 1..2 : 1..m \subseteq 1..2
    OBVIOUS
  <2>7. 1..0 = {}
    OBVIOUS
  <2>8. CASE Len(built[u].args) = 0
    <3>1. Uses(u) = {}
      BY <2>7, <2>8, Zenon DEF Uses
    <3>2. QED
      BY <3>1
  <2>9. CASE Len(built[u].args) \in 1..2
    BY <2>6, <2>9, Zenon DEF Uses
  <2>10. QED
    BY <2>5, <2>8, <2>9
<1>3. CASE \E k \in 1..Len(exprStack) : exprStack[k] = t
  <2>1. PICK k \in 1..Len(exprStack) : exprStack[k] = t
    BY <1>3
  <2>2. Places(t) = {k}
    BY <2>1 DEF Places, Owned
  <2>3. Users(t) = {}
    BY <2>1 DEF Users, Owned
  <2>4. Cardinality(Users(t)) = 0 /\ Cardinality(Places(t)) = 1
    BY <2>2, <2>3, FS_EmptySet, FS_Singleton, Zenon
  <2>5. QED
    BY <2>4
<1>4. CASE \E u \in 1..Len(built) : \E a \in Uses(u) : built[u].args[a] = t
  <2>0. PICK u \in 1..Len(built) : \E a \in Uses(u) : built[u].args[a] = t
    BY <1>4
  <2>1. PICK a \in Uses(u) : built[u].args[a] = t
    BY <2>0
  <2>2. Places(t) = {}
    BY <2>1 DEF Places, Owned
  <2>3. Users(t) = {<<u, a>>}
    <3>1. <<u, a>> \in Users(t)
      BY <1>2, <2>1 DEF Users
    <3>2. ASSUME NEW p \in Users(t) PROVE p = <<u, a>>
      <4>1. /\ p \in (1..Len(built)) \X (1..2) /\ p[2] \in Uses(p[1])
            /\ built[p[1]].args[p[2]] = t
        BY DEF Users
      <4>2. p[1] = u /\ p[2] = a
        BY <2>1, <4>1 DEF Owned
      <4>3. QED
        BY <4>1, <4>2
    <3>3. QED
      BY <3>1, <3>2
  <2>4. Cardinality(Users(t)) = 1 /\ Cardinality(Places(t)) = 0
    BY <2>2, <2>3, FS_EmptySet, FS_Singleton, Zenon
  <2>5. QED
    BY <2>4
<1>5. QED
  BY <1>3, <1>4 DEF Owned

-----------------------------------------------------------------------------
(* The actions.                                                            *)
LEMMA FinishedKeepsType ==
  ASSUME TypeOK, workJexprs # <<>>, Pop, NEW node \in Nodes(lastRef, Len(built)),
         NEW waiting \in Seq(1..Len(built)), Make(node, waiting),
         tree' = tree, lastRef' = lastRef, live' \subseteq live,
         dir' = "UP", outcome' = outcome
  PROVE  TypeOK'
<1>1. /\ workJexprs' \in Seq(Visits(lastRef'))
      /\ argPos' \in Seq(Nat) /\ Len(argPos') = Len(workJexprs')
  BY PopFacts
<1>2. built' \in Seq(Nodes(lastRef', Len(built'))) /\ exprStack' \in Seq(1..Len(built'))
  BY MakeFacts
<1>3. WellFormed(tree') /\ lastRef' \in Nat /\ live' \subseteq 0..lastRef'
  BY DEF TypeOK
<1>4. outcome' \in {"working", "returned", "convert_error"} /\ dir' \in {"UP", "DOWN"}
  BY DEF TypeOK
<1>5. QED
  BY <1>1, <1>2, <1>3, <1>4 DEF TypeOK, Visits, Nodes

(* What is on the stack is what the objects above contributed, then what   *)
(* the current one has.                                                    *)
LEMMA StackSplits ==
  ASSUME TypeOK, StackSoFar, workJexprs # <<>>
  PROVE  \E front \in Seq(Node) :
            /\ Flattens(Parts, Len(workJexprs) - 1, front)
            /\ Objs(exprStack) = front \o Parts[Len(workJexprs)]
<1> DEFINE was == Parts
           objs == Objs(exprStack)
<1>1. PICK len \in Nat \ {0} : len = Len(workJexprs)
  BY CurrentFacts
<1>2. Flattens(was, len, objs) /\ len > 0
  BY <1>1 DEF StackSoFar
<1> HIDE DEF was, objs
<1>3. \E front \in Seq(Node) : Flattens(was, len - 1, front) /\ objs = front \o was[len]
  BY <1>2, FlattenShorter
<1>4. QED
  BY <1>1, <1>3 DEF was, objs

(* When the last object is finished, its node is alone on the stack.       *)
LEMMA LastNodeAlone ==
  ASSUME TypeOK', NEW o \in Node, Objs(exprStack)' = Append(<<>>, o)
  PROVE  Len(exprStack') = 1
<1>1. exprStack' \in Seq(1..Len(built')) /\ Len(exprStack') \in Nat
  BY LenProperties DEF TypeOK
<1>2. Objs(exprStack)' = [k \in 1..Len(exprStack') |-> built'[exprStack'[k]].obj]
  BY DEF Objs
<1>3. DOMAIN Append(<<>>, o) = 1..1
  <2>1. <<>> \in Seq(Node) /\ Len(<<>>) = 0
    BY EmptySeq
  <2>2. Append(<<>>, o) \in Seq(Node) /\ Len(Append(<<>>, o)) = 1
    BY <2>1, AppendProperties
  <2>3. QED
    BY <2>2, LenProperties
<1>4. 1..Len(exprStack') = 1..1
  BY <1>2, <1>3
<1>5. PICK m \in Nat : m = Len(exprStack')
  BY <1>1
<1>6. 1 \in 1..m /\ ~(2 \in 1..m)
  <2>1. 1 \in 1..1 /\ ~(2 \in 1..1)
    OBVIOUS
  <2>2. QED
    BY <1>4, <1>5, <2>1, Zenon
<1>7. m = 1
  BY <1>6
<1>8. QED
  BY <1>5, <1>7

Good ==
  /\ FactoryInv
  /\ StackSoFar
  /\ Faithful
  /\ BackingRefsLive
  /\ OneRoot

LEMMA TranslateTerminalKeepsGood ==
  ASSUME Good, TranslateTerminal
  PROVE  Good'
<1>1. /\ TypeOK /\ VisitsArePath /\ TopIsConsistent /\ RefsHeld /\ Owned
      /\ StackSoFar /\ Faithful /\ BackingRefsLive
  BY DEF Good, FactoryInv
<1>2. /\ outcome = "working" /\ workJexprs # <<>> /\ AtTerminal
      /\ Make(Made(Current.obj, Current.ref, <<>>), exprStack)
      /\ Pop /\ dir' = "UP"
      /\ tree' = tree /\ live' = live /\ lastRef' = lastRef /\ outcome' = outcome
  BY DEF TranslateTerminal, Working
<1> DEFINE node == Made(Current.obj, Current.ref, <<>>)
<1>3. /\ node \in Nodes(lastRef, Len(built)) /\ exprStack \in Seq(1..Len(built))
      /\ node.args = <<>> /\ node.obj = Current.obj /\ Current.obj \in Node
  BY <1>1, <1>2, TerminalNode, TypeFacts, CurrentFacts DEF Made
<1>4. RefsHeld' /\ BackingRefsLive'
  BY <1>1, <1>2, TerminalKeepsRefs
<1>5. Make(node, exprStack)
  BY <1>2
<1> HIDE DEF node
<1>6. TypeOK'
  BY <1>1, <1>2, <1>3, <1>5, FinishedKeepsType
<1>7. VisitsArePath' /\ TopIsConsistent'
  BY <1>1, <1>2, PopKeepsPath
<1>8. Faithful'
  <2>1. Objs(<<>>) = <<>>
    BY DEF Objs
  <2>2. tree.args[Current.obj] = <<>>
    BY <1>1, <1>2, CurrentFacts DEF Args
  <2>3. Objs(node.args) = tree.args[node.obj]
    BY <1>3, <2>1, <2>2
  <2>4. QED
    BY <1>1, <1>2, <1>3, <1>5, <2>3, MakeKeepsFaithful
<1>9. Owned'
  <2>1. PICK f \in Nat : f = Len(exprStack)
    BY <1>1, TypeFacts
  <2>2. PICK n \in Nat : n = 0
    OBVIOUS
  <2>3. /\ f + n = f /\ Len(<<>>) = n
        /\ \A a \in 1..n : node.args[a] = exprStack[f + a]
    BY <2>2
  <2>4. QED
    BY <1>1, <1>3, <1>5, <2>1, <2>3, MakeKeepsOwned
<1>10. PICK front \in Seq(Node) :
         /\ Flattens(Parts, Len(workJexprs) - 1, front)
         /\ Objs(exprStack) = front \o Parts[Len(workJexprs)]
  BY <1>1, <1>2, StackSplits
<1>11. Objs(exprStack) = front
  <2>1. /\ Len(workJexprs) \in Nat \ {0}
        /\ Last(argPos) = argPos[Len(workJexprs)]
    BY <1>1, <1>2, CurrentFacts
  <2>2. dir # "UP" /\ Last(argPos) = 0
    BY <1>1, <1>2 DEF TopIsConsistent
  <2>3. ArgsDone(Len(workJexprs)) = 0
    BY <2>1, <2>2 DEF ArgsDone
  <2>4. Parts[Len(workJexprs)] = SubSeq(tree.args[workJexprs[Len(workJexprs)].obj], 1, 0)
    BY <2>1, <2>3 DEF Parts
  <2>5. Parts[Len(workJexprs)] = <<>>
    BY <2>4, SubSeqEmpty
  <2>6. QED
    BY <1>10, <2>5, ConcatEmptySeq
<1>12. Objs(exprStack)' = Append(front, Current.obj)
  BY <1>1, <1>3, <1>5, <1>11, MakeObjs
<1>13. StackSoFar' /\ (workJexprs' = <<>> => front = <<>>)
  BY <1>1, <1>2, <1>10, <1>12, PopKeepsStack
<1>14. OneRoot'
  <2>1. workJexprs' = <<>> => Len(exprStack') = 1
    BY <1>3, <1>6, <1>12, <1>13, LastNodeAlone
  <2>2. QED
    BY <1>2, <2>1 DEF OneRoot
<1>15. QED
  BY <1>2, <1>4, <1>6, <1>7, <1>8, <1>9, <1>13, <1>14 DEF Good, FactoryInv

LEMMA TranslateExprKeepsGood ==
  ASSUME Good, TranslateExpr
  PROVE  Good'
<1>1. /\ TypeOK /\ VisitsArePath /\ TopIsConsistent /\ RefsHeld /\ Owned
      /\ StackSoFar /\ Faithful /\ BackingRefsLive
  BY DEF Good, FactoryInv
<1>2. /\ outcome = "working" /\ workJexprs # <<>> /\ ~AtTerminal /\ dir = "UP" /\ ~ArgsLeft
      /\ Make(Made(Current.obj, 0, Operands), WithoutOperands)
      /\ Pop /\ dir' = "UP" /\ live' = live \ {Current.ref}
      /\ tree' = tree /\ lastRef' = lastRef /\ outcome' = outcome
  BY DEF TranslateExpr, Working
<1>3. /\ Len(workJexprs) \in Nat \ {0} /\ Current = workJexprs[Len(workJexprs)]
      /\ Last(argPos) = argPos[Len(workJexprs)] /\ Last(argPos) \in Nat
      /\ Current.obj \in Node
      /\ Args \in Seq(Node) /\ Len(Args) \in Nat /\ Len(Args) \in 1..2
  BY <1>1, <1>2, CurrentFacts
<1>4. PICK front \in Seq(Node) :
         /\ Flattens(Parts, Len(workJexprs) - 1, front)
         /\ Objs(exprStack) = front \o Parts[Len(workJexprs)]
  BY <1>1, <1>2, StackSplits
<1>5. Objs(exprStack) = front \o Args
  <2>1. Last(argPos) < Len(Args) /\ ~(Last(argPos) + 1 < Len(Args))
    BY <1>1, <1>2 DEF TopIsConsistent, ArgsLeft, NextPos
  <2>2. Last(argPos) + 1 = Len(Args)
    BY <1>3, <2>1
  <2>3. ArgsDone(Len(workJexprs)) = Len(Args)
    BY <1>2, <1>3, <2>2 DEF ArgsDone
  <2>4. Parts[Len(workJexprs)] = SubSeq(Args, 1, Len(Args))
    BY <1>3, <2>3 DEF Parts, Args
  <2>5. SubSeq(Args, 1, Len(Args)) = Args
    BY <1>3, SubSeqFull
  <2>6. QED
    BY <1>4, <2>4, <2>5
<1>6. /\ Operands \in Seq(1..Len(built)) /\ Len(Operands) = Len(Args)
      /\ Objs(Operands) = Args
      /\ \A a \in 1..Len(Args) : Operands[a] = exprStack[Len(front) + a]
      /\ WithoutOperands \in Seq(1..Len(built))
      /\ Len(WithoutOperands) = Len(front)
      /\ Objs(WithoutOperands) = front
      /\ \A k \in 1..Len(front) : WithoutOperands[k] = exprStack[k]
      /\ Len(front) \in Nat
      /\ Len(exprStack) = Len(front) + Len(Args)
  BY <1>1, <1>2, <1>5, OperandsFound
<1> DEFINE node == Made(Current.obj, 0, Operands)
<1>7. node.args = Operands /\ node.obj = Current.obj
  BY DEF Made
<1>8. node \in Nodes(lastRef, Len(built))
  <2>1. 0 \in 0..lastRef
    BY <1>1 DEF TypeOK
  <2>2. QED
    BY <1>3, <1>6, <2>1 DEF Made, Nodes
<1>9. node.args # <<>>
  <2>1. \A m \in 1..2 : m # 0
    OBVIOUS
  <2>2. Len(Operands) # 0
    BY <1>3, <1>6, <2>1, Zenon
  <2>3. QED
    BY <1>6, <1>7, <2>2, EmptySeq
<1>10. PICK waiting \in Seq(1..Len(built)) : waiting = WithoutOperands
  BY <1>6
<1>11. Make(node, waiting)
  BY <1>2, <1>10
<1> HIDE DEF node
<1>12. RefsHeld' /\ BackingRefsLive'
  BY <1>1, <1>2, <1>8, <1>9, <1>11, ExprKeepsRefs
<1>13. TypeOK'
  BY <1>1, <1>2, <1>8, <1>11, FinishedKeepsType
<1>14. VisitsArePath' /\ TopIsConsistent'
  BY <1>1, <1>2, PopKeepsPath
<1>15. Faithful'
  <2>1. Objs(node.args) = tree.args[node.obj]
    BY <1>6, <1>7 DEF Args
  <2>2. QED
    BY <1>1, <1>2, <1>8, <1>11, <2>1, MakeKeepsFaithful
<1>16. Owned'
  <2>1. PICK f \in Nat : f = Len(front)
    BY <1>6
  <2>2. PICK n \in Nat : n = Len(Args)
    BY <1>3
  <2>3. /\ Len(exprStack) = f + n /\ Len(waiting) = f
        /\ \A k \in 1..f : waiting[k] = exprStack[k]
        /\ Len(node.args) = n /\ \A a \in 1..n : node.args[a] = exprStack[f + a]
    BY <1>6, <1>7, <1>10, <2>1, <2>2
  <2>4. QED
    BY <1>1, <1>8, <1>11, <2>3, MakeKeepsOwned
<1>17. Objs(exprStack)' = Append(front, Current.obj)
  <2>1. Objs(exprStack)' = Append(Objs(waiting), node.obj)
    BY <1>1, <1>8, <1>11, MakeObjs
  <2>2. QED
    BY <1>6, <1>7, <1>10, <2>1
<1>18. StackSoFar' /\ (workJexprs' = <<>> => front = <<>>)
  BY <1>1, <1>2, <1>4, <1>17, PopKeepsStack
<1>19. OneRoot'
  <2>1. workJexprs' = <<>> => Len(exprStack') = 1
    BY <1>3, <1>13, <1>17, <1>18, LastNodeAlone
  <2>2. QED
    BY <1>2, <2>1 DEF OneRoot
<1>20. QED
  BY <1>2, <1>12, <1>13, <1>14, <1>15, <1>16, <1>18, <1>19 DEF Good, FactoryInv

(* Going down to an argument, first or next.                               *)
LEMMA DownKeepsGood ==
  ASSUME Good, outcome = "working", workJexprs # <<>>, ~AtTerminal,
         NEW pos \in Nat, pos < Len(Args), pos = ArgsDone(Len(workJexprs)),
         NEW positions \in Seq(Nat), Len(positions) = Len(argPos),
         \A k \in 1..(Len(workJexprs) - 1) : positions[k] = argPos[k],
         positions[Len(workJexprs)] = pos,
         Down(pos, positions)
  PROVE  Good'
<1>1. /\ TypeOK /\ VisitsArePath /\ TopIsConsistent /\ RefsHeld /\ Owned
      /\ StackSoFar /\ Faithful /\ BackingRefsLive
  BY DEF Good, FactoryInv
<1>2. UNCHANGED <<tree, built, exprStack, outcome>>
  BY DEF Down
<1>3. TypeOK' /\ workJexprs' # <<>>
  BY <1>1, DownFacts
<1>4. VisitsArePath' /\ TopIsConsistent'
  BY <1>1, DownKeepsPath
<1>5. RefsHeld' /\ BackingRefsLive'
  BY <1>1, DownKeepsRefs
<1>6. StackSoFar'
  BY <1>1, DownKeepsStack
<1>7. Faithful'
  BY <1>1, <1>2 DEF Faithful, Objs
<1>8. Owned'
  BY <1>1, <1>2, OwnedUnchanged
<1>9. OneRoot'
  BY <1>2, <1>3 DEF OneRoot
<1>10. QED
  BY <1>2, <1>3, <1>4, <1>5, <1>6, <1>7, <1>8, <1>9 DEF Good, FactoryInv

LEMMA DescendFirstArgKeepsGood ==
  ASSUME Good, DescendFirstArg
  PROVE  Good'
<1>1. /\ TypeOK /\ TopIsConsistent
      /\ outcome = "working" /\ workJexprs # <<>> /\ ~AtTerminal /\ dir = "DOWN"
      /\ Down(0, argPos)
  BY DEF Good, FactoryInv, DescendFirstArg, Working
<1>2. /\ argPos \in Seq(Nat) /\ Len(workJexprs) \in Nat \ {0} /\ Len(Args) \in 1..2
      /\ Last(argPos) = argPos[Len(workJexprs)]
  BY <1>1, TypeFacts, CurrentFacts
<1>3. Last(argPos) = 0
  BY <1>1 DEF TopIsConsistent
<1>4. ArgsDone(Len(workJexprs)) = 0
  BY <1>1, <1>2, <1>3 DEF ArgsDone
<1>5. 0 \in Nat /\ 0 < Len(Args)
  <2>1. \A m \in 1..2 : 0 < m
    OBVIOUS
  <2>2. QED
    BY <1>2, <2>1
<1>6. PICK pos \in Nat : pos = 0
  OBVIOUS
<1>7. pos < Len(Args) /\ pos = ArgsDone(Len(workJexprs)) /\ argPos[Len(workJexprs)] = pos
  BY <1>2, <1>3, <1>4, <1>5, <1>6
<1>8. Down(pos, argPos)
  BY <1>1, <1>6
<1>9. QED
  BY <1>1, <1>2, <1>7, <1>8, DownKeepsGood

LEMMA DescendNextArgKeepsGood ==
  ASSUME Good, DescendNextArg
  PROVE  Good'
<1>1. /\ TypeOK
      /\ outcome = "working" /\ workJexprs # <<>> /\ ~AtTerminal /\ dir = "UP"
      /\ NextPos < Len(Args)
      /\ Down(NextPos, [argPos EXCEPT ![Len(argPos)] = NextPos])
  BY DEF Good, FactoryInv, DescendNextArg, Working, ArgsLeft
<1>2. /\ argPos \in Seq(Nat) /\ Len(workJexprs) \in Nat \ {0}
      /\ Len(argPos) = Len(workJexprs)
      /\ Last(argPos) = argPos[Len(workJexprs)] /\ Last(argPos) \in Nat
  BY <1>1, TypeFacts, CurrentFacts
<1>3. PICK pos \in Nat : pos = NextPos
  BY <1>2 DEF NextPos
<1>4. pos = ArgsDone(Len(workJexprs))
  BY <1>1, <1>2, <1>3 DEF ArgsDone, NextPos
<1>5. PICK positions \in Seq(Nat) : positions = [argPos EXCEPT ![Len(argPos)] = pos]
  <2>1. [argPos EXCEPT ![Len(argPos)] = pos] \in Seq(Nat)
    BY <1>2, ExceptSeq
  <2>2. QED
    BY <2>1, Zenon
<1>6. /\ positions \in Seq(Nat) /\ Len(positions) = Len(argPos)
      /\ \A k \in 1..(Len(workJexprs) - 1) : positions[k] = argPos[k]
      /\ positions[Len(workJexprs)] = pos
  BY <1>2, <1>5, ExceptSeq
<1>7. Down(pos, positions) /\ pos < Len(Args)
  BY <1>1, <1>3, <1>5
<1>8. QED
  BY <1>1, <1>4, <1>6, <1>7, DownKeepsGood

(* A failure drops the nodes and the stacks; the references stay.          *)
LEMMA FailsKeepsGood ==
  ASSUME Good, Fails
  PROVE  Good'
<1>1. TypeOK
  BY DEF Good, FactoryInv
<1>2. /\ outcome' = "convert_error"
      /\ built' = <<>> /\ exprStack' = <<>> /\ workJexprs' = <<>> /\ argPos' = <<>>
      /\ UNCHANGED <<tree, dir, live, lastRef>>
  BY DEF Fails
<1>3. /\ Len(built') = 0 /\ Len(exprStack') = 0 /\ Len(workJexprs') = 0
      /\ Len(argPos') = 0
  BY <1>2
<1>4. 1..0 = {}
  OBVIOUS
<1>5. TypeOK'
  <2>1. \A S : <<>> \in Seq(S)
    BY EmptySeq
  <2>2. QED
    BY <1>1, <1>2, <1>3, <2>1 DEF TypeOK
<1>6. VisitsArePath'
  <2>1. 1..(Len(workJexprs') - 1) = {}
    BY <1>3
  <2>2. QED
    BY <2>1 DEF VisitsArePath
<1>7. TopIsConsistent' /\ StackSoFar'
  BY <1>2 DEF TopIsConsistent, StackSoFar
<1>8. RefsHeld'
  BY <1>2, <1>3, <1>4, Zenon DEF RefsHeld
<1>9. Owned' /\ Faithful'
  BY <1>3, <1>4, Zenon DEF Owned, Faithful
<1>10. BackingRefsLive'
  BY <1>3, <1>4 DEF BackingRefsLive, Terminals
<1>11. OneRoot'
  BY <1>2 DEF OneRoot
<1>12. QED
  BY <1>2, <1>5, <1>6, <1>7, <1>8, <1>9, <1>10, <1>11 DEF Good, FactoryInv

(* At the end only the terminals' references are left.                     *)
LEMMA FinishKeepsGood ==
  ASSUME Good, Finish
  PROVE  Good'
<1>1. /\ TypeOK /\ VisitsArePath /\ TopIsConsistent /\ RefsHeld /\ Owned
      /\ StackSoFar /\ Faithful /\ BackingRefsLive
  BY DEF Good, FactoryInv
<1>2. /\ outcome = "working" /\ workJexprs = <<>>
      /\ outcome' \in {"returned", "convert_error"} /\ outcome' # "working"
      /\ UNCHANGED <<tree, workJexprs, argPos, dir, built, exprStack, live, lastRef>>
  BY DEF Finish
<1>3. TypeOK'
  BY <1>1, <1>2 DEF TypeOK
<1>4. VisitsArePath' /\ TopIsConsistent' /\ StackSoFar'
  BY <1>2 DEF VisitsArePath, TopIsConsistent, StackSoFar
<1>5. RefsHeld'
  BY <1>1, <1>2 DEF RefsHeld, Terminals
<1>6. Owned' /\ Faithful' /\ BackingRefsLive'
  BY <1>1, <1>2, OwnedUnchanged DEF Faithful, Objs, BackingRefsLive, Terminals
<1>7. OneRoot'
  <2>1. live = Held \cup Backing
    BY <1>1, <1>2, RefsAreSets
  <2>2. Held = {}
    <3>1. 1..0 = {} /\ Len(workJexprs) = 0
      BY <1>2
    <3>2. QED
      BY <3>1, Zenon DEF Held
  <2>3. live = {built[t].ref : t \in Terminals}
    BY <2>1, <2>2 DEF Backing
  <2>4. live' = {built'[t].ref : t \in Terminals'}
    BY <1>2, <2>3 DEF Terminals
  <2>5. QED
    BY <1>2, <2>4 DEF OneRoot
<1>8. QED
  BY <1>2, <1>3, <1>4, <1>5, <1>6, <1>7 DEF Good, FactoryInv

LEMMA InitGood == Init => Good
<1> SUFFICES ASSUME Init PROVE Good
  OBVIOUS
<1>1. /\ tree \in Tree /\ argPos = <<0>> /\ dir = "DOWN"
      /\ built = <<>> /\ exprStack = <<>> /\ live = {0} /\ lastRef = 0
      /\ outcome = "working"
  BY DEF Init
<1>2. PICK root \in Node : workJexprs = <<Visit(root, 0)>>
  BY DEF Init
<1>3. /\ Len(workJexprs) = 1 /\ Len(argPos) = 1 /\ workJexprs # <<>>
      /\ workJexprs[1] = Visit(root, 0) /\ argPos[1] = 0
      /\ Len(built) = 0 /\ Len(exprStack) = 0
  BY <1>1, <1>2
<1>4. 1..0 = {} /\ 1..1 = {1} /\ 1 - 1 = 0
  OBVIOUS
<1>5. TypeOK
  <2>1. WellFormed(tree)
    BY <1>1, TreeAssumption
  <2>2. Visit(root, 0) \in [obj : Node, ref : 0..lastRef]
    BY <1>1 DEF Visit
  <2>3. /\ workJexprs \in Seq([obj : Node, ref : 0..lastRef])
        /\ argPos \in Seq(Nat)
    BY <1>1, <1>2, <2>2
  <2>4. \A S : <<>> \in Seq(S)
    BY EmptySeq
  <2>5. QED
    BY <1>1, <1>3, <2>1, <2>3, <2>4 DEF TypeOK
<1>6. VisitsArePath
  BY <1>3, <1>4, Zenon DEF VisitsArePath
<1>7. TopIsConsistent
  BY <1>1, <1>3 DEF TopIsConsistent, Last
<1>8. Terminals = {}
  BY <1>3, <1>4, Zenon DEF Terminals
<1>9. RefsHeld
  <2>1. {workJexprs[k].ref : k \in 1..Len(workJexprs)} = {0}
    BY <1>3, <1>4 DEF Visit
  <2>2. {built[t].ref : t \in Terminals} = {}
    BY <1>8
  <2>3. \A k, l \in 1..Len(workJexprs) :
          workJexprs[k].ref = workJexprs[l].ref => k = l
    BY <1>3, <1>4
  <2>4. QED
    BY <1>1, <1>8, <2>1, <2>2, <2>3 DEF RefsHeld
<1>10. Owned /\ Faithful
  BY <1>3, <1>4, Zenon DEF Owned, Faithful
<1>11. BackingRefsLive
  BY <1>8 DEF BackingRefsLive
<1>12. OneRoot
  BY <1>1, <1>3 DEF OneRoot
<1>13. StackSoFar
  <2>1. Objs(exprStack) = <<>>
    BY <1>1 DEF Objs
  <2>2. Parts[1] = <<>>
    <3>1. ArgsDone(1) = 0
      BY <1>1, <1>3 DEF ArgsDone
    <3>2. Parts[1] = SubSeq(tree.args[workJexprs[1].obj], 1, 0)
      BY <1>3, <1>4, <3>1 DEF Parts
    <3>3. QED
      BY <3>2, SubSeqEmpty
  <2>3. Flattens(Parts, 1, <<>>)
    BY <2>2, FlattenEmpty
  <2>4. QED
    BY <1>3, <2>1, <2>3 DEF StackSoFar
<1>14. QED
  BY <1>1, <1>5, <1>6, <1>7, <1>9, <1>10, <1>11, <1>12, <1>13 DEF Good, FactoryInv

LEMMA StepKeepsGood == Good /\ [Next]_vars => Good'
<1> SUFFICES ASSUME Good, [Next]_vars PROVE Good'
  OBVIOUS
<1>1. CASE TranslateTerminal
  BY <1>1, TranslateTerminalKeepsGood
<1>2. CASE DescendFirstArg
  BY <1>2, DescendFirstArgKeepsGood
<1>3. CASE DescendNextArg
  BY <1>3, DescendNextArgKeepsGood
<1>4. CASE TranslateExpr
  BY <1>4, TranslateExprKeepsGood
<1>5. CASE Fails
  BY <1>5, FailsKeepsGood
<1>6. CASE Finish
  BY <1>6, FinishKeepsGood
<1>7. CASE UNCHANGED vars
  <2>1. /\ TypeOK /\ VisitsArePath /\ TopIsConsistent /\ RefsHeld /\ Owned
        /\ (outcome # "working" => workJexprs = <<>>)
        /\ StackSoFar /\ Faithful /\ BackingRefsLive /\ OneRoot
    BY DEF Good, FactoryInv
  <2>2. /\ UNCHANGED <<tree, workJexprs, argPos, dir, built, exprStack, live, lastRef>>
        /\ outcome' = outcome
    BY <1>7 DEF vars
  <2>3. TypeOK' /\ VisitsArePath' /\ TopIsConsistent'
    BY <2>1, <2>2 DEF TypeOK, VisitsArePath, TopIsConsistent, Current, AtTerminal, Args
  <2>4. Terminals' = Terminals /\ Parts' = Parts /\ Objs(exprStack)' = Objs(exprStack)
    BY <2>2 DEF Terminals, Parts, ArgsDone, Objs
  <2>5. RefsHeld' /\ BackingRefsLive' /\ OneRoot'
    BY <2>1, <2>2, <2>4 DEF RefsHeld, BackingRefsLive, OneRoot
  <2>6. StackSoFar'
    BY <2>1, <2>2, <2>4, Zenon DEF StackSoFar
  <2>7. Faithful'
    BY <2>1, <2>2 DEF Faithful, Objs
  <2>8. Owned'
    BY <2>1, <2>2, OwnedUnchanged
  <2>9. QED
    BY <2>1, <2>2, <2>3, <2>5, <2>6, <2>7, <2>8 DEF Good, FactoryInv
<1>8. QED
  BY <1>1, <1>2, <1>3, <1>4, <1>5, <1>6, <1>7 DEF Next

LEMMA AlwaysGood == Spec => []Good
<1>1. QED
  BY InitGood, StepKeepsGood, PTL DEF Spec

-----------------------------------------------------------------------------
(* What is on the stack, in the words of the property.                     *)
LEMMA StackAsFlattened ==
  ASSUME Good
  PROVE  OperandsOnTop
<1> SUFFICES ASSUME Working
             PROVE  Objs(exprStack) =
                      FlattenSeq([i \in 1..Len(workJexprs) |->
                        SubSeq(tree.args[workJexprs[i].obj], 1, ArgsDone(i))])
  BY DEF OperandsOnTop
<1>1. /\ TypeOK /\ VisitsArePath /\ TopIsConsistent /\ StackSoFar /\ workJexprs # <<>>
  BY DEF Good, FactoryInv, Working
<1> DEFINE was == Parts
           objs == Objs(exprStack)
<1>2. PICK len \in Nat \ {0} : len = Len(workJexprs)
  BY <1>1, CurrentFacts
<1>3. \A k \in 1..len : was[k] \in Seq(Node)
  BY <1>1, <1>2, PartsFacts
<1>4. was \in [1..len -> Seq(Node)]
  BY <1>2, <1>3 DEF Parts
<1>5. Flattens(was, len, objs)
  BY <1>1, <1>2 DEF StackSoFar
<1> HIDE DEF was, objs
<1>6. was \in Seq(Seq(Node)) /\ Len(was) = len
  <2>1. \A n \in Nat : \A f : f \in [1..n -> Seq(Node)] => f \in Seq(Seq(Node)) /\ Len(f) = n
    OBVIOUS
  <2>2. QED
    BY <1>4, <2>1
<1>7. was # <<>>
  BY <1>6, EmptySeq
<1>8. FlattenSeq(was) = objs
  BY <1>5, <1>6, <1>7, FlattenSeqIs
<1>9. QED
  BY <1>8 DEF was, objs, Parts

(* The state of the translation is what its actions rely on: the objects   *)
(* visited are a path down the Java graph, the references held are theirs  *)
(* and the terminals', and every node made has exactly one owner.          *)
THEOREM FactoryInvariant == Spec => []FactoryInv
<1>1. Good => FactoryInv
  BY DEF Good
<1>2. QED
  BY <1>1, AlwaysGood, PTL

(* Every librdag node has the operands of its Java object, in their order, *)
(* and is the operand of one node or waits once on the stack: whatever is  *)
(* shared in the graph, the nodes are trees (exprfactory.cc).              *)
THEOREM TranslationIsFaithful == Spec => []FaithfulTree
<1>1. Good => FaithfulTree
  BY OwnedOnceIsForest DEF Good, FactoryInv, FaithfulTree
<1>2. QED
  BY <1>1, AlwaysGood, PTL

(* At every step the operand stack holds the arguments finished by the     *)
(* objects visited, so each operator pops its own; a translation that goes *)
(* through ends with one root and the terminals' references only.          *)
THEOREM OperandsAreOnTop == Spec => []StackDiscipline
<1>1. Good => StackDiscipline
  BY StackAsFlattened DEF Good, StackDiscipline
<1>2. QED
  BY <1>1, AlwaysGood, PTL

(* The reference a terminal will unbind its data through is never deleted  *)
(* by the translation, and is never another terminal's.                    *)
THEOREM TerminalsKeepTheirRefs == Spec => []BackingRefsLive
<1>1. Good => BackingRefsLive
  BY DEF Good
<1>2. QED
  BY <1>1, AlwaysGood, PTL
=============================================================================
